----------------------------- MODULE StVmProofs -----------------------------
(***************************************************************************)
(* Theorems about StVm: a program that has been verified never strays, for *)
(* every program, every width of the numbers and every limit of the        *)
(* machine.  Verified looks at one instruction at a time and at no run;    *)
(* the invariant carries it from instruction to instruction, and over      *)
(* calls and returns by what it knows of the frames below.                 *)
(***************************************************************************)
EXTENDS StVm, SequenceTheorems, TLAPS

\* The compiler's promise (StLanguage checks it of the code it compiles).
AllVerified == \A p \in Programs : Verified(p)

-----------------------------------------------------------------------------
\* Sequences of whatever they hold: what is on the stack does not matter here.
IsSeq(s) == s \in Seq({s[i] : i \in DOMAIN s})

LEMMA SeqOfAnything ==
  ASSUME NEW S, NEW s \in Seq(S)
  PROVE  IsSeq(s) /\ Len(s) \in Nat /\ DOMAIN s = 1 .. Len(s)
<1>. DEFINE T == {s[i] : i \in DOMAIN s}
<1>1. Len(s) \in Nat /\ DOMAIN s = 1 .. Len(s) /\ s \in [1 .. Len(s) -> S]
  BY LenProperties
<1>2. s \in [1 .. Len(s) -> T]
  BY <1>1
<1>3. s \in Seq(T)
  BY <1>1, <1>2, SeqDef
<1>. QED
  BY <1>1, <1>3 DEF IsSeq

LEMMA SeqFacts ==
  ASSUME NEW s, IsSeq(s)
  PROVE  Len(s) \in Nat /\ DOMAIN s = 1 .. Len(s)
BY LenProperties DEF IsSeq

LEMMA EmptySequence == IsSeq(<<>>) /\ Len(<<>>) = 0
BY EmptySeq, SeqOfAnything

LEMMA Appended ==
  ASSUME NEW s, IsSeq(s), NEW x
  PROVE  /\ IsSeq(Append(s, x)) /\ Len(Append(s, x)) = Len(s) + 1
         /\ \A i \in 1 .. Len(s) : Append(s, x)[i] = s[i]
         /\ Append(s, x)[Len(s) + 1] = x
<1>. DEFINE T == {s[i] : i \in DOMAIN s} \cup {x}
<1>1. s \in Seq(T)
  BY SeqMonotonic DEF IsSeq
<1>2. x \in T
  OBVIOUS
<1>. HIDE DEF T
<1>3. Append(s, x) \in Seq(T) /\ Len(Append(s, x)) = Len(s) + 1
      /\ (\A i \in 1 .. Len(s) : Append(s, x)[i] = s[i]) /\ Append(s, x)[Len(s) + 1] = x
  BY <1>1, <1>2, AppendProperties
<1>. QED
  BY <1>3, SeqOfAnything

LEMMA CutTo ==
  ASSUME NEW s, IsSeq(s), NEW n \in 0 .. Len(s)
  PROVE  /\ IsSeq(SubSeq(s, 1, n)) /\ Len(SubSeq(s, 1, n)) = n
         /\ \A i \in 1 .. n : SubSeq(s, 1, n)[i] = s[i]
<1>. DEFINE T == {s[i] : i \in DOMAIN s}
<1>1. Len(s) \in Nat /\ DOMAIN s = 1 .. Len(s)
  BY SeqFacts
<1>2. n \in Int /\ 1 \in Int /\ \A i \in 1 .. n : s[i] \in T
  BY <1>1
<1>. HIDE DEF T
<1>3. SubSeq(s, 1, n) \in Seq(T) /\ Len(SubSeq(s, 1, n)) = (IF 1 <= n THEN n - 1 + 1 ELSE 0)
  BY <1>2, SubSeqProperties
<1>4. Len(SubSeq(s, 1, n)) = n
  BY <1>1, <1>3
<1>5. \A i \in 1 .. n : SubSeq(s, 1, n)[i] = s[i]
  BY <1>1
<1>. QED
  BY <1>3, <1>4, <1>5, SeqOfAnything

LEMMA Replaced ==
  ASSUME NEW s, IsSeq(s), NEW i \in 1 .. Len(s), NEW x
  PROVE  IsSeq([s EXCEPT ![i] = x]) /\ Len([s EXCEPT ![i] = x]) = Len(s)
<1>. DEFINE T == {s[j] : j \in DOMAIN s} \cup {x}
<1>1. s \in Seq(T)
  BY SeqMonotonic DEF IsSeq
<1>2. x \in T
  OBVIOUS
<1>. HIDE DEF T
<1>3. [s EXCEPT ![i] = x] \in Seq(T) /\ Len([s EXCEPT ![i] = x]) = Len(s)
  BY <1>1, <1>2, ExceptSeq
<1>. QED
  BY <1>3, SeqOfAnything

\* What Return leaves: the stack below the frame, and one value.
LEMMA CutAndPushed ==
  ASSUME NEW s, IsSeq(s), NEW n \in 0 .. Len(s), NEW x
  PROVE  IsSeq(SubSeq(s, 1, n) \o <<x>>) /\ Len(SubSeq(s, 1, n) \o <<x>>) = n + 1
<1>. DEFINE r == SubSeq(s, 1, n)
            T == {r[i] : i \in DOMAIN r} \cup {x}
<1>1. IsSeq(r) /\ Len(r) = n
  BY CutTo
<1>2. r \in Seq(T)
  BY <1>1, SeqMonotonic DEF IsSeq
<1>3. <<x>> \in Seq(T) /\ Len(<<x>>) = 1
  OBVIOUS
<1>. HIDE DEF r, T
<1>4. r \o <<x>> \in Seq(T) /\ Len(r \o <<x>>) = n + 1
  BY <1>1, <1>2, <1>3, ConcatProperties
<1>. QED
  BY <1>4, SeqOfAnything DEF r

-----------------------------------------------------------------------------
(* The invariant.  A machine that runs program p has come to address a with *)
(* the operands st and the frames cs: the stack is as high as the check     *)
(* says, above the base of the innermost frame, and every frame was made by *)
(* a CALL from the function of the frame below it.                          *)

BaseOf(cs, n) == IF n = 0 THEN 0 ELSE cs[n].base
FunOf(cs, n) == IF n = 0 THEN 0 ELSE cs[n].f

FrameFits(p, cs, i) ==
  /\ cs[i].ret \in DOMAIN p.code /\ p.heights[cs[i].ret] # -1
  /\ p.code[cs[i].ret].op = "CALL" /\ p.code[cs[i].ret].n = cs[i].f
  /\ p.owner[cs[i].ret] = FunOf(cs, i - 1)
  /\ cs[i].f \in DOMAIN p.funs /\ cs[i].params = p.funs[cs[i].f].params
  /\ cs[i].base \in Nat
  /\ cs[i].base = BaseOf(cs, i - 1) + p.heights[cs[i].ret] - cs[i].params

Fits(p, a, st, cs) ==
  /\ IsSeq(st) /\ IsSeq(cs)
  /\ a \in DOMAIN p.code /\ p.heights[a] # -1
  /\ p.owner[a] = FunOf(cs, Len(cs))
  /\ Len(st) = BaseOf(cs, Len(cs)) + p.heights[a]
  /\ \A i \in 1 .. Len(cs) : FrameFits(p, cs, i)

Running == phase = "run" => Fits(prog, pc, stack, calls)

Places ==
  /\ Verified(prog)
  /\ DOMAIN vars = DOMAIN prog.types /\ DOMAIN kept = DOMAIN prog.types
  /\ DOMAIN globals = DOMAIN Globals /\ DOMAIN blocks = DOMAIN prog.blocks

IInv == Places /\ Running /\ NeverStrays

-----------------------------------------------------------------------------
(* What holds of a verified program at an address it has come to.           *)

LEMMA ArgCounts == \A s \in Blocks \cup PureFunctions \cup {"SCALE"} : ArgCount(s) \in Nat
BY DEF ArgCount, Blocks, PureFunctions, Timers, Counters,
       Functions1, Functions2, Functions3, Functions4

LEMMA ShapeFacts ==
  ASSUME NEW p, Verified(p)
  PROVE  /\ \A a \in DOMAIN p.code : p.heights[a] \in Int /\ (p.heights[a] # -1 => p.heights[a] \in Nat)
         /\ \A f \in DOMAIN p.funs : p.funs[f].params \in Nat /\ f \in 1 .. Len(p.funs) /\ f # 0
         /\ 1 \in DOMAIN p.code
         /\ DOMAIN p.code \subseteq Nat
<1>1. Shaped(p)
  BY DEF Verified
<1>2. \A a \in DOMAIN p.code : p.heights[a] \in Nat \cup {-1}
  BY <1>1 DEF Shaped
<1>3. p.funs \in Seq([addr : Nat, params : Nat, locals : Nat])
  BY <1>1 DEF Shaped
<1>4. DOMAIN p.funs = 1 .. Len(p.funs) /\ Len(p.funs) \in Nat
      /\ \A f \in DOMAIN p.funs : p.funs[f] \in [addr : Nat, params : Nat, locals : Nat]
  BY <1>3, LenProperties, ElementOfSeq
<1>5. DOMAIN p.code = 1 .. Len(p.code) /\ Len(p.code) \in Nat /\ Len(p.code) # 0
  BY <1>1, LenProperties, EmptySeq DEF Shaped
<1>6. 1 \in DOMAIN p.code /\ DOMAIN p.code \subseteq Nat
  BY <1>5
<1>7. \A f \in DOMAIN p.funs : p.funs[f].params \in Nat /\ f \in 1 .. Len(p.funs) /\ f # 0
  BY <1>4
<1>. QED
  BY <1>2, <1>6, <1>7

LEMMA TakesAreNat ==
  ASSUME NEW p, Verified(p), NEW a \in DOMAIN p.code, p.heights[a] # -1
  PROVE  Takes(p, p.code[a]) \in Nat /\ Gives(p.code[a]) \in Nat /\ VerifiedAt(p, a)
<1>1. VerifiedAt(p, a)
  BY DEF Verified
<1>2. Sound(p, p.code[a], p.owner[a], p.heights[a])
  BY <1>1 DEF VerifiedAt
<1>3. CASE p.code[a].op = "BUILTIN"
  <2>1. p.code[a].s \in Blocks \cup PureFunctions \cup {"SCALE"}
    BY <1>2, <1>3 DEF Sound
  <2>2. Takes(p, p.code[a]) = ArgCount(p.code[a].s)
    BY <1>3 DEF Takes, Stores, Branches2
  <2>3. Gives(p.code[a]) \in Nat
    BY DEF Gives
  <2>. QED
    BY <1>1, <2>1, <2>2, <2>3, ArgCounts
<1>4. CASE p.code[a].op = "CALL"
  <2>1. p.code[a].n \in DOMAIN p.funs
    BY <1>2, <1>4 DEF Sound
  <2>2. Takes(p, p.code[a]) = p.funs[p.code[a].n].params
    BY <1>4 DEF Takes, Stores, Branches2
  <2>3. Gives(p.code[a]) \in Nat
    BY DEF Gives
  <2>. QED
    BY <1>1, <2>1, <2>2, <2>3, ShapeFacts
<1>5. CASE p.code[a].op \notin {"BUILTIN", "CALL"}
  BY <1>1, <1>5 DEF Takes, Gives
<1>. QED
  BY <1>3, <1>4, <1>5

LEMMA BaseIsNat ==
  ASSUME NEW p, NEW a, NEW st, NEW cs, Fits(p, a, st, cs)
  PROVE  BaseOf(cs, Len(cs)) \in Nat /\ Len(cs) \in Nat
BY SeqFacts DEF Fits, FrameFits, BaseOf

\* There are as many operands as the instruction takes.
LEMMA EnoughOperands ==
  ASSUME NEW p, Verified(p), NEW a, NEW st, NEW cs, Fits(p, a, st, cs)
  PROVE  /\ Len(st) \in Nat /\ Takes(p, p.code[a]) \in Nat /\ Gives(p.code[a]) \in Nat
         /\ Takes(p, p.code[a]) <= Len(st)
         /\ VerifiedAt(p, a)
<1>1. a \in DOMAIN p.code /\ p.heights[a] # -1 /\ Len(st) = BaseOf(cs, Len(cs)) + p.heights[a]
  BY DEF Fits
<1>2. Takes(p, p.code[a]) \in Nat /\ Gives(p.code[a]) \in Nat /\ VerifiedAt(p, a)
  BY <1>1, TakesAreNat
<1>3. Takes(p, p.code[a]) <= p.heights[a] /\ p.heights[a] \in Nat
  BY <1>1, <1>2, ShapeFacts DEF VerifiedAt
<1>4. BaseOf(cs, Len(cs)) \in Nat
  BY BaseIsNat
<1>. QED
  BY <1>1, <1>2, <1>3, <1>4

\* On to a successor, with the operands the instruction leaves.
LEMMA FitsNext ==
  ASSUME NEW p, Verified(p), NEW a, NEW st, NEW cs, Fits(p, a, st, cs),
         NEW b \in Successors(p, a), NEW st2, IsSeq(st2),
         Len(st2) = Len(st) + Gives(p.code[a]) - Takes(p, p.code[a])
  PROVE  Fits(p, b, st2, cs)
<1>1. a \in DOMAIN p.code /\ p.heights[a] # -1 /\ Len(st) = BaseOf(cs, Len(cs)) + p.heights[a]
  BY DEF Fits
<1>2. /\ Takes(p, p.code[a]) \in Nat /\ Gives(p.code[a]) \in Nat /\ VerifiedAt(p, a)
      /\ Takes(p, p.code[a]) <= p.heights[a] /\ p.heights[a] \in Nat
  BY <1>1, TakesAreNat, ShapeFacts DEF VerifiedAt
<1>3. /\ b \in DOMAIN p.code /\ p.owner[b] = p.owner[a]
      /\ p.heights[b] = p.heights[a] + (Gives(p.code[a]) - Takes(p, p.code[a]))
  BY <1>2 DEF VerifiedAt, Rise
<1>4. p.heights[b] # -1
  BY <1>2, <1>3
<1>5. Len(st2) = BaseOf(cs, Len(cs)) + p.heights[b]
  BY <1>1, <1>2, <1>3, BaseIsNat
<1>. QED
  BY <1>3, <1>4, <1>5 DEF Fits

LEMMA OneBelow == \A n : n \in Nat /\ n # 0 => n - 1 \in 0 .. n /\ (n # 1 => n - 1 \in 1 .. n)
OBVIOUS

\* Into a function: its frame begins below the parameters.
LEMMA FitsCall ==
  ASSUME NEW p, Verified(p), NEW a, NEW st, NEW cs, Fits(p, a, st, cs),
         p.code[a].op = "CALL", NEW c,
         c.ret = a, c.f = p.code[a].n, c.params = p.funs[c.f].params,
         c.base = Len(st) - c.params
  PROVE  Fits(p, p.funs[c.f].addr, st, Append(cs, c))
<1>. DEFINE cs2 == Append(cs, c)
            n == Len(cs) + 1
            entry == p.funs[c.f].addr
<1>1. /\ a \in DOMAIN p.code /\ p.heights[a] # -1 /\ p.owner[a] = FunOf(cs, Len(cs))
      /\ Len(st) = BaseOf(cs, Len(cs)) + p.heights[a] /\ IsSeq(st) /\ IsSeq(cs)
  BY DEF Fits
<1>2. VerifiedAt(p, a) /\ Takes(p, p.code[a]) <= p.heights[a]
  BY <1>1, TakesAreNat DEF VerifiedAt
<1>3. c.f \in DOMAIN p.funs
  BY <1>2 DEF VerifiedAt, Sound
<1>4. Takes(p, p.code[a]) = c.params /\ c.params \in Nat /\ c.f # 0
  BY <1>3, ShapeFacts DEF Takes, Stores, Branches2
<1>5. p.heights[a] \in Nat
  BY <1>1, ShapeFacts
<1>6. BaseOf(cs, Len(cs)) \in Nat /\ Len(cs) \in Nat
  BY BaseIsNat
<1>7. c.base \in Nat /\ c.base = BaseOf(cs, Len(cs)) + p.heights[a] - c.params
      /\ Len(st) = c.base + c.params
  <2>1. c.params <= p.heights[a]
    BY <1>2, <1>4, Zenon
  <2>2. Len(st) = BaseOf(cs, Len(cs)) + p.heights[a]
    BY <1>1
  <2>. DEFINE l == Len(st)
              b == BaseOf(cs, Len(cs))
              h == p.heights[a]
              k == c.params
  <2>3. b \in Nat /\ h \in Nat /\ k \in Nat /\ k <= h /\ l = b + h
    BY <1>4, <1>5, <1>6, <2>1, <2>2, Zenon
  <2>. HIDE DEF l, b, h, k
  <2>4. l - k \in Nat /\ l - k = b + h - k /\ l = (l - k) + k
    BY <2>3
  <2>5. c.base = l - k
    BY Zenon DEF l, k
  <2>. QED
    BY <2>4, <2>5, Zenon DEF l, b, h, k
<1>8. /\ IsSeq(cs2) /\ Len(cs2) = n /\ cs2[n] = c
      /\ \A i \in 1 .. Len(cs) : cs2[i] = cs[i]
  BY <1>1, Appended
<1>. HIDE DEF cs2
<1>9. \A i \in 0 .. Len(cs) : BaseOf(cs2, i) = BaseOf(cs, i) /\ FunOf(cs2, i) = FunOf(cs, i)
  BY <1>6, <1>8 DEF BaseOf, FunOf
<1>10. FrameFits(p, cs2, n)
  BY <1>1, <1>3, <1>6, <1>7, <1>8, <1>9 DEF FrameFits
<1>11. ASSUME NEW i \in 1 .. Len(cs) PROVE FrameFits(p, cs2, i)
  <2>1. FrameFits(p, cs, i)
    BY DEF Fits
  <2>2. i - 1 \in 0 .. Len(cs)
    BY <1>6
  <2>. QED
    BY <2>1, <2>2, <1>8, <1>9 DEF FrameFits
<1>12. \A i \in 1 .. Len(cs2) : FrameFits(p, cs2, i)
  BY <1>6, <1>8, <1>10, <1>11
<1>13. entry \in DOMAIN p.code /\ p.heights[entry] = c.params /\ p.owner[entry] = c.f
  BY <1>3 DEF Verified
<1>14. p.heights[entry] # -1 /\ p.owner[entry] = FunOf(cs2, Len(cs2)) /\ BaseOf(cs2, Len(cs2)) = c.base
  BY <1>4, <1>6, <1>8, <1>13 DEF FunOf, BaseOf
<1>15. Len(st) = BaseOf(cs2, Len(cs2)) + p.heights[entry]
  BY <1>7, <1>13, <1>14, Zenon
<1>. QED
  BY <1>1, <1>8, <1>12, <1>13, <1>14, <1>15 DEF Fits, cs2

\* And back, behind the CALL, with one value in the place of the parameters.
LEMMA FitsReturn ==
  ASSUME NEW p, Verified(p), NEW a, NEW st, NEW cs, Fits(p, a, st, cs), cs # <<>>,
         NEW st2, IsSeq(st2), Len(st2) = cs[Len(cs)].base + 1
  PROVE  Fits(p, cs[Len(cs)].ret + 1, st2, SubSeq(cs, 1, Len(cs) - 1))
<1>. DEFINE n == Len(cs)
            c == cs[n]
            cs2 == SubSeq(cs, 1, n - 1)
<1>1. IsSeq(cs) /\ n \in Nat /\ n # 0
  BY BaseIsNat, EmptySeq DEF Fits, IsSeq
<1>2. FrameFits(p, cs, n)
  BY <1>1 DEF Fits
<1>3. IsSeq(cs2) /\ Len(cs2) = n - 1 /\ \A i \in 1 .. n - 1 : cs2[i] = cs[i]
  <2>1. n - 1 \in 0 .. Len(cs)
    BY <1>1
  <2>. QED
    BY <1>1, <2>1, CutTo
<1>. HIDE DEF cs2
<1>4. \A i \in 0 .. n - 1 : BaseOf(cs2, i) = BaseOf(cs, i) /\ FunOf(cs2, i) = FunOf(cs, i)
  BY <1>1, <1>3 DEF BaseOf, FunOf
<1>5. /\ c.ret \in DOMAIN p.code /\ p.heights[c.ret] # -1 /\ p.code[c.ret].op = "CALL"
      /\ p.code[c.ret].n = c.f /\ p.owner[c.ret] = FunOf(cs, n - 1) /\ c.f \in DOMAIN p.funs
      /\ c.params = p.funs[c.f].params /\ c.base \in Nat
      /\ c.base = BaseOf(cs, n - 1) + p.heights[c.ret] - c.params
  BY <1>2 DEF FrameFits
<1>6. VerifiedAt(p, c.ret) /\ Successors(p, c.ret) = {c.ret + 1}
  BY <1>5, TakesAreNat DEF Successors, Branches2
<1>7. Rise(p, p.code[c.ret]) = 1 - c.params
  BY <1>5 DEF Rise, Takes, Gives, Stores, Loads, Branches2
<1>8. /\ c.ret + 1 \in DOMAIN p.code /\ p.owner[c.ret + 1] = p.owner[c.ret]
      /\ p.heights[c.ret + 1] = p.heights[c.ret] + (1 - c.params)
  BY <1>6, <1>7 DEF VerifiedAt
<1>9. p.heights[c.ret] \in Nat /\ c.params \in Nat /\ Takes(p, p.code[c.ret]) = c.params
  BY <1>5, ShapeFacts DEF Takes, Stores, Branches2
<1>10. p.heights[c.ret] >= c.params
  BY <1>6, <1>9 DEF VerifiedAt
<1>11. BaseOf(cs, n - 1) \in Int
  <2>1. CASE n = 1
    BY <2>1 DEF BaseOf
  <2>2. CASE n # 1
    <3>1. n - 1 \in 1 .. Len(cs)
      BY <1>1, <2>2, OneBelow
    <3>2. FrameFits(p, cs, n - 1)
      BY <3>1 DEF Fits
    <3>. QED
      BY <1>1, <2>2, <3>2 DEF FrameFits, BaseOf
  <2>. QED
    BY <2>1, <2>2
<1>12. p.heights[c.ret + 1] # -1 /\ Len(st2) = BaseOf(cs2, Len(cs2)) + p.heights[c.ret + 1]
  <2>1. n - 1 \in 0 .. n - 1
    BY <1>1, OneBelow
  <2>2. BaseOf(cs2, Len(cs2)) = BaseOf(cs, n - 1)
    BY <2>1, <1>3, <1>4
  <2>. DEFINE b == BaseOf(cs, n - 1)
              h == p.heights[c.ret]
              h2 == p.heights[c.ret + 1]
              k == c.params
              l == Len(st2)
              lo == c.base
  <2>3. lo = b + h - k /\ l = lo + 1 /\ h2 = h + (1 - k)
    BY <1>5, <1>8, Zenon
  <2>4. b \in Int /\ h \in Nat /\ k \in Nat /\ h >= k
    BY <1>9, <1>10, <1>11, Zenon
  <2>. HIDE DEF b, h, h2, k, l, lo
  <2>5. h2 # -1 /\ l = b + h2
    BY <2>3, <2>4
  <2>. QED
    BY <2>2, <2>5, Zenon DEF b, h2, l
<1>13. p.owner[c.ret + 1] = FunOf(cs2, Len(cs2))
  BY <1>1, <1>3, <1>4, <1>5, <1>8
<1>14. ASSUME NEW i \in 1 .. Len(cs2) PROVE FrameFits(p, cs2, i)
  <2>1. FrameFits(p, cs, i) /\ i \in 1 .. n - 1 /\ i - 1 \in 0 .. n - 1
    BY <1>1, <1>3 DEF Fits
  <2>. QED
    BY <2>1, <1>3, <1>4 DEF FrameFits
<1>. QED
  BY <1>3, <1>8, <1>12, <1>13, <1>14 DEF Fits, cs2

-----------------------------------------------------------------------------
(* The ways in which an instruction leaves the machine.                     *)

Keeps == Running' /\ NeverStrays' /\ prog' = prog /\ kept' = kept

LEMMA Stops ==
  ASSUME NEW e, Stop(e), e \notin Strays
  PROVE  Keeps
BY DEF Keeps, Stop, Running, NeverStrays, outside

LEMMA Goes ==
  ASSUME IInv, phase = "run", NEW st, NEW a, Go(st, a), calls' = calls,
         a \in Successors(prog, pc), IsSeq(st),
         Len(st) = Height + Gives(Instr) - Takes(prog, Instr)
  PROVE  Keeps
<1>1. Verified(prog)
  BY DEF IInv, Places
<1>2. Fits(prog, pc, stack, calls)
  BY DEF IInv, Running
<1>3. Fits(prog, a, st, calls)
  BY <1>1, <1>2, FitsNext DEF Height, Instr
<1>4. stack' = st /\ pc' = a /\ UNCHANGED <<calls, prog, kept, err>>
  BY DEF Go, outside
<1>5. Fits(prog', pc', stack', calls')
  BY <1>3, <1>4
<1>. QED
  BY <1>4, <1>5 DEF Keeps, Running, NeverStrays, IInv

LEMMA PlacesKept ==
  ASSUME Places, prog' = prog, DOMAIN kept' = DOMAIN kept, DOMAIN vars' = DOMAIN vars,
         DOMAIN globals' = DOMAIN globals, DOMAIN blocks' = DOMAIN blocks
  PROVE  Places'
<1>1. Verified(prog')
  BY DEF Places
<1>. QED
  BY <1>1 DEF Places

\* Where the machine is, what the check says of the instruction there.
LEMMA Here ==
  ASSUME IInv, phase = "run"
  PROVE  /\ Verified(prog) /\ Fits(prog, pc, stack, calls) /\ IsSeq(stack) /\ Height \in Nat
         /\ pc \in DOMAIN prog.code
         /\ Sound(prog, Instr, prog.owner[pc], prog.heights[pc])
         /\ Takes(prog, Instr) \in Nat /\ Takes(prog, Instr) <= Height
<1>1. Verified(prog) /\ Fits(prog, pc, stack, calls)
  BY DEF IInv, Places, Running
<1>2. IsSeq(stack) /\ pc \in DOMAIN prog.code
  BY <1>1 DEF Fits
<1>. QED
  BY <1>1, <1>2, EnoughOperands DEF VerifiedAt, Instr, Height

LEMMA Yields ==
  ASSUME IInv, phase = "run", NEW n \in Nat, n <= Height, NEW results, Yield(n, results),
         pc + 1 \in Successors(prog, pc), Gives(Instr) - Takes(prog, Instr) = 1 - n,
         Gives(Instr) \in Nat
  PROVE  Keeps /\ vars' = vars
<1>1. vars' = vars /\ Height \in Nat /\ IsSeq(stack) /\ Takes(prog, Instr) \in Nat
  BY Here DEF Yield
<1>2. ~(Height < n)
  BY <1>1
<1>3. CASE results = {}
  BY <1>1, <1>2, <1>3, Stops DEF Yield, Strays
<1>4. CASE results # {} /\ Height - n >= StackLimit
  BY <1>1, <1>2, <1>4, Stops DEF Yield, Strays
<1>5. CASE results # {} /\ ~(Height - n >= StackLimit)
  <2>1. PICK x \in results : Go(Append(Under(n), x), pc + 1)
    BY <1>2, <1>5 DEF Yield
  <2>2. calls' = calls
    BY <1>2, <1>5 DEF Yield
  <2>3. Height - n \in 0 .. Len(stack) /\ Height - n \in Nat
    BY <1>1 DEF Height
  <2>4. IsSeq(Under(n)) /\ Len(Under(n)) = Height - n
    BY <1>1, <2>3, CutTo DEF Under
  <2>5. IsSeq(Append(Under(n), x)) /\ Len(Append(Under(n), x)) = Height - n + 1
    BY <2>4, Appended
  <2>6. Len(Append(Under(n), x)) = Height + Gives(Instr) - Takes(prog, Instr)
    BY <1>1, <2>5
  <2>. QED
    BY <1>1, <2>1, <2>2, <2>5, <2>6, Goes
<1>. QED
  BY <1>3, <1>4, <1>5

\* An instruction that takes n operands and pushes nothing.
LEMMA Consumes ==
  ASSUME IInv, phase = "run", NEW n \in Nat, n <= Height, NEW a, Go(Under(n), a), calls' = calls,
         a \in Successors(prog, pc), Gives(Instr) = 0, Takes(prog, Instr) = n
  PROVE  Keeps
<1>1. Height \in Nat /\ IsSeq(stack)
  BY Here
<1>2. Height - n \in 0 .. Len(stack)
  BY <1>1 DEF Height
<1>3. IsSeq(Under(n)) /\ Len(Under(n)) = Height - n
  BY <1>1, <1>2, CutTo DEF Under
<1>4. Len(Under(n)) = Height + Gives(Instr) - Takes(prog, Instr)
  BY <1>1, <1>3
<1>. QED
  BY <1>3, <1>4, Goes

-----------------------------------------------------------------------------
(* One lemma per action.                                                    *)

LEMMA PushKeeps == ASSUME IInv, Push PROVE IInv'
<1>1. phase = "run" /\ Instr.op = "PUSH"
  BY DEF Push, Fetched
<1>2. Takes(prog, Instr) = 0 /\ Gives(Instr) = 1 /\ Successors(prog, pc) = {pc + 1}
  BY <1>1 DEF Takes, Gives, Stores, Branches2, Loads, Successors, Instr
<1>3. Keeps /\ vars' = vars
  BY <1>1, <1>2, Here, Yields DEF Push
<1>. QED
  BY <1>3, PlacesKept DEF Push, surviving, IInv, Keeps

LEMMA DupKeeps == ASSUME IInv, Dup PROVE IInv'
<1>1. phase = "run" /\ Instr.op = "DUP"
  BY DEF Dup, Fetched
<1>2. Takes(prog, Instr) = 1 /\ Gives(Instr) = 2 /\ Successors(prog, pc) = {pc + 1}
  BY <1>1 DEF Takes, Gives, Stores, Branches2, Loads, Successors, Instr
<1>3. Height # 0 /\ Height \in Nat
  BY <1>1, <1>2, Here
<1>4. Yield(0, {Top})
  BY <1>3 DEF Dup
<1>5. Keeps /\ vars' = vars
  BY <1>1, <1>2, <1>3, <1>4, Yields
<1>. QED
  BY <1>5, PlacesKept DEF Dup, surviving, IInv, Keeps

LEMMA PopKeeps == ASSUME IInv, Pop PROVE IInv'
<1>1. phase = "run" /\ Instr.op = "POP"
  BY DEF Pop, Fetched
<1>2. Takes(prog, Instr) = 1 /\ Gives(Instr) = 0 /\ Successors(prog, pc) = {pc + 1}
  BY <1>1 DEF Takes, Gives, Stores, Branches2, Loads, Successors, Instr
<1>3. ~(Height < 1) /\ 1 <= Height
  BY <1>1, <1>2, Here
<1>4. Go(Under(1), pc + 1) /\ UNCHANGED <<vars, calls, surviving>>
  BY <1>3 DEF Pop, Take
<1>5. Keeps
  BY <1>1, <1>2, <1>3, <1>4, Consumes
<1>. QED
  BY <1>4, <1>5, PlacesKept DEF surviving, IInv, Keeps

LEMMA BinaryKeeps == ASSUME IInv, BinaryOp PROVE IInv'
<1>1. phase = "run" /\ Instr.op = "BIN"
  BY DEF BinaryOp, Fetched
<1>2. Takes(prog, Instr) = 2 /\ Gives(Instr) = 1 /\ Successors(prog, pc) = {pc + 1}
  BY <1>1 DEF Takes, Gives, Stores, Branches2, Loads, Successors, Instr
<1>3. Keeps /\ vars' = vars
  BY <1>1, <1>2, Here, Yields DEF BinaryOp
<1>. QED
  BY <1>3, PlacesKept DEF BinaryOp, surviving, IInv, Keeps

LEMMA UnaryKeeps == ASSUME IInv, UnaryOp PROVE IInv'
<1>1. phase = "run" /\ Instr.op = "UN"
  BY DEF UnaryOp, Fetched
<1>2. Takes(prog, Instr) = 1 /\ Gives(Instr) = 1 /\ Successors(prog, pc) = {pc + 1}
  BY <1>1 DEF Takes, Gives, Stores, Branches2, Loads, Successors, Instr
<1>3. Keeps /\ vars' = vars
  BY <1>1, <1>2, Here, Yields DEF UnaryOp
<1>. QED
  BY <1>3, PlacesKept DEF UnaryOp, surviving, IInv, Keeps

\* The loads: what is loaded is there, because the check has looked at it.
LEMMA LoadVarKeeps == ASSUME IInv, LoadVar PROVE IInv'
<1>1. phase = "run" /\ Instr.op = "LOAD_VAR"
  BY DEF LoadVar, Fetched
<1>2. Takes(prog, Instr) = 0 /\ Gives(Instr) = 1 /\ Successors(prog, pc) = {pc + 1}
  BY <1>1 DEF Takes, Gives, Stores, Branches2, Loads, Successors, Instr
<1>3. Instr.n \in DOMAIN vars
  BY <1>1, Here DEF Sound, IInv, Places
<1>4. Keeps /\ vars' = vars
  BY <1>1, <1>2, <1>3, Here, Yields DEF LoadVar
<1>. QED
  BY <1>4, PlacesKept DEF LoadVar, surviving, IInv, Keeps

LEMMA LoadGlobalKeeps == ASSUME IInv, LoadGlobal PROVE IInv'
<1>1. phase = "run" /\ Instr.op = "LOAD_GLOBAL"
  BY DEF LoadGlobal, Fetched
<1>2. Takes(prog, Instr) = 0 /\ Gives(Instr) = 1 /\ Successors(prog, pc) = {pc + 1}
  BY <1>1 DEF Takes, Gives, Stores, Branches2, Loads, Successors, Instr
<1>3. Instr.n \in DOMAIN globals
  BY <1>1, Here DEF Sound, IInv, Places
<1>4. Keeps /\ vars' = vars
  BY <1>1, <1>2, <1>3, Here, Yields DEF LoadGlobal
<1>. QED
  BY <1>4, PlacesKept DEF LoadGlobal, surviving, IInv, Keeps

LEMMA LoadFieldKeeps == ASSUME IInv, LoadField PROVE IInv'
<1>1. phase = "run" /\ Instr.op = "LOAD_FB_FIELD"
  BY DEF LoadField, Fetched
<1>2. Takes(prog, Instr) = 0 /\ Gives(Instr) = 1 /\ Successors(prog, pc) = {pc + 1}
  BY <1>1 DEF Takes, Gives, Stores, Branches2, Loads, Successors, Instr
<1>3. Instr.m \in DOMAIN blocks
  BY <1>1, Here DEF Sound, IInv, Places
<1>4. Keeps /\ vars' = vars
  BY <1>1, <1>2, <1>3, Here, Yields DEF LoadField
<1>. QED
  BY <1>4, PlacesKept DEF LoadField, surviving, IInv, Keeps

\* In an array the slot that the index names is one of the array's.
LEMMA SlotIsThere ==
  ASSUME IInv, phase = "run", Instr.op \in {"LOAD_ARRAY", "STORE_ARRAY"}, NEW x,
         Offsets(x) # {}
  PROVE  Slot(x) \in DOMAIN vars
<1>1. Instr.n .. Instr.n + Instr.m - 1 \subseteq DOMAIN vars
  BY Here DEF Sound, IInv, Places
<1>2. PICK j : j = (CHOOSE o \in Offsets(x) : TRUE) /\ j \in Offsets(x)
  OBVIOUS
<1>3. Instr.n \in Int /\ Instr.m \in Int
  <2>1. Shaped(prog) /\ pc \in DOMAIN prog.code
    BY Here DEF Verified
  <2>2. prog.code \in Seq([op : STRING, s : STRING, n : Int, m : Int, k : Int])
    BY <2>1 DEF Shaped
  <2>3. prog.code[pc] \in [op : STRING, s : STRING, n : Int, m : Int, k : Int]
    BY <2>1, <2>2, ElementOfSeq, LenProperties
  <2>. QED
    BY <2>3 DEF Instr
<1>. DEFINE n == Instr.n
            m == Instr.m
<1>4. j \in 0 .. m - 1
  BY <1>2 DEF Offsets
<1>5. n \in Int /\ m \in Int
  BY <1>3
<1>. HIDE DEF n, m
<1>6. n + j \in n .. n + m - 1
  BY <1>4, <1>5
<1>7. n + j \in DOMAIN vars
  BY <1>1, <1>6, Zenon DEF n, m
<1>. QED
  BY <1>2, <1>7, Zenon DEF Slot, n

LEMMA LoadArrayKeeps == ASSUME IInv, LoadArray PROVE IInv'
<1>1. phase = "run" /\ Instr.op = "LOAD_ARRAY"
  BY DEF LoadArray, Fetched
<1>2. Takes(prog, Instr) = 1 /\ Gives(Instr) = 1 /\ Successors(prog, pc) = {pc + 1}
  BY <1>1 DEF Takes, Gives, Stores, Branches2, Loads, Successors, Instr
<1>3. IndexError(Top) \in {"data", "range", ""}
  BY <1>1, SlotIsThere DEF IndexError
<1>4. Keeps /\ vars' = vars
  <2>1. CASE IndexError(Top) # "" /\ Height > 0
    BY <1>3, <2>1, Stops DEF LoadArray, Strays
  <2>2. CASE ~(IndexError(Top) # "" /\ Height > 0)
    BY <1>1, <1>2, <2>2, Here, Yields DEF LoadArray
  <2>. QED
    BY <2>1, <2>2
<1>. QED
  BY <1>4, PlacesKept DEF LoadArray, surviving, IInv, Keeps

\* The stores.
LEMMA StoreVarKeeps == ASSUME IInv, StoreVar PROVE IInv'
<1>1. phase = "run" /\ Instr.op = "STORE_VAR"
  BY DEF StoreVar, Fetched
<1>2. Takes(prog, Instr) = 1 /\ Gives(Instr) = 0 /\ Successors(prog, pc) = {pc + 1}
  BY <1>1 DEF Takes, Gives, Stores, Branches2, Loads, Successors, Instr
<1>3. ~(Height < 1) /\ 1 <= Height /\ Instr.n \in DOMAIN vars
  BY <1>1, <1>2, Here DEF Sound, IInv, Places
<1>4. Stored(Instr.n, Top) /\ Go(Under(1), pc + 1) /\ UNCHANGED <<calls, surviving>>
  BY <1>3 DEF StoreVar, Take
<1>5. Keeps
  BY <1>1, <1>2, <1>3, <1>4, Consumes
<1>6. DOMAIN vars' = DOMAIN vars
  BY <1>4 DEF Stored
<1>. QED
  BY <1>4, <1>5, <1>6, PlacesKept DEF surviving, IInv, Keeps

LEMMA StoreGlobalKeeps == ASSUME IInv, StoreGlobal PROVE IInv'
<1>1. phase = "run" /\ Instr.op = "STORE_GLOBAL"
  BY DEF StoreGlobal, Fetched
<1>2. Takes(prog, Instr) = 1 /\ Gives(Instr) = 0 /\ Successors(prog, pc) = {pc + 1}
  BY <1>1 DEF Takes, Gives, Stores, Branches2, Loads, Successors, Instr
<1>3. ~(Height < 1) /\ 1 <= Height /\ Instr.n \in DOMAIN globals
  BY <1>1, <1>2, Here DEF Sound, IInv, Places
<1>4. /\ globals' = [globals EXCEPT ![Instr.n] = Converted(Top, Globals[Instr.n])]
      /\ Go(Under(1), pc + 1) /\ UNCHANGED <<vars, calls, blocks>>
  BY <1>3 DEF StoreGlobal, Take
<1>5. Keeps
  BY <1>1, <1>2, <1>3, <1>4, Consumes
<1>6. DOMAIN globals' = DOMAIN globals
  BY <1>4
<1>. QED
  BY <1>4, <1>5, <1>6, PlacesKept DEF IInv, Keeps

LEMMA StoreArrayKeeps == ASSUME IInv, StoreArray PROVE IInv'
<1>1. phase = "run" /\ Instr.op = "STORE_ARRAY"
  BY DEF StoreArray, Fetched
<1>2. Takes(prog, Instr) = 2 /\ Gives(Instr) = 0 /\ Successors(prog, pc) = {pc + 1}
  BY <1>1 DEF Takes, Gives, Stores, Branches2, Loads, Successors, Instr
<1>3. ~(Height < 2) /\ 2 <= Height
  BY <1>1, <1>2, Here
<1>4. CASE IndexError(Top) # ""
  <2>1. IndexError(Top) \in {"data", "range"}
    BY <1>1, <1>4, SlotIsThere DEF IndexError
  <2>2. Stop(IndexError(Top)) /\ UNCHANGED <<vars, surviving>>
    BY <1>3, <1>4 DEF StoreArray, Take
  <2>3. Keeps
    BY <2>1, <2>2, Stops DEF Strays
  <2>. QED
    BY <2>2, <2>3, PlacesKept DEF surviving, IInv, Keeps
<1>5. CASE IndexError(Top) = ""
  <2>1. Stored(Slot(Top), stack[Height-1]) /\ Go(Under(2), pc + 1) /\ UNCHANGED <<calls, surviving>>
    BY <1>3, <1>5 DEF StoreArray, Take
  <2>2. Keeps
    BY <1>1, <1>2, <1>3, <2>1, Consumes
  <2>3. DOMAIN vars' = DOMAIN vars
    BY <2>1 DEF Stored
  <2>. QED
    BY <2>1, <2>2, <2>3, PlacesKept DEF surviving, IInv, Keeps
<1>. QED
  BY <1>4, <1>5

\* The jumps.
LEMMA JumpKeeps == ASSUME IInv, Jump PROVE IInv'
<1>1. phase = "run" /\ Instr.op = "JMP"
  BY DEF Jump, Fetched
<1>2. Takes(prog, Instr) = 0 /\ Gives(Instr) = 0 /\ Successors(prog, pc) = {Instr.n}
  BY <1>1 DEF Takes, Gives, Stores, Branches2, Loads, Successors, Instr
<1>3. Instr.n \in DOMAIN prog.code
  BY <1>1, <1>2, Here, EnoughOperands DEF VerifiedAt
<1>4. Go(stack, Instr.n) /\ UNCHANGED <<calls, vars, surviving>>
  BY <1>3 DEF Jump
<1>5. IsSeq(stack) /\ Len(stack) = Height + Gives(Instr) - Takes(prog, Instr)
  BY <1>1, <1>2, Here DEF Height
<1>6. Keeps
  BY <1>1, <1>2, <1>4, <1>5, Goes
<1>. QED
  BY <1>4, <1>6, PlacesKept DEF surviving, IInv, Keeps

LEMMA JumpIfKeeps ==
  ASSUME IInv, NEW op \in Branches2, NEW wanted, JumpIf(op, wanted)
  PROVE  IInv'
<1>1. phase = "run" /\ Instr.op \in Branches2
  BY DEF JumpIf, Fetched
<1>2. Takes(prog, Instr) = 1 /\ Gives(Instr) = 0 /\ Successors(prog, pc) = {pc + 1, Instr.n}
  BY <1>1 DEF Takes, Gives, Stores, Branches2, Loads, Successors, Instr
<1>3. Instr.n \in DOMAIN prog.code
  BY <1>1, <1>2, Here, EnoughOperands DEF VerifiedAt
<1>4. ~(Height < 1) /\ 1 <= Height
  BY <1>1, <1>2, Here
<1>5. PICK truth \in Truth(Top) :
        /\ IF truth # wanted THEN Go(Under(1), pc + 1) /\ UNCHANGED <<locals, lbase, calls>>
           ELSE IF Instr.n \in DOMAIN prog.code
                THEN Go(Under(1), Instr.n) /\ UNCHANGED <<locals, lbase, calls>>
           ELSE Stop("jump")
        /\ UNCHANGED <<vars, surviving>>
  BY <1>4 DEF JumpIf, Take
<1>6. CASE truth # wanted
  <2>1. Go(Under(1), pc + 1) /\ calls' = calls
    BY <1>5, <1>6
  <2>2. Keeps
    BY <1>1, <1>2, <1>4, <2>1, Consumes
  <2>. QED
    BY <1>5, <2>2, PlacesKept DEF surviving, IInv, Keeps
<1>7. CASE truth = wanted
  <2>1. Go(Under(1), Instr.n) /\ calls' = calls
    BY <1>3, <1>5, <1>7
  <2>2. Keeps
    BY <1>1, <1>2, <1>4, <2>1, Consumes
  <2>. QED
    BY <1>5, <2>2, PlacesKept DEF surviving, IInv, Keeps
<1>. QED
  BY <1>6, <1>7

\* The builtins.
LEMMA CallFunctionKeeps == ASSUME IInv, CallFunction PROVE IInv'
<1>1. phase = "run" /\ Instr.op = "BUILTIN"
  BY DEF CallFunction, Fetched
<1>2. Takes(prog, Instr) = ArgCount(Instr.s) /\ Gives(Instr) = 1 /\ Successors(prog, pc) = {pc + 1}
  BY <1>1 DEF Takes, Gives, Stores, Branches2, Loads, Successors, Instr
<1>3. ArgCount(Instr.s) \in Nat /\ ArgCount(Instr.s) <= Height
  BY <1>1, <1>2, Here
<1>. DEFINE n == ArgCount(Instr.s)
            results == Computed(Instr.s, Arguments(Instr.s, Operands(n)))
<1>4. Yield(n, results) /\ UNCHANGED surviving
  BY DEF CallFunction
<1>. HIDE DEF results
<1>5. Keeps /\ vars' = vars
  <2>1. Gives(Instr) - Takes(prog, Instr) = 1 - n
    BY <1>2
  <2>. QED
    BY <1>1, <1>2, <1>3, <1>4, <2>1, Yields
<1>. QED
  BY <1>4, <1>5, PlacesKept DEF surviving, IInv, Keeps

LEMMA CallBlockKeeps == ASSUME IInv, CallBlock PROVE IInv'
<1>1. phase = "run" /\ Instr.op = "BUILTIN" /\ Instr.s \in Blocks
  BY DEF CallBlock, Fetched
<1>2. Takes(prog, Instr) = ArgCount(Instr.s) /\ Gives(Instr) = 1 /\ Successors(prog, pc) = {pc + 1}
  BY <1>1 DEF Takes, Gives, Stores, Branches2, Loads, Successors, Instr
<1>3. /\ ArgCount(Instr.s) \in Nat /\ ArgCount(Instr.s) <= Height /\ Instr.m \in DOMAIN blocks
      /\ Height \in Nat /\ IsSeq(stack) /\ Takes(prog, Instr) \in Nat
  BY <1>1, <1>2, Here DEF Sound, IInv, Places
<1>. DEFINE n == ArgCount(Instr.s)
<1>4. ~(Height < n)
  BY <1>3
<1>5. PICK s \in Called(Instr.s, blocks[Instr.m], Arguments(Instr.s, Operands(n)), now, Cycle) :
        /\ blocks' = [blocks EXCEPT ![Instr.m] = s]
        /\ Go(Append(Under(n), Result(Instr.s, s)), pc + 1)
        /\ UNCHANGED <<vars, calls, globals>>
  BY <1>3, <1>4 DEF CallBlock, Take
<1>. HIDE DEF n
<1>6. n \in Nat /\ n <= Height /\ Height - n \in 0 .. Len(stack)
  BY <1>3 DEF n, Height
<1>7. IsSeq(Under(n)) /\ Len(Under(n)) = Height - n
  BY <1>3, <1>6, CutTo DEF Under
<1>. DEFINE st == Append(Under(n), Result(Instr.s, s))
<1>8. IsSeq(st) /\ Len(st) = Height - n + 1
  BY <1>7, Appended
<1>. HIDE DEF st
<1>9. Len(st) = Height + Gives(Instr) - Takes(prog, Instr)
  BY <1>2, <1>3, <1>6, <1>8 DEF n
<1>10. Keeps
  BY <1>1, <1>2, <1>5, <1>8, <1>9, Goes DEF st
<1>11. DOMAIN blocks' = DOMAIN blocks
  BY <1>5
<1>. QED
  BY <1>5, <1>10, <1>11, PlacesKept DEF IInv, Keeps

\* Calls and returns.
LEMMA CallKeeps == ASSUME IInv, Call PROVE IInv'
<1>1. phase = "run" /\ Instr.op = "CALL" /\ UNCHANGED <<vars, surviving>>
  BY DEF Call, Fetched
<1>2. Verified(prog) /\ Fits(prog, pc, stack, calls) /\ Instr.n \in DOMAIN prog.funs
  BY <1>1, Here DEF Sound
<1>3. ~(Height < Callee.params)
  <2>1. Takes(prog, Instr) = Callee.params
    BY <1>1 DEF Takes, Stores, Branches2, Callee
  <2>. QED
    BY <1>1, <2>1, Here
<1>4. CallError \in {"depth", "locals", ""}
  BY <1>2, <1>3 DEF CallError
<1>5. CASE CallError # ""
  <2>1. Keeps
    BY <1>4, <1>5, Stops DEF Call, Strays
  <2>. QED
    BY <1>1, <2>1, PlacesKept DEF surviving, IInv, Keeps
<1>6. CASE CallError = ""
  <2>. DEFINE c == [ret |-> pc, base |-> FrameBase, params |-> Callee.params, f |-> Instr.n,
                    inst |-> Instr.m, lbase |-> lbase]
  <2>1. calls' = Append(calls, c) /\ Go(stack, Callee.addr)
    BY <1>6 DEF Call
  <2>2. /\ c.ret = pc /\ c.f = prog.code[pc].n /\ c.params = prog.funs[c.f].params
        /\ c.base = Len(stack) - c.params
    BY DEF Callee, FrameBase, Height, Instr
  <2>. HIDE DEF c
  <2>3. Fits(prog, prog.funs[c.f].addr, stack, Append(calls, c))
    BY <1>1, <1>2, <2>2, FitsCall DEF Instr
  <2>4. prog.funs[c.f].addr = Callee.addr
    BY <2>2 DEF Callee, Instr
  <2>5. Fits(prog, Callee.addr, stack, Append(calls, c))
    BY <2>3, <2>4
  <2>6. /\ prog' = prog /\ pc' = Callee.addr /\ stack' = stack /\ calls' = Append(calls, c)
        /\ kept' = kept /\ err' = err
    BY <2>1 DEF Go, outside
  <2>7. Fits(prog', pc', stack', calls')
    BY <2>5, <2>6
  <2>8. Keeps
    BY <2>6, <2>7 DEF Keeps, Running, NeverStrays, IInv
  <2>. QED
    BY <1>1, <2>8, PlacesKept DEF surviving, IInv, Keeps
<1>. QED
  BY <1>5, <1>6

LEMMA ReturnKeeps == ASSUME IInv, Return PROVE IInv'
<1>1. phase = "run" /\ Instr.op = "RETURN" /\ UNCHANGED vars
  BY DEF Return, Fetched
<1>2. /\ Verified(prog) /\ Fits(prog, pc, stack, calls) /\ prog.owner[pc] # 0
      /\ IsSeq(stack) /\ Height \in Nat
  BY <1>1, Here DEF Sound
<1>3. calls # <<>> /\ IsSeq(calls) /\ Len(calls) \in Nat /\ Len(calls) # 0
  BY <1>2, BaseIsNat, EmptySeq DEF Fits, FunOf
<1>4. Takes(prog, Instr) = 1
  BY <1>1 DEF Takes, Stores, Branches2
<1>5. stack # <<>>
  BY <1>1, <1>2, <1>4, Here, EmptySequence DEF Height
<1>6. UNCHANGED <<blocks, globals>>
  BY <1>3 DEF Return
<1>7. CASE Caller.base >= StackLimit
  <2>1. Keeps
    BY <1>3, <1>7, Stops DEF Return, Strays
  <2>. QED
    BY <1>1, <1>6, <2>1, PlacesKept DEF IInv, Keeps
<1>8. CASE ~(Caller.base >= StackLimit)
  <2>. DEFINE st == SubSeq(stack, 1, Caller.base) \o <<Top>>
  <2>1. Go(st, Caller.ret + 1) /\ calls' = SubSeq(calls, 1, Len(calls) - 1)
    BY <1>3, <1>5, <1>8 DEF Return
  <2>2. Caller.base \in 0 .. Len(stack)
    <3>1. Caller.base \in Nat /\ Caller.base = BaseOf(calls, Len(calls))
      BY <1>2, <1>3 DEF Fits, FrameFits, Caller, BaseOf
    <3>2. Len(stack) = BaseOf(calls, Len(calls)) + prog.heights[pc] /\ prog.heights[pc] \in Nat
      BY <1>2, ShapeFacts DEF Fits
    <3>. QED
      BY <3>1, <3>2
  <2>3. IsSeq(st) /\ Len(st) = calls[Len(calls)].base + 1
    BY <1>2, <2>2, CutAndPushed DEF Caller
  <2>. HIDE DEF st
  <2>4. Fits(prog, calls[Len(calls)].ret + 1, st, SubSeq(calls, 1, Len(calls) - 1))
    BY <1>2, <1>3, <2>3, FitsReturn
  <2>5. /\ prog' = prog /\ pc' = calls[Len(calls)].ret + 1 /\ stack' = st
        /\ calls' = SubSeq(calls, 1, Len(calls) - 1) /\ kept' = kept /\ err' = err
    BY <2>1 DEF Go, outside, Caller
  <2>6. Fits(prog', pc', stack', calls')
    BY <2>4, <2>5
  <2>7. Keeps
    BY <2>5, <2>6 DEF Keeps, Running, NeverStrays, IInv
  <2>. QED
    BY <1>1, <1>6, <2>7, PlacesKept DEF IInv, Keeps
<1>. QED
  BY <1>7, <1>8

\* Inside a function: the parameters lie below its operands.
LEMMA ParametersAreThere ==
  ASSUME IInv, phase = "run", Instr.op \in {"LOAD_PARAM", "STORE_PARAM"}
  PROVE  /\ FrameError = "" /\ Caller.base \in Nat /\ Instr.n \in Nat /\ Instr.n # 0
         /\ Caller.base + Instr.n + Takes(prog, Instr) <= Height
<1>1. /\ Verified(prog) /\ Fits(prog, pc, stack, calls) /\ prog.owner[pc] # 0
      /\ Instr.n \in 1 .. prog.funs[prog.owner[pc]].params
      /\ Instr.n + Takes(prog, Instr) <= prog.heights[pc]
      /\ Takes(prog, Instr) \in Nat
  BY Here DEF Sound
<1>2. calls # <<>> /\ IsSeq(calls) /\ Len(calls) \in Nat /\ Len(calls) # 0
  BY <1>1, BaseIsNat, EmptySeq DEF Fits, FunOf
<1>3. /\ Caller.base \in Nat /\ Caller.base = BaseOf(calls, Len(calls))
      /\ Caller.f = prog.owner[pc] /\ Caller.params = prog.funs[Caller.f].params
      /\ Caller.f \in DOMAIN prog.funs
  BY <1>1, <1>2 DEF Fits, FrameFits, Caller, BaseOf, FunOf
<1>4. Height = Caller.base + prog.heights[pc] /\ prog.heights[pc] \in Nat
  BY <1>1, <1>3, ShapeFacts DEF Fits, Height
<1>5. Caller.params \in Nat /\ Instr.n \in 1 .. Caller.params
  BY <1>1, <1>3, ShapeFacts
<1>. DEFINE b == Caller.base
            n == Instr.n
            k == Takes(prog, Instr)
            h == prog.heights[pc]
            q == Caller.params
            top == Height
<1>6. b \in Nat /\ n \in 1 .. q /\ q \in Nat /\ k \in Nat /\ h \in Nat /\ n + k <= h /\ top = b + h
  BY <1>1, <1>3, <1>4, <1>5, Zenon
<1>. HIDE DEF b, n, k, h, q, top
<1>7. n \in Nat /\ n # 0 /\ b + n + k <= top /\ ~(n > q) /\ ~(b + n > top)
  BY <1>6
<1>8. ~(Instr.n > Caller.params) /\ ~(Caller.base + Instr.n > Height)
  BY <1>7, Zenon DEF n, q, b, top
<1>9. FrameError = ""
  BY <1>2, <1>8, Zenon DEF FrameError
<1>. QED
  BY <1>6, <1>7, <1>9, Zenon DEF n, k, b, top

LEMMA LoadParamKeeps == ASSUME IInv, LoadParam PROVE IInv'
<1>1. phase = "run" /\ Instr.op = "LOAD_PARAM"
  BY DEF LoadParam, Fetched
<1>2. Takes(prog, Instr) = 0 /\ Gives(Instr) = 1 /\ Successors(prog, pc) = {pc + 1}
  BY <1>1 DEF Takes, Gives, Stores, Branches2, Loads, Successors, Instr
<1>3. FrameError = ""
  BY <1>1, ParametersAreThere
<1>4. Keeps /\ vars' = vars
  <2>1. Yield(0, {stack[Caller.base + Instr.n]})
    BY <1>3 DEF LoadParam
  <2>2. 0 \in Nat /\ 0 <= Height /\ Gives(Instr) - Takes(prog, Instr) = 1 - 0
    BY <1>1, <1>2, Here
  <2>. QED
    BY <1>1, <1>2, <2>1, <2>2, Yields
<1>. QED
  BY <1>4, PlacesKept DEF LoadParam, surviving, IInv, Keeps

LEMMA StoreParamKeeps == ASSUME IInv, StoreParam PROVE IInv'
<1>1. phase = "run" /\ Instr.op = "STORE_PARAM"
  BY DEF StoreParam, Fetched
<1>2. Takes(prog, Instr) = 1 /\ Gives(Instr) = 0 /\ Successors(prog, pc) = {pc + 1}
  BY <1>1 DEF Takes, Gives, Stores, Branches2, Loads, Successors, Instr
<1>3. FrameError = ""
  BY <1>1, ParametersAreThere
<1>4. ~(Height < 1) /\ 1 <= Height
  BY <1>1, <1>2, Here
<1>. DEFINE place == Caller.base + Instr.n
            st == [Under(1) EXCEPT ![place] = Top]
<1>5. Go(st, pc + 1) /\ UNCHANGED <<vars, calls, surviving>>
  BY <1>3, <1>4 DEF StoreParam, Take
<1>6. Height \in Nat /\ IsSeq(stack) /\ Height = Len(stack)
  BY <1>1, Here DEF Height
<1>7. Height - 1 \in 0 .. Len(stack)
  BY <1>4, <1>6
<1>8. IsSeq(Under(1)) /\ Len(Under(1)) = Height - 1
  BY <1>6, <1>7, CutTo DEF Under
<1>9. Caller.base \in Nat /\ Instr.n \in Nat /\ Instr.n # 0
      /\ Caller.base + Instr.n + 1 <= Height
  BY <1>1, <1>2, ParametersAreThere
<1>10. place \in 1 .. Len(Under(1))
  BY <1>6, <1>8, <1>9
<1>11. IsSeq(st) /\ Len(st) = Height - 1
  BY <1>8, <1>10, Replaced
<1>. HIDE DEF st
<1>12. Len(st) = Height + Gives(Instr) - Takes(prog, Instr)
  BY <1>2, <1>6, <1>11
<1>13. Keeps
  BY <1>1, <1>2, <1>5, <1>11, <1>12, Goes
<1>. QED
  BY <1>5, <1>13, PlacesKept DEF surviving, IInv, Keeps

LEMMA InsideAFunction ==
  ASSUME IInv, phase = "run", Instr.op \in {"LOAD_LOCAL", "STORE_LOCAL"}
  PROVE  LocalError \in {"locals", ""}
<1>1. Fits(prog, pc, stack, calls) /\ prog.owner[pc] # 0
  BY Here DEF Sound
<1>2. calls # <<>>
  BY <1>1, EmptySequence DEF Fits, FunOf
<1>. QED
  BY <1>2 DEF LocalError

LEMMA LoadLocalKeeps == ASSUME IInv, LoadLocal PROVE IInv'
<1>1. phase = "run" /\ Instr.op = "LOAD_LOCAL"
  BY DEF LoadLocal, Fetched
<1>2. Takes(prog, Instr) = 0 /\ Gives(Instr) = 1 /\ Successors(prog, pc) = {pc + 1}
  BY <1>1 DEF Takes, Gives, Stores, Branches2, Loads, Successors, Instr
<1>3. Keeps /\ vars' = vars
  <2>1. CASE LocalError = ""
    <3>1. Yield(0, {locals[LocalPlace]})
      BY <2>1 DEF LoadLocal
    <3>2. 0 \in Nat /\ 0 <= Height /\ Gives(Instr) - Takes(prog, Instr) = 1 - 0
      BY <1>1, <1>2, Here
    <3>. QED
      BY <1>1, <1>2, <3>1, <3>2, Yields
  <2>2. CASE LocalError # ""
    BY <1>1, <2>2, InsideAFunction, Stops DEF LoadLocal, Strays
  <2>. QED
    BY <2>1, <2>2
<1>. QED
  BY <1>3, PlacesKept DEF LoadLocal, surviving, IInv, Keeps

LEMMA StoreLocalKeeps == ASSUME IInv, StoreLocal PROVE IInv'
<1>1. phase = "run" /\ Instr.op = "STORE_LOCAL"
  BY DEF StoreLocal, Fetched
<1>2. Takes(prog, Instr) = 1 /\ Gives(Instr) = 0 /\ Successors(prog, pc) = {pc + 1}
  BY <1>1 DEF Takes, Gives, Stores, Branches2, Loads, Successors, Instr
<1>3. ~(Height < 1) /\ 1 <= Height
  BY <1>1, <1>2, Here
<1>4. CASE LocalError = ""
  <2>1. Go(Under(1), pc + 1) /\ UNCHANGED <<vars, calls, surviving>>
    BY <1>3, <1>4 DEF StoreLocal, Take
  <2>2. Keeps
    BY <1>1, <1>2, <1>3, <2>1, Consumes
  <2>. QED
    BY <2>1, <2>2, PlacesKept DEF surviving, IInv, Keeps
<1>5. CASE LocalError # ""
  <2>1. Stop(LocalError) /\ UNCHANGED <<vars, surviving>>
    BY <1>5 DEF StoreLocal
  <2>2. Keeps
    BY <1>1, <1>5, <2>1, InsideAFunction, Stops DEF Strays
  <2>. QED
    BY <2>1, <2>2, PlacesKept DEF surviving, IInv, Keeps
<1>. QED
  BY <1>4, <1>5

\* The scan around the instructions.
LEMMA StartScanKeeps == ASSUME IInv, StartScan PROVE IInv'
<1>1. /\ prog' = prog /\ vars' = kept' /\ stack' = <<>> /\ pc' = 1 /\ calls' = <<>> /\ err' = ""
      /\ UNCHANGED <<globals, blocks>>
  BY DEF StartScan, surviving
<1>2. DOMAIN kept' = DOMAIN kept
  BY DEF StartScan
<1>3. Verified(prog) /\ DOMAIN kept = DOMAIN prog.types /\ DOMAIN vars = DOMAIN prog.types
  BY DEF IInv, Places
<1>4. Places'
  BY <1>1, <1>2, <1>3, PlacesKept DEF IInv
<1>5. Fits(prog, 1, <<>>, <<>>)
  <2>1. 1 \in DOMAIN prog.code /\ prog.heights[1] = 0 /\ prog.owner[1] = 0
    BY <1>3, ShapeFacts DEF Verified
  <2>. QED
    BY <2>1, EmptySequence DEF Fits, FunOf, BaseOf
<1>6. Fits(prog', pc', stack', calls')
  BY <1>1, <1>5
<1>7. Running' /\ NeverStrays'
  BY <1>1, <1>6 DEF Running, NeverStrays, Strays
<1>. QED
  BY <1>4, <1>7 DEF IInv

LEMMA HaltKeeps == ASSUME IInv, Halt PROVE IInv'
<1>1. UNCHANGED <<prog, kept, vars, globals, blocks, err>> /\ phase' = "done"
  BY DEF Halt, machine, surviving, outside
<1>. QED
  BY <1>1, PlacesKept DEF IInv, Running, NeverStrays

LEMMA TooLongKeeps == ASSUME IInv, TooLong PROVE IInv'
<1>1. Keeps /\ UNCHANGED <<vars, surviving>>
  BY Stops DEF TooLong, Strays
<1>. QED
  BY <1>1, PlacesKept DEF IInv, Keeps, surviving

LEMMA EndScanKeeps == ASSUME IInv, EndScan PROVE IInv'
<1>1. UNCHANGED <<prog, vars, globals, blocks, err>> /\ phase' = "idle"
  BY DEF EndScan, machine, surviving
<1>2. DOMAIN kept' = DOMAIN kept
  BY DEF EndScan, IInv, Places
<1>. QED
  BY <1>1, <1>2, PlacesKept DEF IInv, Running, NeverStrays

LEMMA InitEstablishes == ASSUME AllVerified, Init PROVE IInv
<1>1. Verified(prog)
  BY DEF Init, AllVerified
<1>2. DOMAIN prog.init = DOMAIN prog.types
  BY <1>1 DEF Verified, Shaped
<1>3. DOMAIN globals = DOMAIN Globals /\ DOMAIN blocks = DOMAIN prog.blocks
  BY DEF Init
<1>4. Places
  BY <1>1, <1>2, <1>3 DEF Init, Places
<1>. QED
  BY <1>4 DEF Init, IInv, Running, NeverStrays, Strays

LEMMA NextKeeps == ASSUME IInv, Next PROVE IInv'
<1>1. CASE Execute
  <2>1. CASE Push \/ Dup \/ Pop \/ BinaryOp \/ UnaryOp
    BY <2>1, PushKeeps, DupKeeps, PopKeeps, BinaryKeeps, UnaryKeeps
  <2>2. CASE LoadVar \/ StoreVar \/ LoadGlobal \/ StoreGlobal \/ LoadArray \/ StoreArray
    BY <2>2, LoadVarKeeps, StoreVarKeeps, LoadGlobalKeeps, StoreGlobalKeeps,
       LoadArrayKeeps, StoreArrayKeeps
  <2>3. CASE Jump \/ JumpIfFalse \/ JumpIfTrue
    <3>1. CASE Jump
      BY <3>1, JumpKeeps
    <3>2. CASE JumpIfFalse
      BY <3>2, JumpIfKeeps DEF JumpIfFalse, Branches2
    <3>3. CASE JumpIfTrue
      BY <3>3, JumpIfKeeps DEF JumpIfTrue, Branches2
    <3>. QED
      BY <2>3, <3>1, <3>2, <3>3
  <2>4. CASE CallFunction \/ CallBlock \/ LoadField
    BY <2>4, CallFunctionKeeps, CallBlockKeeps, LoadFieldKeeps
  <2>5. CASE Call \/ Return \/ LoadParam \/ StoreParam \/ LoadLocal \/ StoreLocal
    BY <2>5, CallKeeps, ReturnKeeps, LoadParamKeeps, StoreParamKeeps, LoadLocalKeeps,
       StoreLocalKeeps
  <2>. QED
    BY <1>1, <2>1, <2>2, <2>3, <2>4, <2>5 DEF Execute
<1>. QED
  BY <1>1, StartScanKeeps, HaltKeeps, TooLongKeeps, EndScanKeeps DEF Next

\* A program that the check of the code accepts never takes an operand, a
\* variable, a parameter, a local or a jump target that is not there, in any
\* scan, however its jumps fall and its calls nest: st_vm_step's checks for
\* them are never reached, and the accesses that have none are safe.
THEOREM VerifiedNeverStrays ==
  ASSUME AllVerified
  PROVE  Spec => []NeverStrays
<1>1. Init => IInv
  BY InitEstablishes
<1>2. IInv /\ [Next]_vmvars => IInv'
  <2>1. ASSUME IInv, Next PROVE IInv'
    BY <2>1, NextKeeps
  <2>2. ASSUME IInv, UNCHANGED vmvars PROVE IInv'
    <3>1. UNCHANGED <<prog, kept, vars, globals, blocks, err, phase, pc, stack, calls>>
      BY <2>2 DEF vmvars, machine, surviving, outside
    <3>2. Places'
      BY <2>2, <3>1, PlacesKept DEF IInv
    <3>3. Running' /\ NeverStrays'
      BY <2>2, <3>1 DEF IInv, Running, NeverStrays
    <3>. QED
      BY <3>2, <3>3 DEF IInv
  <2>. QED
    BY <2>1, <2>2
<1>3. IInv => NeverStrays
  BY DEF IInv
<1>. QED
  BY <1>1, <1>2, <1>3, PTL DEF Spec
=============================================================================
