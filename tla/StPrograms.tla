----------------------------- MODULE StPrograms -----------------------------
(***************************************************************************)
(* The ST programs of the PLC between upload, compilation and flash        *)
(* (src/src/st_logic_config.cpp and the handlers that call it): source     *)
(* texts in the pool, compiled code and its EXPORT registers, the shared   *)
(* GLOBAL_VAR block, and the files a reboot starts from:                   *)
(*   dat[p]  source and settings   (/logic_N.dat)                          *)
(*   gdat    the GLOBAL_VAR source (/logic_global.dat)                     *)
(*   bc[p]   a cache of the code   (/logic_N.bc)                           *)
(*                                                                         *)
(* A handler runs as the list `todo` of steps it has still to take, one    *)
(* per compilation and per file, so that the power can fail between any    *)
(* two of them and in the middle of a write.  Handlers run one at a time.  *)
(* The pool appears as StSourceStore describes it.                         *)
(***************************************************************************)
EXTENDS Integers, FiniteSets, SequencesExt

CONSTANTS
  Programs,       \* program slots, 0 .. ST_LOGIC_MAX_PROGRAMS - 1
  IrPoolSize,     \* IR_POOL_SIZE, 32 in the code
  Texts, NoText,  \* program sources
  Noise,          \* what the pool holds where nothing was written
  SizeOf,         \* bytes of a text
  PoolSize,       \* ST_LOGIC_POOL_SIZE
  Valid,          \* texts without a syntax error
  UsesOf, NoName, \* the global a text refers to
  IrNeed,         \* registers for a text's EXPORT variables
  NoFile, Torn,   \* a file that is absent, one whose write was cut off
  GTexts,         \* GLOBAL_VAR sources
  NoGlobals,      \* the empty one
  Broken,         \* the layout of one that does not compile
  LayoutOf,       \* the names a GLOBAL_VAR source declares, in order
  Intervals,      \* intervals a user sets
  MinInterval, DefaultInterval,
  Backups,        \* backup files for a restore: [g, t]
  MaxCalls,       \* bound: handler calls in one behaviour
  HeapFails,      \* whether a compilation may run out of memory
  PowerFails      \* whether the power may fail

NoCode == [text |-> NoText, idx |-> 0]
Codes == [text : Texts \cup {NoText}, idx : Nat]
Program == [text : Texts \cup {NoText, Noise}, size : Nat, compiled : BOOLEAN,
            code : Codes, on : BOOLEAN, ivl : Nat]
DatFile == [text : Texts \cup {NoText, Noise}, size : Nat, on : BOOLEAN, ivl : Nat]

\* The slots are 0 .. ST_LOGIC_MAX_PROGRAMS - 1.
ASSUME StAssumption ==
  /\ Programs # {} /\ IsFiniteSet(Programs)
  /\ Programs = 0 .. Cardinality(Programs) - 1
  /\ IrPoolSize \in Nat \ {0}
  /\ SizeOf \in [Texts -> Nat \ {0}]
  /\ IrNeed \in [Texts -> Nat]
  /\ PoolSize \in Nat /\ MaxCalls \in Nat
  /\ Valid \subseteq Texts
  /\ NoText \notin Texts /\ Noise \notin Texts /\ NoText # Noise
  /\ NoFile \notin DatFile /\ Torn \notin DatFile
  /\ LayoutOf[NoGlobals] = <<>> /\ Broken # <<>>
  /\ \A g \in GTexts : LayoutOf[g] # Broken => LayoutOf[g] \in Seq(Range(LayoutOf[g]))
  /\ Backups \subseteq [g : GTexts \cup {NoGlobals},
                        t : [Programs -> Texts \cup {NoText}]]
  /\ Intervals \subseteq Nat
  /\ MinInterval \in Nat /\ DefaultInterval \in Nat /\ DefaultInterval >= MinInterval

-----------------------------------------------------------------------------
(* Input registers 220-251, shared out to the EXPORT variables of the       *)
(* programs (src/src/ir_pool_manager.cpp).  An allocation is placed behind  *)
(* the highest register in use; what is freed leaves a hole.                *)

NoIr == [off |-> -1, n |-> 0]
IrRanges == {NoIr} \cup [off : 0 .. IrPoolSize - 1, n : 1 .. IrPoolSize]

IrEnd(r) == IF r = NoIr THEN 0 ELSE r.off + r.n

\* ir is a function from programs to ranges.
IrTop(ir) == Max({0} \cup {IrEnd(ir[p]) : p \in DOMAIN ir})
IrTotal(ir) == MapThenSumSet(LAMBDA p : ir[p].n, DOMAIN ir)

\* Unchanged when the request is refused.
IrAllocate(ir, p, n) ==
  IF n > 0 /\ n <= IrPoolSize /\ IrTop(ir) + n <= IrPoolSize
  THEN [ir EXCEPT ![p] = [off |-> IrTop(ir), n |-> n]]
  ELSE ir

IrFree(ir, p) == [ir EXCEPT ![p] = NoIr]

\* Everything is freed and handed out again in slot order; need[p] is 0 for a
\* program that is not compiled.
IrReallocateAll(need) ==
  LET upTo[i \in 0 .. Cardinality(Programs)] ==
        IF i = 0 THEN [p \in Programs |-> NoIr]
        ELSE IrAllocate(upTo[i - 1], i - 1, need[i - 1])
  IN upTo[Cardinality(Programs)]

VARIABLES
  prog,     \* program -> source, settings, flags and code
  ir,       \* program -> its EXPORT registers
  globals,  \* [src, layout]
  dat, gdat, bc,
  todo,     \* the steps the running handler has still to take
  calls     \* bound: calls made

flash == <<dat, gdat, bc>>
vars == <<prog, ir, globals, dat, gdat, bc, todo, calls>>

Blank == [text |-> NoText, size |-> 0, compiled |-> FALSE, code |-> NoCode,
          on |-> FALSE, ivl |-> DefaultInterval]

NoBlock == [src |-> NoGlobals, layout |-> <<>>]

Slots == [i \in 1 .. Cardinality(Programs) |-> i - 1]
Do(what, p) == [do |-> what, p |-> p, t |-> NoText]
Each(what) == [i \in 1 .. Len(Slots) |-> Do(what, Slots[i])]

\* st_logic_save_to_nvs, file by file.
SaveAll == <<Do("saveGlobals", 0)>> \o Each("save")

Idle == todo = <<>>

Init == /\ prog = [p \in Programs |-> Blank]
        /\ ir = [p \in Programs |-> NoIr]
        /\ globals = NoBlock
        /\ dat = [p \in Programs |-> NoFile]
        /\ gdat = NoGlobals
        /\ bc = [p \in Programs |-> NoFile]
        /\ todo = <<>>
        /\ calls = 0

-----------------------------------------------------------------------------
\* Pool and compiler.

Total(f) ==
  LET upTo[i \in 0 .. Cardinality(Programs)] ==
        IF i = 0 THEN 0 ELSE upTo[i - 1] + f[i - 1]
  IN upTo[Cardinality(Programs)]

PoolUsedBeside(p) ==
  Total([q \in Programs |-> IF q = p \/ prog[q].text = NoText THEN 0 ELSE prog[q].size])
Room(p, size) == PoolUsedBeside(p) + size <= PoolSize

\* st_logic_upload: whatever comes of it, the old text is gone.
Uploaded(p, t) ==
  IF Room(p, SizeOf[t])
  THEN [prog EXCEPT ![p].text = t, ![p].size = SizeOf[t], ![p].compiled = FALSE]
  ELSE [prog EXCEPT ![p].text = NoText, ![p].size = 0]

IndexOf(name, layout) ==
  IF name = NoName THEN 0 ELSE CHOOSE i \in DOMAIN layout : layout[i] = name
Compilable(t) == /\ t \in Valid
                 /\ UsesOf[t] = NoName \/ UsesOf[t] \in Range(globals.layout)
CodeFor(t) == [text |-> t, idx |-> IndexOf(UsesOf[t], globals.layout)]

Outcomes(p) == IF ~Compilable(prog[p].text) THEN {FALSE}
               ELSE IF HeapFails THEN BOOLEAN ELSE {TRUE}

\* A failed compilation has freed the old code and leaves compiled as it was.
CompileFailed(p) == /\ prog' = [prog EXCEPT ![p].code = NoCode]
                    /\ UNCHANGED ir

\* Mutated Compiled: the new code is bound to the first global.
CompiledToFirst(p) ==
  /\ prog' = [prog EXCEPT ![p].code = [text |-> prog[p].text, idx |-> 1],
                          ![p].compiled = TRUE]
  /\ ir' = IrAllocate(IrFree(ir, p), p, IrNeed[prog[p].text])

Compiled(p) ==
  /\ prog' = [prog EXCEPT ![p].code = CodeFor(prog[p].text), ![p].compiled = TRUE]
  /\ ir' = IrAllocate(IrFree(ir, p), p, IrNeed[prog[p].text])

\* Compile p; the handler goes on with `good` or with `bad`.
Compile(p, good, bad) ==
  \E ok \in Outcomes(p) :
    IF ok THEN Compiled(p) /\ todo' = <<Do("cache", p)>> \o good
          ELSE CompileFailed(p) /\ todo' = bad

-----------------------------------------------------------------------------
\* The handlers: what they do before their first compilation or file.

Call == /\ Idle /\ calls < MaxCalls
        /\ calls' = calls + 1

\* Mutated Upload: the program keeps its compiled flag.
UploadCompiled(p, t) ==
  /\ Call /\ SizeOf[t] <= PoolSize
  /\ prog' = [Uploaded(p, t) EXCEPT ![p].compiled = prog[p].compiled]
  /\ bc' = IF Room(p, SizeOf[t]) THEN [bc EXCEPT ![p] = NoFile] ELSE bc
  /\ todo' = IF Room(p, SizeOf[t]) THEN <<Do("compile", p)>> \o SaveAll ELSE <<>>
  /\ UNCHANGED <<ir, globals, dat, gdat>>

\* POST /api/logic/N/source and "set logic N upload".
Upload(p, t) ==
  /\ Call /\ SizeOf[t] <= PoolSize
  /\ prog' = Uploaded(p, t)
  /\ bc' = IF Room(p, SizeOf[t]) THEN [bc EXCEPT ![p] = NoFile] ELSE bc
  /\ todo' = IF Room(p, SizeOf[t]) THEN <<Do("compile", p)>> \o SaveAll ELSE <<>>
  /\ UNCHANGED <<ir, globals, dat, gdat>>

\* st_logic_delete clears the settings too.
Deleted == [Blank EXCEPT !.ivl = 0]

Delete(p) == /\ Call
             /\ prog' = [prog EXCEPT ![p] = Deleted]
             /\ ir' = IrFree(ir, p)
             /\ bc' = [bc EXCEPT ![p] = NoFile]
             /\ todo' = SaveAll
             /\ UNCHANGED <<globals, dat, gdat>>

SetEnabled(p, b) == /\ Call
                    /\ prog' = [prog EXCEPT ![p].on = b]
                    /\ todo' = SaveAll
                    /\ UNCHANGED <<ir, globals, flash>>

\* Through a Modbus control register nothing is saved.
ModbusEnable(p, b) == /\ Call
                      /\ prog[p].on # b
                      /\ prog' = [prog EXCEPT ![p].on = b]
                      /\ UNCHANGED <<ir, globals, flash, todo>>

SetInterval(p, i) == /\ Call
                     /\ i >= MinInterval
                     /\ prog' = [prog EXCEPT ![p].ivl = i]
                     /\ todo' = SaveAll
                     /\ UNCHANGED <<ir, globals, flash>>

AllIntervals(i) == [p \in Programs |-> [prog[p] EXCEPT !.ivl = i]]

\* "set logic interval": changed, then saved.
CliInterval(i) == /\ Call
                  /\ i >= MinInterval
                  /\ prog' = AllIntervals(i)
                  /\ todo' = SaveAll
                  /\ UNCHANGED <<ir, globals, flash>>

\* POST /api/logic/settings: saved, then changed.
RestInterval(i) == /\ Call
                   /\ i > 0
                   /\ todo' = SaveAll \o <<Do("interval", i)>>
                   /\ UNCHANGED <<prog, ir, globals, flash>>

\* Holding registers 236-237: changed and not saved.
ModbusInterval(i) == /\ Call
                     /\ i >= DefaultInterval
                     /\ prog' = AllIntervals(i)
                     /\ UNCHANGED <<ir, globals, flash, todo>>

\* "save" and the config handlers that save everything.
Save == /\ Call
        /\ todo' = SaveAll
        /\ UNCHANGED <<prog, ir, globals, flash>>

\* Mutated Recompiles: nothing is bound again.
RecompilesNone == <<>>

\* st_logic_globals_compile's cascade over the programs.
Recompiles == Each("rebind")

\* The layout is committed before any program is compiled against it.
CommitGlobals(g) ==
  globals' = [src |-> g, layout |-> IF LayoutOf[g] = Broken THEN globals.layout
                                    ELSE LayoutOf[g]]

\* The steps that follow; an empty block ends early, before the cascade.
AfterGlobals(g) == IF g = NoGlobals \/ LayoutOf[g] = Broken THEN <<>> ELSE Recompiles

\* POST /api/logic/globals/source: saved when the block compiles.
PostGlobals(g) ==
  /\ Call
  /\ CommitGlobals(g)
  /\ todo' = IF LayoutOf[g] = Broken THEN <<>> ELSE AfterGlobals(g) \o SaveAll
  /\ UNCHANGED <<prog, ir, flash>>

\* Restoring a backup: globals first, then program by program, then one save.
Restore(b) ==
  /\ Call
  /\ IF b.g = NoGlobals THEN UNCHANGED globals ELSE CommitGlobals(b.g)
  /\ todo' = (IF b.g = NoGlobals THEN <<>> ELSE AfterGlobals(b.g))
             \o [i \in 1 .. Len(Slots) |->
                   [do |-> "replace", p |-> Slots[i], t |-> b.t[Slots[i]]]]
             \o SaveAll
  /\ UNCHANGED <<prog, ir, flash>>

-----------------------------------------------------------------------------
\* The steps of a handler.

At(what) == todo # <<>> /\ Head(todo).do = what
This == Head(todo).p

CompileStep == /\ At("compile")
               /\ Compile(This, Tail(todo), <<>>)
               /\ UNCHANGED <<globals, flash, calls>>

\* Only a program whose code refers to a global is compiled again.
Rebinds(p) == /\ prog[p].compiled
              /\ prog[p].code # NoCode
              /\ UsesOf[prog[p].code.text] # NoName

RebindStep == /\ At("rebind")
              /\ IF Rebinds(This) THEN Compile(This, Tail(todo), Tail(todo))
                 ELSE todo' = Tail(todo) /\ UNCHANGED <<prog, ir>>
              /\ UNCHANGED <<globals, flash, calls>>

\* Delete, upload and settings of one program of a backup, whatever they return.
\* The settings of the backups are the defaults.
ReplaceStep ==
  /\ At("replace")
  /\ LET p == This
         t == Head(todo).t
     IN /\ prog' = IF t # NoText /\ Room(p, SizeOf[t])
                   THEN [prog EXCEPT ![p] = [Blank EXCEPT !.text = t, !.size = SizeOf[t]]]
                   ELSE [prog EXCEPT ![p] = Blank]
        /\ ir' = IrFree(ir, p)
        /\ bc' = [bc EXCEPT ![p] = NoFile]
        /\ todo' = <<Do("restored", p)>> \o Tail(todo)
  /\ UNCHANGED <<globals, dat, gdat, calls>>

RestoredStep == /\ At("restored")
                /\ IF prog[This].text = NoText
                   THEN todo' = Tail(todo) /\ UNCHANGED <<prog, ir>>
                   ELSE Compile(This, Tail(todo), Tail(todo))
                /\ UNCHANGED <<globals, flash, calls>>

\* st_bytecode_save: the cache names the text it was compiled from.
CacheStep == /\ At("cache")
             /\ bc' = [bc EXCEPT ![This] = prog[This].code]
             /\ todo' = Tail(todo)
             /\ UNCHANGED <<prog, ir, globals, dat, gdat, calls>>

SaveGlobalsStep == /\ At("saveGlobals")
                   /\ gdat' = globals.src
                   /\ todo' = Tail(todo)
                   /\ UNCHANGED <<prog, ir, globals, dat, bc, calls>>

\* A size without a text in the pool: the header is written and nothing else.
Image(p) == IF prog[p].size = 0 THEN NoFile
            ELSE [text |-> IF prog[p].text = NoText THEN Noise ELSE prog[p].text,
                  size |-> prog[p].size, on |-> prog[p].on, ivl |-> prog[p].ivl]

SaveStep == /\ At("save")
            /\ dat' = [dat EXCEPT ![This] = Image(This)]
            /\ todo' = Tail(todo)
            /\ UNCHANGED <<prog, ir, globals, gdat, bc, calls>>

IntervalStep == /\ At("interval")
                /\ prog' = AllIntervals(This)
                /\ todo' = Tail(todo)
                /\ UNCHANGED <<ir, globals, flash, calls>>

-----------------------------------------------------------------------------
\* Power failure and boot.

\* A file that was being written is left without its contents, or with its
\* header and too little after it; a GLOBAL_VAR file so cut declares nothing.
Tears == /\ IF At("save") /\ Image(This) # NoFile
            THEN dat' \in {dat, [dat EXCEPT ![This] = Torn],
                           [dat EXCEPT ![This] = [Image(This) EXCEPT !.text = Noise]]}
            ELSE UNCHANGED dat
         /\ IF At("saveGlobals") /\ globals.src # NoGlobals
            THEN gdat' \in {gdat, NoGlobals} ELSE UNCHANGED gdat
         /\ IF At("cache")
            THEN bc' \in {bc, [bc EXCEPT ![This] = Torn]} ELSE UNCHANGED bc

Boot == <<Do("boot", 0)>> \o Each("load") \o <<Do("reallocate", 0)>>

PowerFail == /\ PowerFails
             /\ calls < MaxCalls /\ calls' = calls + 1
             /\ Tears
             /\ prog' = [p \in Programs |-> Blank]
             /\ ir' = [p \in Programs |-> NoIr]
             /\ globals' = NoBlock
             /\ todo' = Boot

BootGlobals == /\ At("boot")
               /\ CommitGlobals(gdat)
               /\ todo' = Tail(todo)
               /\ UNCHANGED <<prog, ir, flash, calls>>

\* The settings and the size are taken from the file before there is room.
Header(p, f) == [prog[p] EXCEPT !.on = f.on, !.size = f.size,
                   !.ivl = IF f.ivl < MinInterval THEN DefaultInterval ELSE f.ivl]

LoadNothing == /\ At("load")
               /\ dat[This] \in {NoFile, Torn}
               /\ todo' = Tail(todo)
               /\ UNCHANGED <<prog, ir, globals, flash, calls>>

LoadNoRoom == /\ At("load")
              /\ dat[This] \notin {NoFile, Torn}
              /\ ~Room(This, dat[This].size)
              /\ prog' = [prog EXCEPT ![This] = Header(This, dat[This])]
              /\ todo' = Tail(todo)
              /\ UNCHANGED <<ir, globals, flash, calls>>

\* Mutated Cached: the cache is not compared with the text.
CachedAnyText(p, t) == bc[p] \notin {NoFile, Torn} /\ t \in Texts

Cached(p, t) == bc[p] \notin {NoFile, Torn} /\ bc[p].text = t

LoadStep ==
  /\ At("load")
  /\ dat[This] \notin {NoFile, Torn}
  /\ Room(This, dat[This].size)
  /\ LET p == This
         t == dat[p].text
         read == [Header(p, dat[p]) EXCEPT !.text = t]
     IN IF Cached(p, t)
        THEN /\ prog' = [prog EXCEPT ![p] =
                           [read EXCEPT !.compiled = TRUE, !.code = bc[p]]]
             /\ ir' = IrAllocate(ir, p, IrNeed[t])
             /\ todo' = Tail(todo)
        ELSE /\ prog' = [prog EXCEPT ![p] = read]
             /\ todo' = <<Do("restored", p)>> \o Tail(todo)
             /\ UNCHANGED ir
  /\ UNCHANGED <<globals, flash, calls>>

ReallocateStep ==
  /\ At("reallocate")
  /\ ir' = IrReallocateAll([p \in Programs |->
                              IF prog[p].compiled THEN IrNeed[prog[p].code.text] ELSE 0])
  /\ todo' = Tail(todo)
  /\ UNCHANGED <<prog, globals, flash, calls>>

-----------------------------------------------------------------------------
Handler == \/ \E p \in Programs, t \in Texts : Upload(p, t)
           \/ \E p \in Programs : Delete(p)
           \/ \E p \in Programs, b \in BOOLEAN : SetEnabled(p, b) \/ ModbusEnable(p, b)
           \/ \E p \in Programs, i \in Intervals : SetInterval(p, i)
           \/ \E i \in Intervals : CliInterval(i) \/ RestInterval(i) \/ ModbusInterval(i)
           \/ Save
           \/ \E g \in GTexts \cup {NoGlobals} : PostGlobals(g)
           \/ \E b \in Backups : Restore(b)

Step == \/ CompileStep \/ RebindStep \/ ReplaceStep \/ RestoredStep
        \/ CacheStep \/ SaveGlobalsStep \/ SaveStep \/ IntervalStep
        \/ BootGlobals \/ LoadNothing \/ LoadNoRoom \/ LoadStep \/ ReallocateStep

Next == Handler \/ Step \/ PowerFail

Spec == Init /\ [][Next]_vars

-----------------------------------------------------------------------------
TypeOK == /\ prog \in [Programs -> Program]
          /\ ir \in [Programs -> IrRanges]
          /\ globals.src \in GTexts \cup {NoGlobals}
          /\ dat \in [Programs -> {NoFile, Torn} \cup DatFile]
          /\ gdat \in GTexts \cup {NoGlobals}
          /\ bc \in [Programs -> {NoFile, Torn} \cup Codes]
          /\ calls \in 0 .. MaxCalls

HasCode(p) == prog[p].compiled /\ prog[p].code # NoCode
Runnable(p) == Compilable(prog[p].text)
Using(p) == UsesOf[prog[p].code.text]

\* A program never runs code of another text than the one shown as its source:
\* st_logic_upload clears compiled before the new text is looked at.
RunsItsText == \A p \in Programs :
  HasCode(p) /\ prog[p].text \in Texts => prog[p].code.text = prog[p].text

\* Code reads and writes the global it names, or its turn to be compiled again
\* is still to come.
Bound(p) ==
  \/ Do("rebind", p) \in Range(todo)
  \/ HasCode(p) /\ Using(p) # NoName /\ prog[p].code.idx <= Len(globals.layout)
     => globals.layout[prog[p].code.idx] = Using(p)

\* Nothing but a boot binds a program to a global it does not name, whatever was
\* uploaded, failed to compile or was restored (st_logic_globals_compile:
\* "never left silently reading/writing the WRONG global by stale index").
OnlyBootMisbinds ==
  [][At("load") \/ \A p \in Programs : Bound(p) => Bound(p)']_vars

\* EXPORT registers of two programs never overlap and lie within the pool.
IrDisjoint == \A p, q \in Programs :
  p # q /\ ir[p] # NoIr /\ ir[q] # NoIr
  => /\ IrEnd(ir[p]) <= IrPoolSize
     /\ IrEnd(ir[p]) <= ir[q].off \/ IrEnd(ir[q]) <= ir[p].off

\* "Kompiler = gemt" (BUG-430): between calls, what runs is what the next boot
\* will read, also after power failures.
CompiledIsSaved == Idle => \A p \in Programs :
  prog[p].compiled /\ prog[p].text \in Texts
  => dat[p] \notin {NoFile, Torn} /\ dat[p].text = prog[p].text

\* When a boot is done and the files have room in the pool together (a power
\* failure between the files of two programs can leave ones that have not),
\* every program whose file is whole and compilable runs that file's text,
\* whether its code came from the cache or was compiled, or has no code for want
\* of memory.
FileSize(p) == IF dat[p] \in {NoFile, Torn} THEN 0 ELSE dat[p].size

BootRunsSaved ==
  At("reallocate") /\ Total([p \in Programs |-> FileSize(p)]) <= PoolSize
  => \A p \in Programs :
       dat[p] \notin {NoFile, Torn} /\ Compilable(dat[p].text)
       => /\ prog[p].text = dat[p].text
          /\ \/ prog[p].compiled /\ prog[p].code.text = dat[p].text
             \/ HeapFails /\ prog[p].code = NoCode

-----------------------------------------------------------------------------
\* What the repository says and the code does not do.

\* "et program der ikke kompilerer, overskriver ikke den sidst gemte version"
\* (docs/manual/04_Web_Dashboard_og_Monitor.md): a save replaces or removes a
\* stored text that compiles only for one that does, unless it was deleted.
WorkingVersionKept == [][\A p \in Programs :
  /\ At("save") /\ This = p /\ dat[p] # dat'[p]
  /\ dat[p] \notin {NoFile, Torn} /\ Compilable(dat[p].text)
  => prog[p] = Deleted \/ prog[p].compiled]_vars

\* The comment OnlyBootMisbinds quotes, with reboots.
NeverWrongGlobal == Idle => \A p \in Programs : Bound(p)

\* A GLOBAL_VAR upload recompiles every program that uses a global
\* (docs/manual/08_ST_Logic_Programmering.md): none is left without code that
\* compiles against the globals there are.
GlobalsRevive == Idle => \A p \in Programs :
  prog[p].compiled /\ Runnable(p) => prog[p].code # NoCode

\* "programmernes interval ligger i SPIFFS" (src/src/api_handlers.cpp): the
\* settings handler leaves on flash the intervals that are in force.
IntervalsSaved == [][At("interval") => \A p \in Programs :
  dat[p] \notin {NoFile, Torn} => dat[p].ivl = prog'[p].ivl]_vars

\* "2-60000ms" (src/include/st_logic_config.h).
IntervalInRange == \A p \in Programs : prog[p].ivl >= MinInterval

\* "255 if pool full" (src/include/ir_pool_manager.h): a compiled program goes
\* without EXPORT registers only when there are too few.
IrRefusedOnlyWhenFull == \A p \in Programs :
  /\ HasCode(p) /\ ir[p] = NoIr
  => IrTotal(ir) + IrNeed[prog[p].code.text] > IrPoolSize
     \/ IrNeed[prog[p].code.text] = 0

\* "restores allocations after NVS load" (src/include/constants.h): with every
\* program saved and compiled, a boot gives each the registers it has now.
IrSurvivesReboot ==
  Idle /\ (\A p \in Programs : prog[p].compiled => HasCode(p))
  => ir = IrReallocateAll([p \in Programs |->
                             IF prog[p].compiled THEN IrNeed[prog[p].code.text] ELSE 0])

\* "Restore overskriver den gemte konfiguration" (docs/manual/11),
\* "restores entire configuration" (CHANGELOG.md): when the programs a restore
\* has replaced and those it will replace fit in the pool together, it stores
\* the text of each.
Ahead == {i \in DOMAIN todo : todo[i].do = "replace"}
SizeAhead(i) == IF todo[i].t = NoText THEN 0 ELSE SizeOf[todo[i].t]
BackupFits == MapThenSumSet(LAMBDA p : prog[p].size,
                            Programs \ {todo[i].p : i \in Ahead})
              + MapThenSumSet(SizeAhead, Ahead) <= PoolSize

RestoreStores == [][At("replace") /\ BackupFits
                    => prog'[This].text = Head(todo).t]_vars
=============================================================================
