------------------------------ MODULE Settings ------------------------------
(***************************************************************************)
(* The configuration of the device: one packed struct in RAM, written as   *)
(* it is to flash (config_save.cpp) and read back at the start and on      *)
(* request (config_load.cpp); a blob that an older firmware wrote is laid  *)
(* over the longer struct of today and put right step by step, from one    *)
(* schema to the next.  A backup is the same settings as a JSON file, with *)
(* the programs; a restore takes them back section by section.             *)
(*                                                                         *)
(* A field stands for what the struct holds at one place of its order, and *)
(* a cell of the blob for the bytes of a field: a cell read at another     *)
(* field's place is that other field's bytes.  Schemas before 19 have      *)
(* fields in places the source does not tell any more, and are left out.   *)
(* So are two writers at once: a save is one step, and nobody changes a    *)
(* setting while a restore runs.  There is one program, and whether it     *)
(* fits and compiles is the matter of StPrograms.                          *)
(***************************************************************************)
EXTENDS Integers, SequencesExt

CONSTANTS
  Origins,   \* schemas of the blob the device starts with
  Editable,  \* fields that users change in the model
  MaxCalls   \* bound: calls

SettingsAssumption ==
  /\ Origins \subseteq 19..34 /\ Origins # {} /\ MaxCalls \in Nat

Current == 34  \* CONFIG_SCHEMA_VERSION

VARIABLES
  up,      \* the device runs
  cfg,     \* g_persist_config: field -> cell
  prog,    \* the program: 0 none, 1 and 2 texts
  keys,    \* settings under keys of their own, written at once
  flash,   \* the blob
  dat,     \* the program's file
  file,    \* a backup
  todo,    \* the sections a restore has still to take
  calls,
  \* For the properties only: what was saved, and the fields whose migration
  \* is known to fail
  saved, lost

vars == <<up, cfg, prog, keys, flash, dat, file, todo, calls, saved, lost>>

-----------------------------------------------------------------------------
\* The struct, in order.  "more" are the places 33 to 64 of var_maps; "type"
\* and "types" the type of the first expansion board and of the others.
Struct == <<"head", "password", "maps", "more", "tail", "users", "analog", "https", "salts",
            "custom", "auth", "acl", "public", "master2", "board", "type", "boards", "types",
            "samples", "description">>
Fields == ToSet(Struct)

\* The schema with which a field came.
Since == [f \in Fields |->
  CASE f = "analog" -> 20 [] f = "https" -> 21 [] f = "salts" -> 22 [] f = "custom" -> 23
    [] f = "auth" -> 24 [] f = "more" -> 25 [] f = "acl" -> 26 [] f = "public" -> 28
    [] f = "master2" -> 29 [] f \in {"board", "boards"} -> 30 [] f \in {"type", "types"} -> 31
    [] f = "samples" -> 32 [] f = "description" -> 34 [] OTHER -> 19]

Layout(v) == SelectSeq(Struct, LAMBDA f : Since[f] <= v)

\* How a field's bytes are written: passwords as text and then as hash, the
\* analog offset behind and then before the scale, a rule of the ACL without
\* and then with its action.
Form(f, v) ==
  IF \/ f \in {"password", "users"} /\ v >= 22
     \/ f = "analog" /\ v >= 33
     \/ f = "acl" /\ v >= 27
  THEN 1 ELSE 0

Cell(f, val, form) == [of |-> f, val |-> val, form |-> form]
Nothing == Cell("none", 0, 0)
Crc == Cell("crc", 1, 0)
Fresh(f) == Cell(f, 0, Form(f, Current))
Defaults == [f \in Fields |-> Fresh(f)]
Zeros == [f \in Fields |-> Nothing]

Blob(v, cells, good) == [v |-> v, cells |-> cells, good |-> good]
BlobOf(c) == Blob(Current, [i \in 1..Len(Struct) |-> c[Struct[i]]] \o <<Crc>>, TRUE)
\* What the firmware of schema v wrote, with the value `val' everywhere.
Written(v, val) ==
  Blob(v, [i \in 1..Len(Layout(v)) |-> Cell(Layout(v)[i], val, Form(Layout(v)[i], v))] \o <<Crc>>,
       TRUE)

-----------------------------------------------------------------------------
\* nvs_get_blob into a struct of this layout: the blob's bytes from its
\* start, and where it ends what was there.
Read(b, layout, old) ==
  [f \in Fields |->
    LET At == {i \in 1..Len(layout) : layout[i] = f /\ i <= Len(b.cells)}
    IN  IF At = {} THEN old[f] ELSE b.cells[CHOOSE i \in At : TRUE]]

\* Mutant: the fields stay where the old blob has them.
Unmoved(b, m) == m
\* var_maps grew from 32 to 64 in the middle of the struct: the blob is read
\* again into the layout of schema 24.
Moved(b, m) ==
  IF b.v >= 25 THEN m
  ELSE LET again == Read(b, Layout(24), Zeros)
       IN  [f \in Fields |-> IF f = "more" THEN Fresh(f)
                             ELSE IF Since[f] <= 24 THEN again[f] ELSE m[f]]

Convert(c) == [c EXCEPT !.form = @ + 1]
BoardType(f, board) == IF board.val # 0 THEN Cell(f, 1, 0) ELSE Fresh(f)

\* From schema v to the next.
Step(m, v) ==
  CASE v = 19 -> [m EXCEPT !["analog"] = Fresh("analog")]
    [] v = 20 -> [m EXCEPT !["https"] = Fresh("https")]
    [] v = 21 -> [m EXCEPT !["password"] = Convert(@), !["users"] = Convert(@),
                           !["salts"] = Fresh("salts")]
    [] v = 22 -> [m EXCEPT !["custom"] = Fresh("custom")]
    [] v = 23 -> [m EXCEPT !["auth"] = Fresh("auth")]
    [] v = 25 -> [m EXCEPT !["acl"] = Fresh("acl")]
    [] v = 26 -> [m EXCEPT !["acl"].form = 1]
    [] v = 27 -> [m EXCEPT !["public"] = Fresh("public")]
    [] v = 28 -> [m EXCEPT !["master2"] = Fresh("master2")]
    [] v = 29 -> [m EXCEPT !["board"] = Fresh("board"), !["boards"] = Fresh("boards"),
                           !["type"] = Fresh("type"), !["types"] = Fresh("types")]
    [] v = 30 -> [m EXCEPT !["type"] = BoardType("type", m["board"]),
                           !["types"] = BoardType("types", m["boards"])]
    [] v = 31 -> [m EXCEPT !["samples"] = Fresh("samples")]
    [] v = 32 -> [m EXCEPT !["analog"] = Convert(@)]
    [] v = 33 -> [m EXCEPT !["description"] = Fresh("description")]
    [] OTHER -> m

Migrated(b, old) ==
  FoldLeft(Step, Moved(b, Read(b, Struct, old)), [i \in 1..(Current - b.v) |-> b.v + i - 1])

\* config_load_from_nvs.  The checksum of an older blob is not looked at.
Loaded(b, old) ==
  IF b.v < Current THEN Migrated(b, old)
  ELSE IF b.good THEN Read(b, Struct, old) ELSE Defaults

-----------------------------------------------------------------------------
SettingValues(c) == [f \in Fields |-> c[f].val]

Init ==
  /\ up = FALSE /\ cfg = Zeros
  /\ \E v \in Origins, val \in {0, 1} :
       /\ flash = Written(v, val)
       /\ saved = [f \in Fields |-> IF Since[f] <= v \/ (f \in {"type", "types"} /\ v = 30)
                                    THEN val ELSE 0]
       /\ lost = IF v = 19 THEN {"analog"} ELSE IF v = 30 THEN {"boards", "types"} ELSE {}
  /\ prog = 0 /\ dat = 0 /\ keys = 0
  /\ file = <<>> /\ todo = <<>> /\ calls = 0

Counts == calls < MaxCalls /\ calls' = calls + 1
Call == up /\ todo = <<>> /\ Counts

WriteBlob(c) == flash' = BlobOf(c) /\ saved' = SettingValues(c)
\* config_save_to_nvs, which may find no memory for its copy or no room.
SaveConfig(c) == WriteBlob(c) \/ UNCHANGED <<flash, saved>>

\* A migrated configuration is written back at once, and the second reading
\* of the blob may fail.
LoadInto(old) ==
  \/ /\ cfg' = Loaded(flash, old)
     /\ IF flash.v < Current THEN SaveConfig(cfg') ELSE UNCHANGED <<flash, saved>>
  \/ /\ flash.v < 25
     /\ cfg' = Defaults
     /\ UNCHANGED <<flash, saved>>

\* The start of the device, after a failure of the power too.
Boot ==
  /\ Counts
  /\ up' = TRUE /\ todo' = <<>>
  /\ LoadInto(Zeros)
  /\ prog' = dat
  /\ UNCHANGED <<keys, dat, file, lost>>

\* The call and the command "load".
Load ==
  /\ Call /\ LoadInto(cfg)
  /\ UNCHANGED <<up, prog, keys, dat, file, todo, lost>>

\* config_struct_create_default for the call "defaults".
SetDefaults ==
  /\ Call /\ cfg' = Defaults
  /\ UNCHANGED <<up, prog, keys, flash, dat, file, todo, saved, lost>>

\* "save": the programs first, then the configuration.
Save ==
  /\ Call /\ dat' = prog
  /\ SaveConfig(cfg)
  /\ UNCHANGED <<up, cfg, prog, keys, file, todo, lost>>

\* The flash loses the blob's content.
Damage ==
  /\ Counts /\ flash.v = Current
  /\ flash' = [flash EXCEPT !.good = FALSE]
  /\ saved' = SettingValues(Defaults)
  /\ UNCHANGED <<up, cfg, prog, keys, dat, file, todo, lost>>

\* A setting is changed in RAM, here to the value 2.
Edit(f) ==
  /\ Call /\ f \notin lost
  /\ cfg' = [cfg EXCEPT ![f] = Cell(f, 2, Form(f, Current))]
  /\ UNCHANGED <<up, prog, keys, flash, dat, file, todo, saved, lost>>

EditKeys ==
  /\ Call /\ keys' = 2
  /\ UNCHANGED <<up, cfg, prog, flash, dat, file, todo, saved, lost>>

\* The mappings are worth 1 for pins, and 2 with bindings of the program.
Deleted(c) == [c EXCEPT !["maps"].val = IF @ = 2 THEN 1 ELSE @]
Upload ==
  /\ Call /\ prog' \in {1, 2}
  /\ UNCHANGED <<up, cfg, keys, flash, dat, file, todo, saved, lost>>
Delete ==
  /\ Call /\ prog' = 0 /\ cfg' = Deleted(cfg)
  /\ UNCHANGED <<up, keys, flash, dat, file, todo, saved, lost>>
Bind ==
  /\ Call /\ prog # 0
  /\ cfg' = [cfg EXCEPT !["maps"] = Cell("maps", 2, 0)]
  /\ UNCHANGED <<up, prog, keys, flash, dat, file, todo, saved, lost>>

-----------------------------------------------------------------------------
\* The backup has no users when there are none, and neither the samples of
\* the analog inputs nor the second master.
Sections(c) == {f \in Fields \ {"samples", "master2"} : f = "users" => c[f].val # 0}

Backup ==
  /\ Call
  /\ file' = <<[cells |-> [f \in Sections(cfg) |-> cfg[f]], prog |-> prog, keys |-> keys]>>
  /\ UNCHANGED <<up, cfg, prog, keys, flash, dat, todo, saved, lost>>

Steps == <<"settings", "programs", "after", "save">>
Restore ==
  /\ Call /\ file # <<>>
  /\ todo' = Steps
  /\ UNCHANGED <<up, cfg, prog, keys, flash, dat, file, saved, lost>>

\* What comes after the programs, whose deletion takes mappings away.
After == {"maps", "more", "acl", "users"}
Taken(fs) == [f \in Fields |-> IF f \in fs \cap DOMAIN file[1].cells THEN file[1].cells[f]
                               ELSE cfg[f]]

Section(s) == todo # <<>> /\ Head(todo) = s /\ todo' = Tail(todo)

RestoreSettings ==
  /\ Section("settings")
  /\ cfg' = Taken(Fields \ After)
  /\ UNCHANGED <<up, prog, keys, flash, dat, file, calls, saved, lost>>

\* The old program is deleted first; at the end the files are written.
RestorePrograms ==
  /\ Section("programs")
  /\ cfg' = Deleted(cfg)
  /\ prog' = file[1].prog /\ dat' = prog'
  /\ UNCHANGED <<up, keys, flash, file, calls, saved, lost>>

\* Mutant: the mappings have been taken before the programs.
RestoredEarly ==
  /\ Section("after")
  /\ cfg' = Deleted(Taken(After))
  /\ UNCHANGED <<up, prog, keys, flash, dat, file, calls, saved, lost>>
RestoreAfter ==
  /\ Section("after")
  /\ cfg' = Taken(After)
  /\ UNCHANGED <<up, prog, keys, flash, dat, file, calls, saved, lost>>

\* The settings with keys of their own, and the configuration; if that
\* fails the call answers with an error.
RestoreSave ==
  /\ Section("save")
  /\ keys' = file[1].keys
  /\ SaveConfig(cfg)
  /\ UNCHANGED <<up, cfg, prog, dat, file, calls, lost>>

Next ==
  \/ Boot \/ Load \/ SetDefaults \/ Save \/ Damage
  \/ \E f \in Editable : Edit(f)
  \/ EditKeys \/ Upload \/ Delete \/ Bind
  \/ Backup \/ Restore
  \/ RestoreSettings \/ RestorePrograms \/ RestoreAfter \/ RestoreSave

Spec == Init /\ [][Next]_vars

-----------------------------------------------------------------------------
\* A start of the device, and "load", bring back each setting that was last
\* saved, by whatever firmware, in the form today's code reads, and the
\* default for a setting the firmware did not have: over any number of
\* starts, failed saves and power failures (config_load_from_nvs).  Known
\* exceptions are the analog inputs of schema 19, whose defaults the step
\* from 32 to 33 converts, and all boards but the first of schema 30.
Right(f, c) == c.of = f /\ c.form = Form(f, Current)
SettingsSurvive ==
  [][Boot \/ Load =>
       \/ flash.v < 25 /\ cfg' = Defaults
       \/ \A f \in Fields \ lost : Right(f, cfg'[f]) /\ cfg'[f].val = saved[f]]_vars

\* A restore whose save succeeds gives back the device the backup was taken
\* from: programs, the mappings that bind them, settings and users, in RAM
\* and in flash; users stay if the file has none (api_handler_system_restore).
RestoreGivesBackup ==
  [][RestoreSave /\ WriteBlob(cfg) =>
       /\ prog' = file[1].prog /\ dat' = prog' /\ keys' = file[1].keys
       /\ \A f \in DOMAIN file[1].cells :
            cfg'[f] = file[1].cells[f] /\ saved'[f] = cfg'[f].val]_vars
=============================================================================
