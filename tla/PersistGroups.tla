--------------------------- MODULE PersistGroups ---------------------------
(***************************************************************************)
(* The persistent register groups (registers_persist.cpp) with the REST    *)
(* handlers, commands and the functions SAVE and LOAD of ST that use them. *)
(* A group is a list of register addresses with their values, both in      *)
(* arrays that are shifted when an entry goes; the groups are an array of  *)
(* such, and a group's number is its place in it.  They lie in the         *)
(* configuration: a save takes the registers one by one while they go on   *)
(* changing, and then writes the whole configuration to flash.             *)
(*                                                                         *)
(* The rate limit of SAVE, which refuses some calls, the commands' and     *)
(* handlers' messages and the restore of a backup are left out.  A request *)
(* adds or removes one register at a time, and a register is read and put  *)
(* into its entry in one step.  What is left out of a start are the other  *)
(* settings that write registers.                                          *)
(***************************************************************************)
EXTENDS Integers, SequencesExt

CONSTANTS
  Tasks,       \* those that call: loopTask, and httpd
  Names,       \* names of groups
  Regs,        \* addresses of registers
  Values,      \* their values, 0 among them
  MaxGroups,   \* PERSIST_MAX_GROUPS
  MaxRegs,     \* PERSIST_GROUP_MAX_REGS
  MaxAuto,     \* groups to load at the start, 7
  MaxCalls     \* bound: calls and register writes of the model

PersistAssumption ==
  /\ 0 \in Values /\ Values \subseteq Nat
  /\ MaxGroups \in Nat \ {0} /\ MaxRegs \in Nat \ {0} /\ MaxAuto \in Nat /\ MaxCalls \in Nat

VARIABLES
  pr,      \* persist_regs of the configuration
  reg,     \* the holding registers
  job,     \* each task's save: the groups still to do, and the next entry
  flash,   \* persist_regs as saved
  calls,
  \* For the properties only: the value each register was last saved with,
  \* unless it has entered or left a group since
  kept, keptFlash

vars == <<pr, reg, job, flash, calls, kept, keptFlash>>
history == <<kept, keptFlash>>

None == -1
NoJob == [todo |-> <<>>, at |-> 1, busy |-> FALSE]
Empty == [enabled |-> FALSE, auto |-> FALSE, ids |-> <<>>, groups |-> <<>>]

Ids(p) == 1..Len(p.groups)
Has(p, name) == \E g \in Ids(p) : p.groups[g].name = name
\* registers_persist_group_find.
Find(p, name) == CHOOSE g \in Ids(p) : p.groups[g].name = name
At(group, r) == {i \in 1..Len(group.addr) : group.addr[i] = r}
Holders(p, r) == {g \in Ids(p) : At(p.groups[g], r) # {}}

-----------------------------------------------------------------------------
CanCreate(p, name) == Has(p, name) \/ Len(p.groups) < MaxGroups
Created(p, name) ==
  IF Has(p, name) THEN p
  ELSE [p EXCEPT !.groups = Append(@, [name |-> name, addr |-> <<>>, val |-> <<>>])]

Added(p, name, r) ==
  LET g == Find(p, name)
      old == p.groups[g]
  IN  IF At(old, r) # {} \/ Len(old.addr) = MaxRegs THEN p
      ELSE [p EXCEPT !.groups[g] =
              [name |-> old.name, addr |-> Append(old.addr, r), val |-> Append(old.val, 0)]]

\* Mutant: the values stay where they are.
RemovedAddr(p, name, r) ==
  LET g == Find(p, name)
      old == p.groups[g]
      i == CHOOSE i \in At(old, r) : TRUE
  IN  IF At(old, r) = {} THEN p
      ELSE [p EXCEPT !.groups[g] =
              [name |-> old.name, addr |-> RemoveAt(old.addr, i), val |-> Front(old.val)]]
Removed(p, name, r) ==
  LET g == Find(p, name)
      old == p.groups[g]
      i == CHOOSE i \in At(old, r) : TRUE
  IN  IF At(old, r) = {} THEN p
      ELSE [p EXCEPT !.groups[g] =
              [name |-> old.name, addr |-> RemoveAt(old.addr, i), val |-> RemoveAt(old.val, i)]]

Deleted(p, name) == [p EXCEPT !.groups = RemoveAt(@, Find(p, name))]

Restored(p, gs, values) ==
  [r \in Regs |-> LET H == {g \in gs \cap Holders(p, r) : \A h \in gs \cap Holders(p, r) : h <= g}
                  IN  IF H = {} THEN values[r]
                      ELSE LET g == CHOOSE g \in H : TRUE
                           IN  p.groups[g].val[CHOOSE i \in At(p.groups[g], r) : TRUE]]

\* Group number 0 stands for all, and a number may have no group any more.
Numbered(p, id) == IF id = 0 THEN Ids(p) ELSE {id} \cap Ids(p)

-----------------------------------------------------------------------------
Init ==
  /\ pr = Empty /\ flash = Empty
  /\ reg = [r \in Regs |-> 0]
  /\ job = [t \in Tasks |-> NoJob]
  /\ calls = 0
  /\ kept = [r \in Regs |-> None] /\ keptFlash = kept

Counts == calls < MaxCalls /\ calls' = calls + 1
Called(t) == ~job[t].busy /\ Counts

\* A register whose groups have changed is not what was saved any more.
Forget(p) == kept' = [r \in Regs |->
  IF {p.groups[g].name : g \in Holders(p, r)} = {pr.groups[g].name : g \in Holders(pr, r)}
  THEN kept[r] ELSE None]

Edit(t, p) ==
  /\ Called(t) /\ pr' = p /\ Forget(p)
  /\ UNCHANGED <<reg, job, flash, keptFlash>>

GroupAdd(t, name, r) ==
  /\ CanCreate(pr, name)
  /\ Edit(t, [Added(Created(pr, name), name, r) EXCEPT !.enabled = TRUE])
\* A REST call creates the group even if it only removes from it.
GroupPostRemove(t, name, r) ==
  /\ CanCreate(pr, name)
  /\ Edit(t, [Removed(Created(pr, name), name, r) EXCEPT !.enabled = TRUE])
\* The command "add" without a register.
GroupCreate(t, name) == CanCreate(pr, name) /\ Edit(t, Created(pr, name))
GroupRemove(t, name, r) == Has(pr, name) /\ Edit(t, Removed(pr, name, r))
GroupDelete(t, name) == Has(pr, name) /\ Edit(t, Deleted(pr, name))

SetEnabled(t, on) == Edit(t, [pr EXCEPT !.enabled = on])
SetAuto(t, on) == Edit(t, [pr EXCEPT !.auto = on])
AutoAdd(t, id) ==
  /\ id \in Ids(pr) /\ Len(pr.ids) < MaxAuto /\ \A i \in 1..Len(pr.ids) : pr.ids[i] # id
  /\ Edit(t, [pr EXCEPT !.ids = Append(@, id)])
AutoRemove(t, i) == i \in 1..Len(pr.ids) /\ Edit(t, [pr EXCEPT !.ids = RemoveAt(@, i)])
ResetAll(t) == Edit(t, Empty)

\* The registers are written by Modbus, by programs and by REST.
WriteReg(r, v) ==
  /\ Counts /\ reg' = [reg EXCEPT ![r] = v]
  /\ UNCHANGED <<pr, job, flash, history>>

-----------------------------------------------------------------------------
\* SAVE and "save registers all" ask first whether the groups are enabled;
\* the REST call and "save registers group" do not.
SaveStart(t, id) ==
  /\ Called(t) /\ (id # 0 => id \in Ids(pr))
  /\ job' = [job EXCEPT ![t] = [todo |-> SetToSortSeq(Numbered(pr, id), <), at |-> 1, busy |-> TRUE]]
  /\ UNCHANGED <<pr, reg, flash, history>>

\* The next register of registers_persist_group_save, or the next group.
SaveReg(t) ==
  /\ job[t].todo # <<>>
  /\ LET g == Head(job[t].todo)
         i == job[t].at
     IN  IF g \in Ids(pr) /\ i <= Len(pr.groups[g].addr)
         THEN LET r == pr.groups[g].addr[i] IN
              /\ pr' = [pr EXCEPT !.groups[g].val[i] = reg[r]]
              /\ kept' = [kept EXCEPT ![r] = reg[r]]
              /\ job' = [job EXCEPT ![t].at = i + 1]
         ELSE /\ job' = [job EXCEPT ![t].todo = Tail(@), ![t].at = 1]
              /\ UNCHANGED <<pr, kept>>
  /\ UNCHANGED <<reg, flash, calls, keptFlash>>

WriteFlash == flash' = pr /\ keptFlash' = kept

\* config_save_to_nvs at the end, which may fail.
SaveEnd(t) ==
  /\ job[t].busy /\ job[t].todo = <<>>
  /\ job' = [job EXCEPT ![t] = NoJob]
  /\ WriteFlash \/ UNCHANGED <<flash, keptFlash>>
  /\ UNCHANGED <<pr, reg, calls, kept>>

\* The configuration is saved for another reason.
SaveElsewhere(t) ==
  /\ Called(t) /\ WriteFlash
  /\ UNCHANGED <<pr, reg, job, kept>>

Restore(t, id) ==
  /\ Called(t) /\ Numbered(pr, id) # {}
  /\ reg' = Restored(pr, Numbered(pr, id), reg)
  /\ UNCHANGED <<pr, job, flash, history>>

\* LOAD and "load registers": the groups in flash replace the others.
Load(t, id) ==
  /\ Called(t)
  /\ pr' = flash /\ kept' = keptFlash
  /\ reg' = Restored(flash, Numbered(flash, id), reg)
  /\ UNCHANGED <<job, flash, keptFlash>>

\* config_apply restores every group if they are enabled; the groups to
\* load come after it.
AutoLoaded(p) == IF p.auto THEN {p.ids[i] : i \in 1..Len(p.ids)} \cap Ids(p) ELSE {}
\* Mutant: with groups to load at the start, these are the only ones.
AppliedAuto(p) == IF p.enabled /\ ~p.auto THEN Ids(p) ELSE {}
Applied(p) == IF p.enabled THEN Ids(p) ELSE {}
Zeros == [r \in Regs |-> 0]

Boot ==
  /\ Counts
  /\ pr' = flash /\ kept' = keptFlash
  /\ reg' = Restored(flash, AutoLoaded(flash), Restored(flash, Applied(flash), Zeros))
  /\ job' = [t \in Tasks |-> NoJob]
  /\ UNCHANGED <<flash, keptFlash>>

Call(t) ==
  \/ \E name \in Names :
       \/ \E r \in Regs : \/ GroupAdd(t, name, r) \/ GroupRemove(t, name, r)
                         \/ GroupPostRemove(t, name, r)
       \/ GroupCreate(t, name) \/ GroupDelete(t, name)
  \/ \E on \in BOOLEAN : SetEnabled(t, on) \/ SetAuto(t, on)
  \/ \E i \in 1..MaxGroups : AutoAdd(t, i) \/ AutoRemove(t, i)
  \/ ResetAll(t) \/ SaveElsewhere(t)
  \/ \E id \in 0..MaxGroups : SaveStart(t, id) \/ Restore(t, id) \/ Load(t, id)

Next ==
  \/ \E t \in Tasks : Call(t) \/ SaveReg(t) \/ SaveEnd(t)
  \/ \E r \in Regs, v \in Values : WriteReg(r, v)
  \/ Boot

Spec == Init /\ [][Next]_vars

-----------------------------------------------------------------------------
Groups == [name : Names, addr : BoundedSeq(Regs, MaxRegs), val : BoundedSeq(Values, MaxRegs)]
GroupSets == [enabled : BOOLEAN, auto : BOOLEAN, ids : BoundedSeq(1..MaxGroups, MaxAuto),
              groups : BoundedSeq(Groups, MaxGroups)]

TypeOK ==
  /\ pr \in GroupSets /\ flash \in GroupSets
  /\ reg \in [Regs -> Values]
  /\ kept \in [Regs -> Values \cup {None}] /\ keptFlash \in [Regs -> Values \cup {None}]

\* An entry's value is one that its own register was saved with: entries that
\* are removed and groups that are deleted, loaded and created again never
\* shift a value to another register.
ValuesFollow ==
  \A g \in Ids(pr), r \in Regs : \A i \in At(pr.groups[g], r) :
    kept[r] # None /\ Holders(pr, r) = {g} => pr.groups[g].val[i] = kept[r]

\* After a start, a register that is in one group comes back with the value
\* it was last saved with, whichever groups are loaded at the start, and
\* whatever was edited, and not saved, before the power failed.
SavedComesBack ==
  [][Boot /\ flash.enabled =>
       \A r \in Regs : keptFlash[r] # None /\ (\E g \in Ids(flash) : Holders(flash, r) = {g})
                         => reg'[r] = keptFlash[r]]_vars
=============================================================================
