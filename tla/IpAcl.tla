------------------------------- MODULE IpAcl -------------------------------
(***************************************************************************)
(* The access control list (ip_acl.cpp) with its REST handlers, commands   *)
(* and main loop.  A change that may shut somebody out of HTTP or Telnet   *)
(* is tried in a copy, `staged', and taken back unless it is confirmed in  *)
(* time; the other changes are made and saved at once.  A draft is built   *)
(* up without any effect and applied as a whole.                           *)
(*                                                                         *)
(* A function of ip_acl.cpp is one critical section; what it does after    *)
(* that, the save, is a step of its own of the calling task.  Addresses    *)
(* are kept as the set a rule's network has in it.  Who calls a function,  *)
(* the sessions that are ended by a change, and the messages are left out. *)
(***************************************************************************)
EXTENDS Naturals, SequencesExt

CONSTANTS
  Tasks,      \* those that call: httpd and loopTask
  Addresses,
  Rules,      \* the rules the callers know of
  MaxRules,   \* ACL_MAX_RULES
  Backups,    \* the saved lists there are: in flash and to restore
  MaxCalls,   \* bound: calls of the model
  Timeout     \* ACL_PENDING_CONFIRM_TIMEOUT_MS in ticks of the model

Services == {"http", "telnet", "sse"}
Mgmt == {"http", "telnet"}

AclAssumption ==
  /\ Rules \subseteq [net : SUBSET Addresses, service : Services \cup {"all"},
                      allow : BOOLEAN, on : BOOLEAN]
  /\ \A r \in Rules, on \in BOOLEAN : [r EXCEPT !.on = on] \in Rules
  /\ Backups \subseteq [on : BOOLEAN, rules : BoundedSeq(Rules, MaxRules)]
  /\ MaxRules \in Nat /\ MaxCalls \in Nat /\ Timeout \in Nat

VARIABLES
  confirmed,  \* acl_enabled and acl_rules of g_persist_config
  staged,     \* the change on trial
  pending,    \* acl_change_pending
  left,       \* until acl_pending_deadline_ms
  draft,      \* the draft's list, or NoDraft
  todo,       \* tasks that have to save yet
  flash,      \* the saved list
  calls       \* calls made

vars == <<confirmed, staged, pending, left, draft, todo, flash, calls>>

Lists == BoundedSeq(Rules, MaxRules)
Acls == [on : BOOLEAN, rules : Lists]
NoDraft == [none |-> TRUE]
Off == [on |-> FALSE, rules |-> <<>>]

-----------------------------------------------------------------------------
Matches(r, a, s) == r.on /\ r.service \in {s, "all"} /\ a \in r.net

\* evaluate_allowed: the first match decides, and no match is a yes.
Admits(rules, a, s) ==
  \A i \in 1..Len(rules) :
    Matches(rules[i], a, s) /\ ~rules[i].allow
      => \E j \in 1..i-1 : Matches(rules[j], a, s) /\ rules[j].allow

Allowed(acl, a, s) == acl.on => Admits(acl.rules, a, s)

\* ip_acl_check.
Effective == IF pending THEN staged ELSE confirmed
Check(a, s) == Allowed(Effective, a, s)

Affects(r) == r.service \in Mgmt \cup {"all"}
Active(r) == r.on /\ Affects(r)
Shields(r) == Active(r) /\ r.allow

MgmtIn(rules) == {i \in 1..Len(rules) : Affects(rules[i])}
\* mgmt_subset_differs: not the same management rules in the same order.
SameMgmt(a, b) ==
  \E f \in Bijection(MgmtIn(a), MgmtIn(b)) :
    \A i \in MgmtIn(a) :
      a[i] = b[f[i]] /\ \A j \in MgmtIn(a) : j < i => f[j] < f[i]

-----------------------------------------------------------------------------
Init ==
  /\ flash \in Backups /\ confirmed = flash
  /\ staged = Off /\ draft = NoDraft
  /\ pending = FALSE /\ left = 0
  /\ todo = {} /\ calls = 0

Called(t) == t \notin todo /\ calls < MaxCalls /\ calls' = calls + 1

Try(acl) == staged' = acl /\ pending' = TRUE /\ left' = Timeout
Adopt(t, acl) ==
  /\ confirmed' = acl /\ todo' = todo \cup {t}
  /\ UNCHANGED <<staged, pending, left>>

\* The way of every change: refused beside a draft or a change on trial.
Change(t, acl, gates) ==
  /\ Called(t) /\ draft = NoDraft /\ ~pending
  /\ IF gates THEN Try(acl) /\ UNCHANGED <<confirmed, todo>> ELSE Adopt(t, acl)
  /\ UNCHANGED <<draft, flash>>

WithRules(rules) == [confirmed EXCEPT !.rules = rules]
Old(i) == confirmed.rules[i]
Places(acl) == 1..Len(acl.rules)
Moved(rules, i, j) == InsertAt(RemoveAt(rules, i), j, rules[i])

SetEnabled(t, on) ==
  Change(t, [confirmed EXCEPT !.on = on],
         on /\ \E i \in Places(confirmed) : Active(Old(i)))

RuleAdd(t, r) ==
  /\ Len(confirmed.rules) < MaxRules
  /\ Change(t, WithRules(Append(confirmed.rules, r)), Active(r))

\* Mutant: switching a rule off is taken for harmless.
SetGatesOn(r, on) == on # r.on /\ Affects(r) /\ on
SetGates(r, on) == on # r.on /\ Affects(r) /\ (on \/ r.allow)

RuleSetEnabled(t, i, on) ==
  Change(t, WithRules([confirmed.rules EXCEPT ![i].on = on]), SetGates(Old(i), on))

RuleEdit(t, i, r) ==
  Change(t, WithRules(ReplaceAt(confirmed.rules, i, r)), Shields(Old(i)) \/ Active(r))

RuleMove(t, i, j) ==
  i # j /\ Change(t, WithRules(Moved(confirmed.rules, i, j)), Active(Old(i)))

RuleDelete(t, i) ==
  Change(t, WithRules(RemoveAt(confirmed.rules, i)), Shields(Old(i)))

Confirm(t) ==
  /\ Called(t) /\ pending
  /\ confirmed' = staged /\ pending' = FALSE /\ todo' = todo \cup {t}
  /\ UNCHANGED <<staged, left, draft, flash>>

-----------------------------------------------------------------------------
DraftBegin(t) ==
  /\ Called(t) /\ draft = NoDraft /\ ~pending
  /\ draft' = confirmed
  /\ UNCHANGED <<confirmed, staged, pending, left, todo, flash>>

DraftDiscard(t) ==
  /\ Called(t) /\ draft # NoDraft
  /\ draft' = NoDraft
  /\ UNCHANGED <<confirmed, staged, pending, left, todo, flash>>

\* What a call makes of the draft: another setting or list of rules.
Redrafts ==
  LET r == draft.rules
      Lists1 == {Append(r, x) : x \in {y \in Rules : Len(r) < MaxRules}}
        \cup {ReplaceAt(r, i, x) : i \in 1..Len(r), x \in Rules}
        \cup {Moved(r, i, j) : i \in 1..Len(r), j \in 1..Len(r)}
        \cup {RemoveAt(r, i) : i \in 1..Len(r)}
  IN  {[draft EXCEPT !.on = on] : on \in BOOLEAN}
        \cup {[draft EXCEPT !.rules = l] : l \in Lists1}

DraftChange(t) ==
  /\ Called(t) /\ draft # NoDraft
  /\ draft' \in Redrafts
  /\ UNCHANGED <<confirmed, staged, pending, left, todo, flash>>

DraftGates ==
  /\ draft.on
  /\ IF confirmed.on THEN ~SameMgmt(draft.rules, confirmed.rules)
     ELSE \E i \in Places(draft) : Active(draft.rules[i])

DraftApply(t) ==
  /\ Called(t) /\ draft # NoDraft /\ ~pending
  /\ IF DraftGates THEN Try(draft) /\ UNCHANGED <<confirmed, todo>> ELSE Adopt(t, draft)
  /\ draft' = NoDraft
  /\ UNCHANGED flash

-----------------------------------------------------------------------------
Save(t) ==
  /\ t \in todo
  /\ flash' = confirmed /\ todo' = todo \ {t}
  /\ UNCHANGED <<confirmed, staged, pending, left, draft, calls>>

\* A save for the sake of any other setting.
SaveElsewhere(t) ==
  /\ Called(t) /\ flash' = confirmed
  /\ UNCHANGED <<confirmed, staged, pending, left, draft, todo>>

\* A backup is loaded: no draft and no change on trial is asked for.
Restore(t, acl) ==
  /\ Called(t) /\ confirmed' = acl /\ todo' = todo \cup {t}
  /\ UNCHANGED <<staged, pending, left, draft, flash>>

TimePasses ==
  /\ pending /\ left > 0 /\ left' = left - 1
  /\ UNCHANGED <<confirmed, staged, pending, draft, todo, flash, calls>>

\* Mutant: only a list that was on already is taken back.
TickOn ==
  /\ pending /\ left = 0 /\ confirmed.on /\ pending' = FALSE
  /\ UNCHANGED <<confirmed, staged, left, draft, todo, flash, calls>>
\* ip_acl_tick in the main loop.
Tick ==
  /\ pending /\ left = 0 /\ pending' = FALSE
  /\ UNCHANGED <<confirmed, staged, left, draft, todo, flash, calls>>

Reboot ==
  /\ calls < MaxCalls /\ calls' = calls + 1
  /\ confirmed' = flash /\ staged' = Off /\ draft' = NoDraft
  /\ pending' = FALSE /\ left' = 0 /\ todo' = {}
  /\ UNCHANGED flash

RuleCall(t) ==
  \/ \E on \in BOOLEAN : SetEnabled(t, on)
  \/ \E r \in Rules : RuleAdd(t, r)
  \/ \E i \in Places(confirmed) :
       \/ \E on \in BOOLEAN : RuleSetEnabled(t, i, on)
       \/ \E r \in Rules : RuleEdit(t, i, r)
       \/ \E j \in Places(confirmed) : RuleMove(t, i, j)
       \/ RuleDelete(t, i)

DraftCall(t) == DraftBegin(t) \/ DraftDiscard(t) \/ DraftChange(t) \/ DraftApply(t)

Next ==
  \/ \E t \in Tasks :
       \/ RuleCall(t) \/ Confirm(t) \/ DraftCall(t) \/ Save(t) \/ SaveElsewhere(t)
       \/ \E acl \in Backups : Restore(t, acl)
  \/ TimePasses \/ Tick \/ Reboot

Spec == Init /\ [][Next]_vars
\* Time passes, and the main loop goes round.
FairSpec == Spec /\ WF_vars(TimePasses) /\ WF_vars(Tick)

-----------------------------------------------------------------------------
TypeOK ==
  /\ confirmed \in Acls /\ staged \in Acls /\ flash \in Acls
  /\ draft \in Acls \cup {NoDraft}
  /\ pending \in BOOLEAN /\ left \in 0..Timeout
  /\ todo \subseteq Tasks /\ calls \in 0..MaxCalls

Deliberate == (\E t \in Tasks : Confirm(t) \/ \E acl \in Backups : Restore(t, acl)) \/ Reboot

\* Whoever can reach HTTP or Telnet by the confirmed list goes on to: only a
\* confirmation, a restored backup or a restart takes it away, whatever rules
\* are added, edited, moved, deleted or drafted without a trial
\* ("kan aldrig forarsage ny lockout", the gates of ip_acl.cpp).
MgmtNeverCloses ==
  [][~Deliberate => \A a \in Addresses, s \in Mgmt :
                       Allowed(confirmed, a, s) => Allowed(confirmed', a, s)]_vars

\* Somebody whom a change on trial has shut out is let in again, unless the
\* change is confirmed or a backup is loaded in the meantime.
LockOutEnds ==
  \A a \in Addresses, s \in Mgmt :
    ~Check(a, s) /\ Allowed(confirmed, a, s)
      ~> Check(a, s) \/ ~Allowed(confirmed, a, s)
=============================================================================
