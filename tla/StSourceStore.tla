--------------------------- MODULE StSourceStore ---------------------------
(***************************************************************************)
(* What the ST source pool promises: a named text per program, bounded     *)
(* only by the sum of their sizes.  Replacing a program's text first drops *)
(* the old one, and the new one is refused exactly when the texts of the   *)
(* other programs leave too little room.                                   *)
(***************************************************************************)
EXTENDS Integers, FiniteSets

CONSTANTS Programs,  \* program slots, numbered from 0
          Texts,     \* source texts
          NoText,    \* an empty slot
          SizeOf,    \* bytes of a text
          PoolSize   \* bytes in the pool

VARIABLES stored,    \* program -> its text or NoText
          pending    \* the request in progress: [p, t]

storeVars == <<stored, pending>>

NoRequest == [p |-> NoText, t |-> NoText]

Total(f) ==
  LET upTo[i \in 0 .. Cardinality(Programs)] ==
        IF i = 0 THEN 0 ELSE upTo[i - 1] + f[i - 1]
  IN upTo[Cardinality(Programs)]

Used == Total([p \in Programs |-> IF stored[p] = NoText THEN 0 ELSE SizeOf[stored[p]]])

Init == stored = [p \in Programs |-> NoText] /\ pending = NoRequest

\* A request to store t (or, with NoText, to delete) drops the old text.
Request(p, t) == /\ pending = NoRequest
                 /\ stored' = [stored EXCEPT ![p] = NoText]
                 /\ pending' = [p |-> p, t |-> t]

Accept == /\ pending.t # NoText
          /\ Used + SizeOf[pending.t] <= PoolSize
          /\ stored' = [stored EXCEPT ![pending.p] = pending.t]
          /\ pending' = NoRequest

Refuse == /\ pending.t # NoText
          /\ Used + SizeOf[pending.t] > PoolSize
          /\ pending' = NoRequest
          /\ UNCHANGED stored

Deleted == /\ pending # NoRequest /\ pending.t = NoText
           /\ pending' = NoRequest
           /\ UNCHANGED stored

Next == \/ \E p \in Programs, t \in Texts \cup {NoText} : Request(p, t)
        \/ Accept \/ Refuse \/ Deleted

\* Every request is answered.
Spec == Init /\ [][Next]_storeVars /\ WF_storeVars(Accept \/ Refuse \/ Deleted)
=============================================================================
