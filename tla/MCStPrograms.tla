---------------------------- MODULE MCStPrograms ----------------------------
(***************************************************************************)
(* Small instances of StPrograms: two program slots, texts that use one    *)
(* global, the other or none, one that does not compile, and GLOBAL_VAR    *)
(* blocks that declare the two names in both orders, one of them or        *)
(* nothing that compiles.                                                  *)
(***************************************************************************)
EXTENDS StPrograms

CONSTANTS plain, usesA, usesB, wrong,    \* texts
          a, b,                          \* globals
          blockAB, blockBA, blockA, blockBad

MCSizeOf == [t \in Texts |-> IF t \in {usesA, wrong} THEN 1 ELSE 2]
MCUsesOf == [t \in Texts |-> CASE t = usesA -> a [] t = usesB -> b [] OTHER -> NoName]
MCIrNeed == [t \in Texts |-> IF t = usesA THEN 1 ELSE IF t = usesB THEN 2 ELSE 0]
MCLayoutOf == [g \in GTexts \cup {NoGlobals} |->
                 CASE g = blockAB -> <<a, b>> [] g = blockBA -> <<b, a>>
                   [] g = blockA -> <<a>> [] g = NoGlobals -> <<>>
                   [] OTHER -> Broken]
MCBackups ==
  {[g |-> blockBA, t |-> [p \in Programs |-> IF p = 1 THEN wrong ELSE usesA]],
   [g |-> NoGlobals, t |-> [p \in Programs |-> IF p = 0 THEN plain ELSE NoText]]}
=============================================================================
