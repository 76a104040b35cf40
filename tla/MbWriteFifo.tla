---------------------------- MODULE MbWriteFifo ----------------------------
(***************************************************************************)
(* What the asynchronous master promises about writes, and no more: they   *)
(* reach the slaves one at a time and in the order in which they were      *)
(* accepted, each carrying the values it was accepted with, and none that  *)
(* was accepted is passed over.  A write may fail on the bus.              *)
(***************************************************************************)
EXTENDS Naturals, Sequences

CONSTANTS Addrs,   \* register addresses
          Zero,    \* what the registers hold at first
          Writes   \* write calls, records with addr, n and vals

VARIABLES todo,    \* the accepted writes that have not been tried
          dev      \* the registers of the slaves

fifoVars == <<todo, dev>>

After(w) == [a \in Addrs |-> IF a \in w.addr .. (w.addr + w.n - 1)
                             THEN w.vals[a - w.addr + 1] ELSE dev[a]]

Init == todo = <<>> /\ dev = [a \in Addrs |-> Zero]

Accept == /\ \E w \in Writes : todo' = Append(todo, w)
          /\ UNCHANGED dev

Try == /\ todo # <<>>
       /\ todo' = Tail(todo)
       /\ dev' \in {dev, After(Head(todo))}

Next == Accept \/ Try

Spec == Init /\ [][Next]_fifoVars
=============================================================================
