------------------------------- MODULE MCMSI --------------------------------
(***************************************************************************)
(* Instances of MSI for the model checker.  A block's contents count the   *)
(* stores merged into it, modulo the number of values.                     *)
(***************************************************************************)
EXTENDS MSI, TLC

CONSTANTS c1, c2, c3, d1, x, y, z

MCMerge == [v \in DataBlk |-> IF v = None THEN 0 ELSE (v + 1) % Cardinality(Value)]

MCInitialBlk == [a \in Addr |-> 0]

OneDir == [a \in Addr |-> d1]

-----------------------------------------------------------------------------
(* Access patterns.  With Assoc = 1 an access to y or z evicts x.          *)

\* All read and write x, and write y.
SharedLines == (Cache \X {x} \X {"Load", "Store"}) \cup (Cache \X {y} \X {"Store"})

\* The caches are interchangeable in SharedLines.
AnyCache == Permutations(Cache)

\* x is shared and written by all; c1 evicts it by reading y and c2 by reading z.
SharedEvicted ==
  (Cache \X {x} \X {"Load", "Store"}) \cup {<<c1, y, "Load">>, <<c2, z, "Load">>}

\* All write x and y, and every write evicts the other line.
StoresOnly == Cache \X Addr \X {"Store"}

\* c1 writes x and keeps it; the others read x and evict it by reading z.
ReadersEvict ==
  {<<c1, x, "Load">>, <<c1, x, "Store">>} \cup ((Cache \ {c1}) \X {x, z} \X {"Load"})

\* c1 writes x and evicts it; c2 reads x.
WriterEvicts ==
  {<<c1, x, "Load">>, <<c1, x, "Store">>, <<c1, y, "Load">>, <<c2, x, "Load">>}

\* c1 writes x, evicts it and reads it again, while c2 writes x and c3 reads it.
WriterReturns ==
  {<<c1, x, "Store">>, <<c1, y, "Load">>, <<c1, x, "Load">>, <<c2, x, "Store">>, <<c3, x, "Load">>}
=============================================================================
