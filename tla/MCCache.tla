------------------------------ MODULE MCCache -------------------------------
(***************************************************************************)
(* An instance of the cache for the model checker: tags are hashed to two  *)
(* chains by their lowest bit.                                             *)
(***************************************************************************)
EXTENDS Cache

MCHash(t) == t % 2

\* Two instructions that share an entry of a table of four: a load of two
\* blocks of one set and a store to one of them and to a block of the other set.
LoadAndStore ==
  ({4} \X {"Read"} \X {16, 20}) \cup ({8} \X {"Write"} \X {17, 22})

\* Every policy with every prefetcher, the open-ended one with LRU only.
AllConfigurations == ({0, 1, 4} \X {"LRU", "FIFO", "Random"}) \cup {<<2, "LRU">>}

\* A load of four blocks.
LoadOnly == {4} \X {"Read"} \X {16, 18, 20, 24}

OpenEnded == {<<2, "LRU">>}
=============================================================================
