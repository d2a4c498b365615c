--------------------------- MODULE MSIRefinement ----------------------------
(***************************************************************************)
(* MSI implements CoherentMemory.  The memory is the history of completed  *)
(* stores, the pending accesses are the sequencers' tables, and a history  *)
(* variable records what each completed load hands to its processor: the   *)
(* block of the cache entry at the time of the callback.                   *)
(***************************************************************************)
EXTENDS MSI

VARIABLE reply

LoadCompletes(c, a) == requestTable[c][a] = "Load" /\ requestTable'[c][a] = "None"

ReplyInit == Init /\ reply = None

ReplyNext ==
  /\ Next
  /\ \/ \E c \in Cache, a \in Addr :
          /\ LoadCompletes(c, a)
          /\ reply' = [cache |-> c, addr |-> a, blk |-> entryBlk'[c][a]]
     \/ /\ \A c \in Cache, a \in Addr : ~LoadCompletes(c, a)
        /\ UNCHANGED reply

ReplySpec == ReplyInit /\ [][ReplyNext]_<<vars, reply>> /\ Fairness

Promise == INSTANCE CoherentMemory
  WITH memory <- lastWritten, pending <- requestTable

\* Every access is answered as one memory would answer it, and is answered:
\* loads return the latest contents of the line at the time they complete,
\* whichever cache, directory or message held them.
ImplementsCoherentMemory == Promise!AbsSpec
=============================================================================
