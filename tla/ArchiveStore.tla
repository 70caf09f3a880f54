---------------------------- MODULE ArchiveStore ----------------------------
(***************************************************************************)
(* What a cache of extracted archives promises about one archive, with no   *)
(* directories and no staging: the entry is absent until it is whole, it    *)
(* stays whole, and a call that reads the archive's license details answers *)
(* with all of them or says that it failed.                                 *)
(***************************************************************************)
CONSTANT Procs

VARIABLES
  store,       \* "absent" or "whole"
  said         \* what the call of each process has said so far

storeVars == <<store, said>>

Init ==
  /\ store = "absent"
  /\ said = [p \in Procs |-> "nothing"]

\* The archive is extracted into the cache.
Keep ==
  /\ store = "absent"
  /\ store' = "whole"
  /\ UNCHANGED said

\* From the cache or from an archive just extracted, the answer is whole.
Answer(p) ==
  /\ said[p] = "nothing"
  /\ said' = [said EXCEPT ![p] = "whole"]
  /\ UNCHANGED store

Refuse(p) ==
  /\ said[p] = "nothing"
  /\ said' = [said EXCEPT ![p] = "failed"]
  /\ UNCHANGED store

\* The process ends, or is killed and run again.
Restart(p) ==
  /\ said' = [said EXCEPT ![p] = "nothing"]
  /\ UNCHANGED store

Next == Keep \/ \E p \in Procs : Answer(p) \/ Refuse(p) \/ Restart(p)

Spec == Init /\ [][Next]_storeVars
=============================================================================
