---------------------------- MODULE SatmacLocks ----------------------------
(***************************************************************************)
(* Satmac with a history variable: the slots that the running              *)
(* synthesize_fi_list has locked, by ageing or in merge_fi.                *)
(***************************************************************************)
EXTENDS Satmac

VARIABLE fresh

LocksInit == Init /\ fresh = {}

NewlyLocked ==
  {c \in SlotIdx : \E n \in Node : Running(n) /\ ~fi[n][c].locker
                                              /\ fi'[n][c].locker}

LocksNext ==
  /\ Next
  /\ fresh' = IF pc' = "start" THEN {} ELSE fresh \cup NewlyLocked

LocksSpec == LocksInit /\ [][LocksNext]_<<vars, fresh>>

\* A slot freed and locked by synthesize_fi_list is still locked when the
\* station goes on to choose a slot ("lock the status for one frame").
FreshLocksKept ==
  \A n \in Node : Running(n) /\ pc = "decide" =>
    \A c \in fresh : fi[n][c].locker

=============================================================================
