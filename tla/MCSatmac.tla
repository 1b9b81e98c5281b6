------------------------------ MODULE MCSatmac ------------------------------
(***************************************************************************)
(* Constants for model checking Satmac on two or three stations.           *)
(***************************************************************************)
EXTENDS Satmac

\* Everybody hears everybody; or 1 and 3 only hear 2 (hidden stations).
Mesh == {l \in Node \X Node : l[1] # l[2]}
Line == {<<1, 2>>, <<2, 1>>, <<2, 3>>, <<3, 2>>}

\* Where the vehicles may drive: station 3 leaves the other two, or only
\* station 1; or everybody leaves everybody.
Nowhere == {}
ThreeLeaves == {{<<1, 2>>, <<2, 1>>}, Line}
Apart == {{}}

\* The same threshold for all frame lengths.
SameThreshold == [l \in FrameLens |-> AdjThreshold]

\* A fixed and an arbitrary value for uninitialised members.
NoSlot == {-1}
AnySlot == SlotIdx \cup {-1}
AnyLock == -1 .. BchLock
=============================================================================
