--------------------------- MODULE MCTdmaControl ---------------------------
(***************************************************************************)
(* Constants for model checking TdmaControl on frames of two and four       *)
(* slots: the thresholds of tdma_control.v for four slots, scaled for two.  *)
(***************************************************************************)
EXTENDS TdmaControl

Cut == [l \in FrameLens |-> l \div 2]
Expand == [l \in FrameLens |-> 0]
Adj == [l \in FrameLens |-> 1]

Plain == {}
Lonely == {"randon_bch_if_single"}
Moving == {"slot_adj_ena"}
Adaptive == {"slot_adj_ena", "frame_adj_ena"}
AllSettings == {Plain, Lonely, Moving, Adaptive}
PlainOnly == {Plain}

\* Two FIs may fill the table, and the second take back what the first has
\* claimed; in the other settings an FI changes one entry.
Changes == [s \in SUBSET Switches |-> IF s = Plain THEN 2 ELSE 1]
Events == [s \in SUBSET Switches |-> IF s = Adaptive THEN 1 ELSE 2]
FewChanges == [s \in SUBSET Switches |-> 1]
TwoEvents == [s \in SUBSET Switches |-> 2]
=============================================================================
