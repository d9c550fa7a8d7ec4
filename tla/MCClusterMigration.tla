------------------------- MODULE MCClusterMigration -------------------------
(* Masters 1 and 2, two keys in slot 2, which moves from 2, whose configEpoch
   is the larger one, to 1; 2 has slots 2 and 3 and so remains a master. *)
EXTENDS ClusterMigration

Member(n) ==
    [me |-> n, cur |-> 2, vote |-> 0, state |-> TRUE,
     owner |-> [s \in Slot |-> IF s = 1 THEN 1 ELSE 2],
     imp |-> [s \in Slot |-> NoNode], mig |-> [s \in Slot |-> NoNode],
     db |-> [k \in Key |-> IF n = 2 /\ k = 1 THEN 1 ELSE 0],
     view |-> [m \in Node |-> [slaveof |-> NoNode, ce |-> m, fail |-> "none", reports |-> {}]],
     auth |-> NoElection, mf |-> NoManualFailover, off |-> 1, paused |-> FALSE]

Masters == [n \in Node |-> Member(n)]
BothInSlot2 == [k \in Key |-> 2]
PingBoth == {<<1, 2>>, <<2, 1>>}
=============================================================================
