------------------------------ MODULE MCCluster ------------------------------
(* Three masters with a slot each; the other nodes are slaves. *)
EXTENDS Cluster

(* Node n of a cluster in which slaveof says who replicates whom, cur is the
   epoch of everybody and the nodes in failed are flagged by the others. *)
Member(n, slaveof, cur, failed) ==
    [me |-> n, cur |-> cur, vote |-> 0, state |-> failed = {},
     owner |-> [s \in Slot |-> s],
     imp |-> [s \in Slot |-> NoNode], mig |-> [s \in Slot |-> NoNode],
     db |-> [k \in Key |-> 0],
     view |-> [m \in Node |-> [slaveof |-> slaveof[m],
                               ce |-> IF slaveof[m] = NoNode THEN m ELSE slaveof[m],
                               fail |-> IF m \in failed \ {n} THEN "fail" ELSE "none",
                               reports |-> {}]],
     auth |-> NoElection, mf |-> NoManualFailover, off |-> 1, paused |-> FALSE]

Calm == [suspects |-> {}, links |-> {}, commands |-> {}, crash |-> {},
         writes |-> {}, packets |-> 2]

Start(slaveof, cur, failed, env0) ==
    [node |-> [n \in Node |-> Member(n, slaveof, cur, failed)], down |-> failed, env |-> env0]

(* The same with other nodes away, unnoticed. *)
Away(start, nodes) == [start EXCEPT !.down = @ \cup nodes]

(* Node 1 is dead and flagged FAIL. Its slaves 4 and 5 have both waited and now
   compete for the only epoch left; or 5 replicates 2, and 4 has a second
   attempt, and is told to force a failover. *)
Contest ==
    LET start == Start(<<0, 0, 0, 1, 1>>, 4, {1},
                    [Calm EXCEPT !.crash = {2}])
    IN {[start EXCEPT !.node[4].auth.phase = "open", !.node[5].auth.phase = "open"]}

Retry ==
    {Start(<<0, 0, 0, 1, 2>>, 3, {1}, [Calm EXCEPT
        !.crash = {2}, !.commands = {<<4, "force">>}])}

(* 4 is told to take over from 1, its master. *)
Handover ==
    {Away(Start(<<0, 0, 0, 1, 2>>, 4, {}, [Calm EXCEPT
        !.links = {<<1, 4>>}, !.commands = {<<4, "agreed">>}, !.writes = {1}]), {3, 5})}

(* 4 takes over by itself while others still hear of 1. *)
Takeover ==
    {Away(Start(<<0, 0, 0, 1, 2>>, 4, {}, [Calm EXCEPT
        !.links = {<<1, 2>>, <<4, 1>>}, !.commands = {<<4, "takeover">>}]), {5})}

(* 2, or also 3, does not hear of 1, for a while. *)
Detection ==
    {Away(Start(<<0, 0, 0, 1, 2>>, 4, {}, [Calm EXCEPT
        !.suspects = who \X {1}, !.links = {<<2, 3>>, <<3, 1>>}]), {4, 5}) :
      who \in {{2}, {2, 3}}}

All == Contest \cup Retry \cup Handover \cup Takeover \cup Detection

NoKeySlot == [k \in {} |-> 0]
=============================================================================
