--------------------------- MODULE MCReplication ---------------------------
(***************************************************************************)
(* Instances of Replication: servers that boot, and servers that have been *)
(* synchronized before anything was written, with the events that may still*)
(* happen to them.                                                         *)
(***************************************************************************)
EXTENDS Replication, TLC

Size == 2

(* host gives the master of each server. *)
Boot(host) == [s \in Server |-> Started(host[s], 0, Size, NoFile)]

Root(host, s) == host[s] = None
Replicas(host, m) == SetToSortSeq({s \in Server : host[s] = m}, <)
EmptyFile == [data |-> <<>>, id |-> 1, off |-> 0, db |-> 0]

(* Every replica has loaded the empty dataset of history 1. *)
Synced(host) ==
    [s \in Server |->
       LET r == createReplicationBacklog(
                  [Started(host[s], 1, Size, EmptyFile) EXCEPT
                     !.slaves = [i \in DOMAIN Replicas(host, s) |->
                                   Replica(Replicas(host, s)[i], "online")]])
       IN IF Root(host, s) THEN r
          ELSE [r EXCEPT !.state = "connected", !.master = MasterClient(1, 0, 0),
                         !.ini = [id |-> 1, off |-> 0]]]
Linked(host) ==
    [s \in Server |-> IF host[s] = None THEN NoLink
                      ELSE [NoLink EXCEPT !.to = host[s], !.open = TRUE]]

Budget(writes, pings, waits, faults, roles, configs) ==
    [writes |-> writes, pings |-> pings, waits |-> waits, faults |-> faults,
     roles |-> roles, configs |-> configs]

Booting(host, dl, b) ==
    [srv |-> Boot(host), link |-> [s \in Server |-> NoLink], diskless |-> dl, budget |-> b]
Running(host, dl, b) ==
    [srv |-> Synced(host), link |-> Linked(host), diskless |-> dl, budget |-> b]

Pair  == 1 :> None @@ 2 :> 1 @@ 3 :> None
Star  == 1 :> None @@ 2 :> 1 @@ 3 :> 1
Chain == 1 :> None @@ 2 :> 1 @@ 3 :> 2

One   == <<<<0, FALSE>>>>
Two   == <<<<0, FALSE>>, <<1, FALSE>>>>
Trans == <<<<0, TRUE>>>>

MCInits ==
    { Booting(Star, FALSE, Budget(One, 0, 0, 0, {}, 0)),
      Booting(Star, TRUE, Budget(One, 0, 0, 0, {}, 0)),
      Booting(Pair, FALSE, Budget(One, 0, 1, 1, {}, 0)),
      Booting(Pair, TRUE, Budget(One, 0, 1, 1, {}, 0)),
      Running(Pair, FALSE, Budget(Two, 0, 1, 1, {<<2, None>>, <<1, 2>>}, 0)),
      Running(Star, FALSE, Budget(Two, 0, 0, 0, {<<2, None>>, <<1, 2>>, <<3, 2>>}, 0)),
      Running(Chain, FALSE, Budget(Trans, 0, 0, 1, {}, 0)),
      Running(Chain, FALSE, Budget(One, 0, 0, 1, {<<2, None>>, <<3, 1>>}, 0)),
      Running(Pair, FALSE, Budget(Two, 1, 0, 1, {}, 1)),
      Running(Star, FALSE, Budget(One, 0, 1, 1, {}, 0)),
      Running(Pair, FALSE, Budget(Two, 0, 1, 0, {<<2, None>>, <<1, 2>>, <<1, None>>, <<2, 1>>}, 0)) }

(* A replica whose link breaks, and two servers that change roles twice. *)
MCWaits ==
    { Running(Pair, FALSE, Budget(One, 0, 1, 1, {}, 0)),
      Running(Pair, FALSE, Budget(Two, 0, 1, 0, {<<2, None>>, <<1, 2>>, <<1, None>>, <<2, 1>>}, 0)) }
=============================================================================
