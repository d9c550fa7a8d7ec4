--------------------------- MODULE ClusterMigration ---------------------------
(***************************************************************************)
(* A hash slot moves from one master to another while clients use its keys:*)
(* redis-cli (clusterManagerMoveSlot) opens the slot on both sides, has the*)
(* source MIGRATE the keys and then tells every master the new owner; the  *)
(* nodes answer commands with their data, MOVED, ASK or an error           *)
(* (getNodeByQuery) and hear of each other by heartbeats (ClusterNode).    *)
(* MIGRATE blocks its node until the target answered or timed out, so it   *)
(* is one step of both nodes.                                              *)
(***************************************************************************)
EXTENDS ClusterNode

CONSTANTS
    Source, Target, \* the masters the slot moves between
    TheSlot,        \* the slot that moves
    Client,         \* clients
    InitCluster,    \* the node records at the start
    Pings,          \* pairs <<n, m>> such that n pings m
    MaxVersion,     \* bound on the writes
    MaxEpoch        \* bound on currentEpoch

(* The cluster redis-cli found in order (clusterManagerCheckCluster): nodes agree on
   the owner of every slot and on the roles, no slot is open, keys are where they
   belong. Masters have configEpochs of their own that all nodes have heard of
   (clusterHandleConfigEpochCollision). The source has another slot: it does not
   become a slave of the target. *)
Home(s) == InitCluster[Source].owner[s]
Role(n) == InitCluster[n].view[n].slaveof
Epoch(n) == InitCluster[n].view[n].ce

ASSUME MoveAssumption ==
    /\ Source \in Node /\ Target \in Node /\ Source # Target /\ TheSlot \in Slot
    /\ Home(TheSlot) = Source /\ \E s \in Slot \ {TheSlot} : Home(s) = Source
    /\ Role(Source) = NoNode /\ Role(Target) = NoNode
    /\ \A p \in Pings : p[1] # p[2]
    /\ IsFiniteSet(Key)

ASSUME InitAssumption ==
    /\ DOMAIN InitCluster = Node
    /\ \A s \in Slot : Home(s) \in Node /\ Role(Home(s)) = NoNode
    /\ \A n, m \in Node : n # m /\ Role(n) = NoNode /\ Role(m) = NoNode => Epoch(n) # Epoch(m)
    /\ \A n \in Node :
         /\ NodeOK(InitCluster[n]) /\ InitCluster[n].me = n
         /\ InitCluster[n].db \in [Key -> Nat]
         /\ InitCluster[n].imp = [s \in Slot |-> NoNode]
         /\ InitCluster[n].mig = [s \in Slot |-> NoNode]
         /\ \A s \in Slot : InitCluster[n].owner[s] = Home(s)
         /\ \A m \in Node : /\ InitCluster[n].view[m].slaveof = Role(m)
                            /\ Role(m) = NoNode => InitCluster[n].view[m].ce = Epoch(m)
         /\ \A k \in Key : InitCluster[n].db[k] # 0 => n = Home(KeySlot[k])

VARIABLES
    node,    \* the records of module ClusterNode
    net,     \* at most one heartbeat or UPDATE in flight
    cli,     \* redis-cli: where it is, the keys it read, the masters to tell
    client,  \* per client: its command, the node it asks next, with ASKING?
    version, \* the number of writes so far
    latest,  \* per key the version of the last write, 0 when deleted or never set
    unsure,  \* what went wrong: "lost", a MIGRATE timed out after its target had
             \* stored the keys; "closed", the operator closed the slot half way;
             \* "disowned", and the source did after the target took the slot
    stale    \* some client was served a value that was not the latest one

vars == <<node, net, cli, client, version, latest, unsure, stale>>

Idle == [op |-> "idle", keys |-> {}, at |-> NoNode, asking |-> FALSE]

Init ==
    /\ node = InitCluster
    /\ net = {}
    /\ cli = [pc |-> "importing", keys |-> {}, tell |-> {m \in Node : IsMaster(node[m], m)}]
    /\ client = [c \in Client |-> Idle]
    /\ version = 1
    /\ latest = [k \in Key |-> node[Home(KeySlot[k])].db[k]]
    /\ unsure = {} /\ stale = FALSE
-----------------------------------------------------------------------------
(* CLUSTER SETSLOT: the new record, or the old one when it replies an error. *)

SetSlotMigrating(nd, s, n) ==
    IF IsMaster(nd, nd.me) /\ nd.owner[s] = nd.me THEN [nd EXCEPT !.mig[s] = n] ELSE nd

SetSlotImporting(nd, s, n) ==
    IF IsMaster(nd, nd.me) /\ nd.owner[s] # nd.me THEN [nd EXCEPT !.imp[s] = n] ELSE nd

SetSlotStable(nd, s) ==
    IF IsMaster(nd, nd.me) THEN [nd EXCEPT !.imp[s] = NoNode, !.mig[s] = NoNode] ELSE nd

SetSlotKeysLeft(nd, s, n) ==
    nd.owner[s] = nd.me /\ n # nd.me /\ CountKeysInSlot(nd, s) # 0

(* Faulty: the importing node keeps its configEpoch. *)
FaultySetSlotNode(nd, s, n) ==
    [nd EXCEPT !.owner[s] = n, !.imp[s] = NoNode, !.mig[s] = NoNode]

(* SETSLOT NODE closes the slot; a node that imported it takes a new epoch so
   that its claim wins. *)
SetSlotNode(nd, s, n) ==
    LET shut == IF CountKeysInSlot(nd, s) = 0 THEN [nd EXCEPT !.mig[s] = NoNode] ELSE nd
        taken == IF n = nd.me /\ nd.imp[s] # NoNode
                 THEN [clusterBumpConfigEpochWithoutConsensus(shut) EXCEPT !.imp[s] = NoNode]
                 ELSE shut
    IN IF IsSlave(nd, nd.me) \/ SetSlotKeysLeft(nd, s, n) THEN nd
       ELSE clusterAddSlot(clusterDelSlot(taken, s), n, s)
-----------------------------------------------------------------------------
(* Which node serves a command: getNodeByQuery. *)

Answer(err, n) == [err |-> err, to |-> n]

(* Faulty: a migrating slot is served as if all its keys were here. *)
FaultyGetNodeByQuery(nd, keys, asking, migrate) ==
    LET s == KeySlot[CHOOSE k \in keys : TRUE]
        n == nd.owner[s]
    IN IF asking /\ nd.imp[s] # NoNode THEN Answer("none", nd.me)
       ELSE Answer(IF n = nd.me THEN "none" ELSE "MOVED", n)

getNodeByQuery(nd, keys, asking, migrate) ==
    LET s == KeySlot[CHOOSE k \in keys : TRUE]
        n == nd.owner[s]
        migrating == n = nd.me /\ nd.mig[s] # NoNode
        importing == ~migrating /\ nd.imp[s] # NoNode
        missing == \E k \in keys : nd.db[k] = 0
    IN IF n = NoNode THEN Answer("CLUSTERDOWN", NoNode)
       ELSE IF \E k \in keys : KeySlot[k] # s THEN Answer("CROSSSLOT", NoNode)
       ELSE IF ~nd.state THEN Answer("CLUSTERDOWN", NoNode)
       ELSE IF (migrating \/ importing) /\ migrate THEN Answer("none", nd.me)
       ELSE IF migrating /\ missing THEN Answer("ASK", nd.mig[s])
       ELSE IF importing /\ asking /\ Cardinality(keys) > 1 /\ missing
            THEN Answer("TRYAGAIN", NoNode)
       ELSE IF importing /\ asking THEN Answer("none", nd.me)
       ELSE Answer(IF n = nd.me THEN "none" ELSE "MOVED", n)

(* A client sends a command to some node, or follows a redirection. *)
SendCommand(c, op, keys, n) ==
    /\ client[c] = Idle
    /\ client' = [client EXCEPT ![c] = [op |-> op, keys |-> keys, at |-> n, asking |-> FALSE]]
    /\ UNCHANGED <<node, net, cli, version, latest, unsure, stale>>

(* What a served command does: GET compares, SET and DEL change the keys. *)
Serve(c, n) ==
    LET keys == client[c].keys
        new == CASE client[c].op = "get" -> 0 [] client[c].op = "del" -> 0
                 [] client[c].op = "set" -> version + 1
    IN IF client[c].op = "get"
       THEN /\ stale' = (stale \/ \E k \in keys : node[n].db[k] # latest[k])
            /\ UNCHANGED <<node, version, latest>>
       ELSE /\ version < MaxVersion
            /\ version' = version + 1
            /\ latest' = [k \in Key |-> IF k \in keys THEN new ELSE latest[k]]
            /\ node' = [node EXCEPT ![n].db =
                            [k \in Key |-> IF k \in keys THEN new ELSE @[k]]]
            /\ UNCHANGED stale

Execute(c) ==
    LET n == client[c].at
        a == getNodeByQuery(node[n], client[c].keys, client[c].asking, FALSE)
    IN /\ client[c] # Idle
       /\ IF a.err = "none" THEN Serve(c, n)
          ELSE UNCHANGED <<node, version, latest, stale>>
       /\ client' = [client EXCEPT ![c] =
            IF a.err \in {"ASK", "MOVED"}
            THEN [@ EXCEPT !.at = a.to, !.asking = a.err = "ASK"] ELSE Idle]
       /\ UNCHANGED <<net, cli, unsure>>
-----------------------------------------------------------------------------
(* redis-cli *)

(* It gives up when it is killed or gets an error. *)
GiveUp ==
    /\ cli.pc \notin {"done", "failed"}
    /\ cli' = [cli EXCEPT !.pc = "failed"]
    /\ UNCHANGED <<node, net, client, version, latest, unsure, stale>>

Reply(nd, old, pc) == [cli EXCEPT !.pc = IF nd = old THEN "failed" ELSE pc]

OpenTarget ==
    LET nd == SetSlotImporting(node[Target], TheSlot, Source)
    IN /\ cli.pc = "importing"
       /\ node' = [node EXCEPT ![Target] = nd]
       /\ cli' = Reply(nd, node[Target], "migrating")
       /\ UNCHANGED <<net, client, version, latest, unsure, stale>>

OpenSource ==
    LET nd == SetSlotMigrating(node[Source], TheSlot, Target)
    IN /\ cli.pc = "migrating"
       /\ node' = [node EXCEPT ![Source] = nd]
       /\ cli' = Reply(nd, node[Source], "keys")
       /\ UNCHANGED <<net, client, version, latest, unsure, stale>>

(* CLUSTER GETKEYSINSLOT with a pipeline of one key. *)
GetKeysInSlot ==
    LET held == {k \in Key : KeySlot[k] = TheSlot /\ node[Source].db[k] # 0}
    IN /\ cli.pc = "keys"
       /\ IF held = {} THEN cli' = [cli EXCEPT !.pc = "setnode"]
          ELSE \E k \in held : cli' = [cli EXCEPT !.pc = "migrate", !.keys = {k}]
       /\ UNCHANGED <<node, net, client, version, latest, unsure, stale>>

(* The target's side of MIGRATE: RESTORE-ASKING without REPLACE. *)
restoreCommand(nd, k, v) ==
    IF getNodeByQuery(nd, {k}, TRUE, FALSE).err = "none" /\ nd.db[k] = 0
    THEN [nd EXCEPT !.db[k] = v] ELSE nd

(* Faulty: the keys are deleted without waiting for the target. *)
FaultyMigrate(lost) ==
    LET k == CHOOSE x \in cli.keys : TRUE
        there == IF lost THEN node[Target]
                 ELSE restoreCommand(node[Target], k, node[Source].db[k])
    IN /\ cli.pc = "migrate"
       /\ node' = [node EXCEPT ![Target] = there, ![Source].db[k] = 0]
       /\ cli' = [cli EXCEPT !.pc = "keys"]
       /\ UNCHANGED <<net, client, version, latest, unsure, stale>>

(* MIGRATE of the keys read before: those that are gone are skipped, the others
   are deleted here once the target stored them. lost: the answer does not
   arrive in time. *)
migrateCommand(lost) == \E k \in cli.keys :
    LET v == node[Source].db[k]
        there == restoreCommand(node[Target], k, v)
        served == getNodeByQuery(node[Source], {k}, FALSE, TRUE).err = "none"
        stored == there # node[Target]
    IN /\ cli.pc = "migrate"
       /\ IF ~served \/ v = 0
          THEN /\ cli' = [cli EXCEPT !.pc = IF served THEN "keys" ELSE "failed"]
               /\ UNCHANGED <<node, unsure>>
          ELSE /\ node' = [node EXCEPT ![Target] = there,
                                       ![Source].db[k] = IF stored /\ ~lost THEN 0 ELSE v]
               /\ unsure' = unsure \cup {x \in {"lost"} : stored /\ lost}
               /\ cli' = [cli EXCEPT !.pc = IF stored /\ ~lost THEN "keys" ELSE "failed"]
       /\ UNCHANGED <<net, client, version, latest, stale>>

(* CLUSTER SETSLOT NODE to the masters, one after the other, in list order. *)
SetNode(n) ==
    LET nd == SetSlotNode(node[n], TheSlot, Target)
        rest == cli.tell \ {n}
    IN /\ cli.pc = "setnode" /\ n \in cli.tell
       /\ nd.cur <= MaxEpoch
       /\ node' = [node EXCEPT ![n] = clusterUpdateState(nd)]
       /\ cli' = [cli EXCEPT !.tell = rest,
                    !.pc = IF SetSlotKeysLeft(node[n], TheSlot, Target) THEN "failed"
                           ELSE IF rest = {} THEN "done" ELSE "setnode"]
       /\ UNCHANGED <<net, client, version, latest, unsure, stale>>

(* After a failure the operator closes the slot on both sides. *)
Stable(n) ==
    /\ cli.pc = "failed" /\ n \in {Source, Target}
    /\ node' = [node EXCEPT ![n] = SetSlotStable(@, TheSlot)]
    /\ node' # node
    /\ unsure' = unsure \cup {"closed"} \cup
           {x \in {"disowned"} : n = Source /\ node[Target].owner[TheSlot] = Target}
    /\ UNCHANGED <<net, cli, client, version, latest, stale>>
-----------------------------------------------------------------------------
(* The cluster bus. *)
Ping(n, m) ==
    /\ <<n, m>> \in Pings /\ net = {}
    /\ net' = clusterSendPing(node[n], "PING", m)
    /\ UNCHANGED <<node, cli, client, version, latest, unsure, stale>>

Receive(p) ==
    LET r == clusterProcessPacket(node[p.dst], p, FALSE, FALSE)
    IN /\ r.nd.cur <= MaxEpoch
       /\ node' = [node EXCEPT ![p.dst] = clusterUpdateState(r.nd)]
       /\ net' = {q \in r.out : q.type = "UPDATE"} \* other answers are lost
       /\ UNCHANGED <<cli, client, version, latest, unsure, stale>>

Next ==
    \/ \E c \in Client, op \in {"get", "set", "del"}, keys \in (SUBSET Key) \ {{}}, n \in Node :
         SendCommand(c, op, keys, n)
    \/ \E c \in Client : Execute(c)
    \/ GiveUp \/ OpenTarget \/ OpenSource \/ GetKeysInSlot
    \/ \E lost \in BOOLEAN : migrateCommand(lost)
    \/ \E n \in Node : SetNode(n) \/ Stable(n)
    \/ \E n, m \in Node : Ping(n, m)
    \/ \E p \in net : Receive(p)

Spec == Init /\ [][Next]_vars
-----------------------------------------------------------------------------

(* Whatever the order of the commands of redis-cli, of redirections and of
   heartbeats, and wherever redis-cli is stopped, the latest value of a key is
   held by some node (migrateCommand, clusterUpdateSlotsConfigWith): unless the
   operator made the source close a slot that the target had taken already. The
   source then serves writes again, and deletes them when it hears of the new
   owner. *)
LatestValueIsKept ==
    "disowned" \notin unsure => \A k \in Key : latest[k] # 0 => \E n \in Node : node[n].db[k] = latest[k]

(* As long as no MIGRATE timed out and no slot was closed half way, a client that follows MOVED and
   ASK is never served an old value (getNodeByQuery). *)
ServedValuesAreLatest == unsure = {} => ~stale

(* When redis-cli is done every master that was told agrees, the slot is closed
   and the old owner keeps no key of it. *)
MoveIsComplete ==
    cli.pc = "done" =>
        /\ node[Target].owner[TheSlot] = Target
        /\ node[Source].owner[TheSlot] = Target /\ CountKeysInSlot(node[Source], TheSlot) = 0
        /\ \A n \in {Source, Target} : node[n].imp[TheSlot] = NoNode /\ node[n].mig[TheSlot] = NoNode
=============================================================================
