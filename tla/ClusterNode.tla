----------------------------- MODULE ClusterNode -----------------------------
(***************************************************************************)
(* The state one Redis Cluster node keeps about the cluster, and what each *)
(* function of src/redis-stable/src/cluster.c does to it.                  *)
(*                                                                         *)
(* A node record nd has the fields                                         *)
(*   me, cur (currentEpoch), vote (lastVoteEpoch), state (CLUSTER_OK?)     *)
(*   owner, imp, mig  slots[], importing_slots_from[], migrating_slots_to[]*)
(*   db               the version of every key held, 0 when absent         *)
(*   view             what it knows of every node: slaveof, ce             *)
(*                    (configEpoch), fail (no flag, PFAIL or FAIL) and the *)
(*                    masters that reported it (fail_reports)              *)
(*   auth             the election: phase, epoch, count, sent              *)
(*   mf               the manual failover: end, can, slave, off            *)
(*   off              the replication offset of its data set               *)
(*   paused           clients are paused (CLIENT PAUSE of a manual failover)*)
(* The slot bitmap of a node is {s : owner[s] = node}, its slaves[] are    *)
(* {s : view[s].slaveof = node}; the code keeps these copies in step.      *)
(* Membership is fixed: handshakes and addresses are not part of this      *)
(* module. Names are compared (memcmp), so nodes are numbers.              *)
(***************************************************************************)
EXTENDS Naturals, FiniteSets, FiniteSetsExt

CONSTANTS
    Node,    \* node names, numbers above 0
    Slot,    \* hash slots, numbers
    Key,     \* keys
    KeySlot  \* keyHashSlot of every key

ASSUME NodeAssumption == Node \subseteq Nat \ {0} /\ IsFiniteSet(Node)
ASSUME SlotAssumption == Slot \subseteq Nat /\ IsFiniteSet(Slot) /\ KeySlot \in [Key -> Slot]

NoNode == 0

(* What one node knows of another. *)
Knowledge == [slaveof : Node \cup {NoNode}, ce : Nat,
              fail : {"none", "pfail", "fail"}, reports : SUBSET Node]

(* A node record in order: it speaks of known nodes, it has voted in no epoch
   after its currentEpoch, knows no configEpoch and runs for no epoch after it. *)
NodeOK(nd) ==
    /\ DOMAIN nd = {"me", "cur", "vote", "state", "owner", "imp", "mig", "db",
                    "view", "auth", "mf", "off", "paused"}
    /\ nd.me \in Node
    /\ nd.cur \in Nat /\ nd.vote \in Nat /\ nd.vote <= nd.cur
    /\ nd.owner \in [Slot -> Node \cup {NoNode}]
    /\ nd.view \in [Node -> Knowledge]
    /\ \A m \in Node : nd.view[m].ce <= nd.cur
    /\ DOMAIN nd.auth = {"phase", "epoch", "count", "sent"}
    /\ nd.auth.epoch \in Nat /\ nd.auth.epoch <= nd.cur

IsMaster(nd, m) == nd.view[m].slaveof = NoNode
IsSlave(nd, m) == ~IsMaster(nd, m)
MyMaster(nd) == nd.view[nd.me].slaveof
NodeFailed(nd, m) == nd.view[m].fail = "fail"
NodeTimedOut(nd, m) == nd.view[m].fail = "pfail"
SlotsOf(nd, m) == {s \in Slot : nd.owner[s] = m}
SlavesOf(nd, m) == {s \in Node : nd.view[s].slaveof = m}
CountKeysInSlot(nd, s) == Cardinality({k \in Key : nd.db[k] # 0 /\ KeySlot[k] = s})
DelKeysInSlots(nd, S) == 
    [nd EXCEPT !.db = [k \in Key |-> IF KeySlot[k] \in S THEN 0 ELSE @[k]]]

(* What a call leaves behind: the node and the packets it queued. *)
Done(nd, out) == [nd |-> nd, out |-> out]
-----------------------------------------------------------------------------
(* The size of the cluster and its state. *)

Size(nd) == Cardinality({m \in Node : IsMaster(nd, m) /\ SlotsOf(nd, m) # {}})
NeededQuorum(nd) == (Size(nd) \div 2) + 1

(* clusterUpdateState: OK while every slot is bound to a node that is not
   failing and a majority of the masters with slots is reachable. *)
clusterUpdateState(nd) ==
    LET covered == \A s \in Slot : /\ nd.owner[s] # NoNode
                                   /\ ~NodeFailed(nd, nd.owner[s])
        reachable == {m \in Node : /\ IsMaster(nd, m)
                                   /\ SlotsOf(nd, m) # {}
                                   /\ nd.view[m].fail = "none"}
    IN [nd EXCEPT !.state = covered /\ Cardinality(reachable) >= NeededQuorum(nd)]

clusterAddSlot(nd, n, s) ==
    IF nd.owner[s] # NoNode THEN nd ELSE [nd EXCEPT !.owner[s] = n]

clusterDelSlot(nd, s) ==
    IF nd.owner[s] = NoNode THEN nd ELSE [nd EXCEPT !.owner[s] = NoNode]

clusterDelNodeSlots(nd, n) ==
    [nd EXCEPT !.owner = [s \in Slot |-> IF @[s] = n THEN NoNode ELSE @[s]]]

clusterCloseAllSlots(nd) ==
    [nd EXCEPT !.imp = [s \in Slot |-> NoNode], !.mig = [s \in Slot |-> NoNode]]

(* clusterDelSlot followed by clusterAddSlot, for every slot of S. *)
RebindSlots(nd, n, S) ==
    [nd EXCEPT !.owner = [s \in Slot |-> IF s \in S THEN n ELSE @[s]]]
-----------------------------------------------------------------------------
(* Epochs. *)

clusterGetMaxEpoch(nd) == Max({nd.cur} \cup {nd.view[m].ce : m \in Node})

clusterBumpConfigEpochWithoutConsensus(nd) ==
    IF nd.view[nd.me].ce = 0 \/ nd.view[nd.me].ce # clusterGetMaxEpoch(nd)
    THEN [nd EXCEPT !.cur = @ + 1, !.view[nd.me].ce = nd.cur + 1]
    ELSE nd

(* The copy of two masters with one configEpoch whose name is the smaller
   one takes a new epoch. *)
clusterHandleConfigEpochCollision(nd, sender) ==
    IF \/ nd.view[sender].ce # nd.view[nd.me].ce
       \/ IsSlave(nd, sender) \/ IsSlave(nd, nd.me)
       \/ sender <= nd.me
    THEN nd
    ELSE [nd EXCEPT !.cur = @ + 1, !.view[nd.me].ce = nd.cur + 1]
-----------------------------------------------------------------------------
(* The bus header, clusterBuildMessageHdr. A slave signs with the slots and
   the configEpoch of its master. *)

clusterBuildMessageHdr(nd, type, dst) ==
    LET master == IF IsSlave(nd, nd.me) THEN MyMaster(nd) ELSE nd.me
    IN [type |-> type, src |-> nd.me, dst |-> dst,
        cur |-> nd.cur, ce |-> nd.view[master].ce,
        slots |-> SlotsOf(nd, master), slaveof |-> MyMaster(nd),
        off |-> nd.off, paused |-> IsMaster(nd, nd.me) /\ nd.mf.end,
        force |-> FALSE, bad |-> {}, about |-> NoNode, data |-> {}, dataEpoch |-> 0]

Peers(nd) == Node \ {nd.me}

(* clusterSendPing: the gossip section of a cluster this small speaks of
   every other node; bad are the ones flagged PFAIL or FAIL. *)
clusterSendPing(nd, type, dst) ==
    {[clusterBuildMessageHdr(nd, type, dst) EXCEPT
        !.bad = {m \in Node \ {nd.me, dst} : nd.view[m].fail # "none"}]}

clusterBroadcastPong(nd) == UNION {clusterSendPing(nd, "PONG", m) : m \in Peers(nd)}

clusterSendFail(nd, n) ==
    {[clusterBuildMessageHdr(nd, "FAIL", m) EXCEPT !.about = n] : m \in Peers(nd)}

clusterSendUpdate(nd, dst, n) ==
    {[clusterBuildMessageHdr(nd, "UPDATE", dst) EXCEPT
        !.about = n, !.data = SlotsOf(nd, n), !.dataEpoch = nd.view[n].ce]}

clusterRequestFailoverAuth(nd) ==
    {[clusterBuildMessageHdr(nd, "AUTH_REQUEST", m) EXCEPT !.force = nd.mf.end] :
        m \in Peers(nd)}

clusterSendFailoverAuth(nd, dst) == {clusterBuildMessageHdr(nd, "AUTH_ACK", dst)}

clusterSendMFStart(nd, dst) == {clusterBuildMessageHdr(nd, "MFSTART", dst)}
-----------------------------------------------------------------------------
(* Failure reports. Reports that have expired leave the list at any time:
   ReportExpires in module Cluster. *)

clusterNodeAddFailureReport(nd, failing, sender) ==
    [nd EXCEPT !.view[failing].reports = @ \cup {sender}]

clusterNodeDelFailureReport(nd, node, sender) ==
    [nd EXCEPT !.view[node].reports = @ \ {sender}]

clusterNodeFailureReportsCount(nd, node) == Cardinality(nd.view[node].reports)

(* Faulty: the node's own suspicion is taken for granted. *)
FaultyMarkNodeAsFailing(nd, node) ==
    IF clusterNodeFailureReportsCount(nd, node) + 1 < NeededQuorum(nd) THEN Done(nd, {})
    ELSE Done([nd EXCEPT !.view[node].fail = "fail"], {})

markNodeAsFailingIfNeeded(nd, node) ==
    LET failures == clusterNodeFailureReportsCount(nd, node)
                        + (IF IsMaster(nd, nd.me) THEN 1 ELSE 0)
        failed == [nd EXCEPT !.view[node].fail = "fail"]
    IN IF ~NodeTimedOut(nd, node) \/ failures < NeededQuorum(nd)
       THEN Done(nd, {})
       ELSE Done(failed, IF IsMaster(nd, nd.me) THEN clusterSendFail(failed, node) ELSE {})

(* FAIL is undone at once for a slave or a master without slots; for a
   master with slots only long after it was set (late). *)
clearNodeFailureIfNeeded(nd, node, late) ==
    IF IsSlave(nd, node) \/ SlotsOf(nd, node) = {} \/ late
    THEN [nd EXCEPT !.view[node].fail = "none"]
    ELSE nd

(* The gossip section: reports of masters about the other nodes. Whether one
   node is marked does not depend on the marks of the others. *)
clusterProcessGossipSection(nd, hdr) ==
    LET about == Node \ {nd.me, hdr.src}
        noted == [nd EXCEPT !.view = [m \in Node |->
                    IF m \notin about THEN nd.view[m]
                    ELSE IF m \in hdr.bad
                         THEN [nd.view[m] EXCEPT !.reports = @ \cup {hdr.src}]
                         ELSE [nd.view[m] EXCEPT !.reports = @ \ {hdr.src}]]]
        suspected == about \cap hdr.bad
        marked(m) == markNodeAsFailingIfNeeded(noted, m)
    IN IF IsSlave(nd, hdr.src) THEN Done(nd, {})
       ELSE Done([noted EXCEPT !.view = [m \in Node |->
                    IF m \in suspected THEN marked(m).nd.view[m] ELSE @[m]]],
                 UNION {marked(m).out : m \in suspected})
-----------------------------------------------------------------------------
(* Roles. *)

(* resetManualFailover: whoever is in one also lifts the pause. *)
NoManualFailover == [end |-> FALSE, can |-> FALSE, slave |-> NoNode, off |-> 0]

resetManualFailover(nd) ==
    [nd EXCEPT !.paused = @ /\ ~nd.mf.end, !.mf = NoManualFailover]

clusterSetNodeAsMaster(nd, n) == [nd EXCEPT !.view[n].slaveof = NoNode]

clusterSetMaster(nd, n) ==
    LET closed == IF IsMaster(nd, nd.me) THEN clusterCloseAllSlots(nd) ELSE nd
    IN resetManualFailover([closed EXCEPT !.view[nd.me].slaveof = n])

(* Faulty: the last claim wins. *)
FaultyUpdateSlots(nd, sender, senderConfigEpoch, slots) ==
    IF sender = nd.me THEN nd ELSE RebindSlots(nd, sender, slots)

clusterUpdateSlotsConfigWith(nd, sender, senderConfigEpoch, slots) ==
    LET curmaster == IF IsMaster(nd, nd.me) THEN nd.me ELSE MyMaster(nd)
        moved == {s \in slots :
                    /\ nd.owner[s] # sender
                    /\ nd.imp[s] = NoNode
                    /\ \/ nd.owner[s] = NoNode
                       \/ nd.view[nd.owner[s]].ce < senderConfigEpoch}
        dirty == {s \in moved : nd.owner[s] = nd.me /\ CountKeysInSlot(nd, s) > 0}
        newmaster == \E s \in moved : nd.owner[s] = curmaster
        after == RebindSlots(nd, sender, moved)
    IN IF sender = nd.me THEN nd
       ELSE IF newmaster /\ SlotsOf(after, curmaster) = {}
            THEN clusterSetMaster(after, sender)
            ELSE DelKeysInSlots(after, dirty)
-----------------------------------------------------------------------------
(* Elections. The phase of a candidate says where mstime() is relative to
   failover_auth_time: "idle" (a new attempt may be scheduled), "delay"
   (before it), "open" (until auth_timeout after it), "expired" (until
   auth_retry_time after it). *)

NoElection == [phase |-> "idle", epoch |-> 0, count |-> 0, sent |-> FALSE]

(* A master with slots votes at most once per epoch, for a slave of a failing
   master (or a forced request) whose view of the slots is not older than its
   own. recent: it voted for a slave of that master less than two node
   timeouts ago. *)
clusterSendFailoverAuthIfNeeded(nd, hdr, recent) ==
    LET master == nd.view[hdr.src].slaveof
    IN IF \/ IsSlave(nd, nd.me) \/ SlotsOf(nd, nd.me) = {}
          \/ hdr.cur < nd.cur
          \/ nd.vote = nd.cur
          \/ IsMaster(nd, hdr.src)
          \/ ~NodeFailed(nd, master) /\ ~hdr.force
          \/ recent
          \/ \E s \in hdr.slots : /\ nd.owner[s] # NoNode
                                  /\ nd.view[nd.owner[s]].ce > hdr.ce
       THEN Done(nd, {})
       ELSE LET voted == [nd EXCEPT !.vote = nd.cur]
            IN Done(voted, clusterSendFailoverAuth(voted, hdr.src))

clusterFailoverReplaceYourMaster(nd) ==
    LET old == MyMaster(nd)
        new == RebindSlots(clusterSetNodeAsMaster(nd, nd.me), nd.me, SlotsOf(nd, old))
    IN IF IsMaster(nd, nd.me) THEN Done(nd, {})
       ELSE Done(resetManualFailover(new), clusterBroadcastPong(new))

ManualFailoverReady(nd) == nd.mf.end /\ nd.mf.can

(* clusterHandleSlaveFailover: one poll of the election state machine. A slave
   whose data is too old (cluster-slave-validity-factor) returns early: it
   behaves like one that is not polled. *)
clusterHandleSlaveFailover(nd) ==
    LET start == [nd EXCEPT !.auth.phase = IF nd.mf.end THEN "open" ELSE "delay",
                            !.auth.count = 0, !.auth.sent = FALSE]
        asked == [nd EXCEPT !.cur = @ + 1, !.auth.epoch = nd.cur + 1, !.auth.sent = TRUE]
        elected == [nd EXCEPT !.view[nd.me].ce = Max({@, nd.auth.epoch})]
    IN CASE \/ IsMaster(nd, nd.me)
            \/ ~NodeFailed(nd, MyMaster(nd)) /\ ~ManualFailoverReady(nd)
            \/ SlotsOf(nd, MyMaster(nd)) = {}         -> Done(nd, {})
         [] OTHER ->
            CASE nd.auth.phase = "idle" ->
                    Done(start, UNION {clusterSendPing(start, "PONG", m) :
                                 m \in SlavesOf(nd, MyMaster(nd)) \ {nd.me}})
              [] nd.auth.phase \in {"delay", "expired"} -> Done(nd, {})
              [] nd.auth.phase = "open" /\ ~nd.auth.sent ->
                    Done(asked, clusterRequestFailoverAuth(asked))
              [] OTHER -> IF nd.auth.count >= NeededQuorum(nd)
                          THEN clusterFailoverReplaceYourMaster(elected)
                          ELSE Done(nd, {})

(* The slave has received all its master wrote before it paused. *)
clusterHandleManualFailover(nd) ==
    IF nd.mf.end /\ ~nd.mf.can /\ nd.mf.off # 0 /\ nd.mf.off = nd.off
    THEN [nd EXCEPT !.mf.can = TRUE] ELSE nd

(* CLUSTER FAILOVER [FORCE|TAKEOVER] *)
clusterFailoverCommand(nd, how) ==
    LET begun == [resetManualFailover(nd) EXCEPT !.mf.end = TRUE]
    IN CASE how = "takeover" -> clusterFailoverReplaceYourMaster(
                                    clusterBumpConfigEpochWithoutConsensus(begun))
         [] how = "force"    -> Done([begun EXCEPT !.mf.can = TRUE], {})
         [] how = "agreed"   -> Done(begun, clusterSendMFStart(begun, MyMaster(nd)))
-----------------------------------------------------------------------------
(* clusterProcessPacket, by message type. *)

(* Every packet of a known sender: epochs, and the offset of a paused master. *)
ProcessHeader(nd, hdr) ==
    LET moff == IF /\ nd.mf.end /\ MyMaster(nd) = hdr.src
                   /\ hdr.paused /\ nd.mf.off = 0
                THEN hdr.off ELSE nd.mf.off
    IN [nd EXCEPT !.cur = Max({@, hdr.cur}),
                  !.view[hdr.src].ce = Max({@, hdr.ce}), !.mf.off = moff]

(* The sender says it is a master, or a slave of another node. *)
ProcessRole(nd, hdr) ==
    IF hdr.slaveof = NoNode THEN clusterSetNodeAsMaster(nd, hdr.src)
    ELSE [(IF IsMaster(nd, hdr.src) THEN clusterDelNodeSlots(nd, hdr.src) ELSE nd)
            EXCEPT !.view[hdr.src].slaveof = hdr.slaveof]

(* The slots the sender claims: take over the newer claims, answer a stale
   one with the configuration of the node that beats it. *)
ProcessSlots(nd, hdr) ==
    LET master == IF IsMaster(nd, hdr.src) THEN hdr.src ELSE nd.view[hdr.src].slaveof
        dirty == SlotsOf(nd, master) # hdr.slots
        taken == IF IsMaster(nd, hdr.src) /\ dirty
                 THEN clusterUpdateSlotsConfigWith(nd, hdr.src, hdr.ce, hdr.slots)
                 ELSE nd
        stale == {s \in hdr.slots : /\ taken.owner[s] \notin {hdr.src, NoNode}
                                    /\ taken.view[taken.owner[s]].ce > hdr.ce}
    IN Done(taken, IF dirty /\ stale # {}
                   THEN clusterSendUpdate(taken, hdr.src, taken.owner[Min(stale)])
                   ELSE {})

ProcessHeartbeat(nd, hdr, late) ==
    LET pong == IF hdr.type = "PING" THEN clusterSendPing(nd, "PONG", hdr.src) ELSE {}
        alive == CASE hdr.type = "PONG" /\ NodeTimedOut(nd, hdr.src) ->
                        [nd EXCEPT !.view[hdr.src].fail = "none"]
                   [] hdr.type = "PONG" /\ NodeFailed(nd, hdr.src) ->
                        clearNodeFailureIfNeeded(nd, hdr.src, late)
                   [] OTHER -> nd
        slots == ProcessSlots(ProcessRole(alive, hdr), hdr)
        epoch == IF /\ IsMaster(slots.nd, slots.nd.me) /\ IsMaster(slots.nd, hdr.src)
                    /\ hdr.ce = slots.nd.view[slots.nd.me].ce
                 THEN clusterHandleConfigEpochCollision(slots.nd, hdr.src)
                 ELSE slots.nd
        gossip == clusterProcessGossipSection(epoch, hdr)
    IN Done(gossip.nd, pong \cup slots.out \cup gossip.out)

ProcessFail(nd, hdr) ==
    IF hdr.about = nd.me THEN nd ELSE [nd EXCEPT !.view[hdr.about].fail = "fail"]

ProcessFailoverAuthAck(nd, hdr) ==
    IF /\ IsMaster(nd, hdr.src) /\ SlotsOf(nd, hdr.src) # {}
       /\ hdr.cur >= nd.auth.epoch
    THEN [nd EXCEPT !.auth.count = @ + 1] ELSE nd

(* Faulty: the clients are not paused. *)
FaultyProcessMFStart(nd, hdr) ==
    [nd EXCEPT !.mf.end = TRUE, !.mf.slave = hdr.src]

ProcessMFStart(nd, hdr) ==
    IF nd.view[hdr.src].slaveof # nd.me THEN nd
    ELSE [resetManualFailover(nd) EXCEPT !.mf.end = TRUE, !.mf.slave = hdr.src,
                                         !.paused = TRUE]

ProcessUpdate(nd, hdr) ==
    LET known == [clusterSetNodeAsMaster(nd, hdr.about) EXCEPT
                    !.view[hdr.about].ce = hdr.dataEpoch]
    IN IF nd.view[hdr.about].ce >= hdr.dataEpoch THEN nd
       ELSE clusterUpdateSlotsConfigWith(known, hdr.about, hdr.dataEpoch, hdr.data)

(* late and recent are what the clock says: see clearNodeFailureIfNeeded and
   clusterSendFailoverAuthIfNeeded. *)
clusterProcessPacket(node, hdr, late, recent) ==
    LET nd == ProcessHeader(node, hdr)
    IN CASE hdr.type \in {"PING", "PONG"} -> ProcessHeartbeat(nd, hdr, late)
         [] hdr.type = "FAIL"         -> Done(ProcessFail(nd, hdr), {})
         [] hdr.type = "AUTH_REQUEST" -> clusterSendFailoverAuthIfNeeded(nd, hdr, recent)
         [] hdr.type = "AUTH_ACK"     -> Done(ProcessFailoverAuthAck(nd, hdr), {})
         [] hdr.type = "MFSTART"      -> Done(ProcessMFStart(nd, hdr), {})
         [] hdr.type = "UPDATE"       -> Done(ProcessUpdate(nd, hdr), {})
=============================================================================
