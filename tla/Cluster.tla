------------------------------- MODULE Cluster -------------------------------
(***************************************************************************)
(* Redis Cluster: nodes that exchange packets over the cluster bus, suspect*)
(* each other, elect a slave of a failing master, hand over on request,    *)
(* crash and come back with what nodes.conf says. Each action is one packet*)
(* received or one poll of clusterCron, followed by clusterBeforeSleep; the*)
(* packets it queued leave after the configuration was saved (AE_BARRIER), *)
(* so saving and sending are one step.                                     *)
(*                                                                         *)
(* Packets are lost or arrive, in any order. Timeouts are                  *)
(* steps that may happen at any time; the two longest ones (auth_retry_time*)
(* and CLUSTER_MF_TIMEOUT) outlast the packets they are about, whose links *)
(* clusterCron has freed by then.                                          *)
(***************************************************************************)
EXTENDS ClusterNode

CONSTANTS
    Inits,       \* the situations to start from: node records, dead nodes, env
    CanCrash,    \* nodes that may crash
    MaxEpoch,    \* bound on currentEpoch
    MaxOffset    \* bound on the replication offset

ASSUME CrashAssumption == CanCrash \subseteq Node
ASSUME InitsAssumption ==
    \A start \in Inits :
        /\ DOMAIN start.node = Node
        /\ \A n \in Node : NodeOK(start.node[n]) /\ start.node[n].me = n

VARIABLES
    node,    \* the records of module ClusterNode
    disk,    \* nodes.conf of the nodes that may crash
    net,     \* packets in flight
    down,    \* crashed nodes
    env,     \* what may happen: suspects (pairs <<n, m>>: n may stop hearing of
             \* m), links (pairs <<n, m>>: n pings m), crash, writes (masters that
             \* clients write to), packets (the bound on packets in flight; the
             \* rest is lost), commands (pairs <<n, how>> still to come: CLUSTER
             \* FAILOVER how sent to n)
    votes,   \* history: the votes that left a node
    won      \* history: the elections won

vars == <<node, disk, net, down, env, votes, won>>

(* clusterSaveConfig: everything but the failure reports and the timers. *)
NodesConf(nd) ==
    [cur |-> nd.cur, vote |-> nd.vote, owner |-> nd.owner, imp |-> nd.imp, mig |-> nd.mig,
     view |-> [m \in Node |-> [nd.view[m] EXCEPT !.reports = {}]]]

(* Faulty: a vote alone is not saved. *)
FaultyMustSave(a, b) == a.owner # b.owner

(* Whether the step from a to b asked for CLUSTER_TODO_SAVE_CONFIG: a vote,
   an election, a slot, a role, an epoch or a failure flag changed. A new
   currentEpoch or a new PFAIL flag alone is not saved. *)
MustSave(a, b) ==
    \/ <<a.vote, a.owner, a.imp, a.mig, a.auth.epoch>>
            # <<b.vote, b.owner, b.imp, b.mig, b.auth.epoch>>
    \/ \E m \in Node : \/ a.view[m].slaveof # b.view[m].slaveof
                       \/ a.view[m].ce # b.view[m].ce
                       \/ a.view[m].fail # b.view[m].fail /\ b.view[m].fail # "pfail"

Init ==
    /\ \E start \in Inits : node = start.node /\ down = start.down /\ env = start.env
    /\ disk = [n \in CanCrash |-> NodesConf(node[n])]
    /\ net = {} /\ votes = {} /\ won = {}

(* clusterBeforeSleep after a handler that left r and consumed the packets in
   used. Any of the packets it sends may be lost. *)
Commit(n, r, used) ==
    LET nd == clusterUpdateState(r.nd)
    IN /\ node' = [node EXCEPT ![n] = nd]
       /\ \E sent \in SUBSET {m \in r.out : m.dst \notin down} :
            /\ net' = (net \ used) \cup sent
            /\ Cardinality(net') <= env.packets
       /\ disk' = IF n \in CanCrash /\ MustSave(node[n], nd)
                  THEN [disk EXCEPT ![n] = NodesConf(nd)] ELSE disk
       /\ UNCHANGED down

Up == Node \ down
-----------------------------------------------------------------------------
(* clusterCron pings a node. *)
SendPing(n, m) ==
    /\ n \in Up /\ <<n, m>> \in env.links
    /\ Commit(n, Done(node[n], clusterSendPing(node[n], "PING", m)), {})
    /\ UNCHANGED <<env, votes, won>>

(* clusterCron finds that a node did not answer for a node timeout. *)
NodeTimeout(n, m) ==
    /\ n \in Up /\ <<n, m>> \in env.suspects
    /\ node[n].view[m].fail = "none"
    /\ Commit(n, Done([node[n] EXCEPT !.view[m].fail = "pfail"], {}), {})
    /\ UNCHANGED <<env, votes, won>>

(* clusterNodeCleanupFailureReports *)
ReportExpires(n, m, by) ==
    /\ n \in Up /\ by \in node[n].view[m].reports
    /\ Commit(n, Done(clusterNodeDelFailureReport(node[n], m, by), {}), {})
    /\ UNCHANGED <<env, votes, won>>

Receive(p, late, recent) ==
    LET n == p.dst
        r == clusterProcessPacket(node[n], p, late, recent)
    IN /\ r.nd.cur <= MaxEpoch
       /\ Commit(n, r, {p})
       /\ votes' = votes \cup {[by |-> n, epoch |-> m.cur, for |-> m.dst] :
                                m \in {x \in r.out : x.type = "AUTH_ACK"}}
       /\ UNCHANGED <<env, won>>

(* A poll of clusterHandleManualFailover and clusterHandleSlaveFailover. *)
SlaveCron(n) ==
    LET nd == clusterHandleManualFailover(node[n])
        r == clusterHandleSlaveFailover(nd)
    IN /\ n \in Up /\ IsSlave(node[n], n)
       /\ r # Done(node[n], {}) \* a poll that changes nothing is a stuttering step
       /\ r.nd.cur <= MaxEpoch
       /\ Commit(n, r, {})
       /\ won' = IF IsMaster(r.nd, n)
                 THEN won \cup {[node |-> n, epoch |-> nd.auth.epoch,
                                 of |-> MyMaster(nd), manual |-> nd.mf.off # 0]}
                 ELSE won
       /\ UNCHANGED <<env, votes>>

(* The clock of an election. When auth_retry_time is over, the last request
   and the answers to it are not on their way any more. *)
ElectionClock(n) ==
    LET next == [delay |-> "open", open |-> "expired", expired |-> "idle"]
        late == {p \in net : \/ p.dst = n /\ p.type = "AUTH_ACK"
                             \/ p.src = n /\ p.type = "AUTH_REQUEST"}
    IN /\ n \in Up /\ node[n].auth.phase # "idle"
       /\ node[n].auth.phase = "expired" => node[n].cur < MaxEpoch
       /\ Commit(n, Done([node[n] EXCEPT !.auth.phase = next[@]], {}),
                 IF node[n].auth.phase = "expired" THEN late ELSE {})
       /\ UNCHANGED <<env, votes, won>>

(* CLUSTER FAILOVER sent to a slave; without FORCE its master must be alive. *)
FailoverCommand(n, how) ==
    LET r == clusterFailoverCommand(node[n], how)
    IN /\ n \in Up /\ <<n, how>> \in env.commands
       /\ IsSlave(node[n], n) /\ ~node[n].mf.end
       /\ how = "agreed" => ~NodeFailed(node[n], MyMaster(node[n]))
       /\ r.nd.cur <= MaxEpoch
       /\ Commit(n, r, {})
       /\ env' = [env EXCEPT !.commands = @ \ {<<n, how>>}]
       /\ UNCHANGED <<votes, won>>

(* manualFailoverCheckTimeout. The slave started its clock first; its time
   is over when the packets of the attempt are gone. *)
manualFailoverCheckTimeout(n) ==
    /\ n \in Up /\ node[n].mf.end
    /\ node[n].mf.slave # NoNode => ~node[node[n].mf.slave].mf.end
    /\ Commit(n, Done(resetManualFailover(node[n]), {}),
              {p \in net : p.paused \/ p.type = "MFSTART"})
    /\ UNCHANGED <<env, votes, won>>

(* A write accepted by a master that is not paused, and its replication. *)
Write(n) ==
    /\ n \in Up \cap env.writes /\ IsMaster(node[n], n) /\ ~node[n].paused /\ node[n].state
    /\ node[n].off < MaxOffset
    /\ Commit(n, Done([node[n] EXCEPT !.off = @ + 1], {}), {})
    /\ UNCHANGED <<env, votes, won>>

Replicate(n) ==
    LET m == MyMaster(node[n])
    IN /\ n \in Up /\ m \in Up /\ node[n].off < node[m].off
       /\ Commit(n, Done([node[n] EXCEPT !.off = @ + 1], {}), {})
       /\ UNCHANGED <<env, votes, won>>
-----------------------------------------------------------------------------
Crash(n) ==
    /\ n \in CanCrash \cap Up \cap env.crash
    /\ down' = down \cup {n}
    /\ net' = {p \in net : p.dst # n}
    /\ UNCHANGED <<node, disk, env, votes, won>>

(* verifyClusterConfigWithData: keys of a slot that is not ours make the slot
   ours when nobody has it, and mark it as importing when somebody has. *)
verifyClusterConfigWithData(nd) ==
    LET odd == {s \in Slot : /\ CountKeysInSlot(nd, s) > 0
                             /\ nd.owner[s] # nd.me /\ nd.imp[s] = NoNode}
    IN IF IsSlave(nd, nd.me) THEN nd
       ELSE [nd EXCEPT
               !.owner = [s \in Slot |-> IF s \in odd /\ @[s] = NoNode THEN nd.me ELSE @[s]],
               !.imp = [s \in Slot |-> IF s \in odd THEN nd.owner[s] ELSE @[s]]]

(* clusterLoadConfig: currentEpoch is at least the largest configEpoch. *)
clusterLoadConfig(n) ==
    [me |-> n, cur |-> Max({disk[n].cur} \cup {disk[n].view[m].ce : m \in Node}),
     vote |-> disk[n].vote, state |-> FALSE, owner |-> disk[n].owner,
     imp |-> disk[n].imp, mig |-> disk[n].mig, db |-> node[n].db,
     view |-> disk[n].view, auth |-> NoElection, mf |-> NoManualFailover,
     off |-> node[n].off, paused |-> FALSE]

Restart(n) ==
    LET nd == clusterUpdateState(verifyClusterConfigWithData(clusterLoadConfig(n)))
    IN /\ n \in down \cap CanCrash
       /\ down' = down \ {n}
       /\ node' = [node EXCEPT ![n] = nd]
       /\ disk' = [disk EXCEPT ![n] = NodesConf(nd)]
       /\ UNCHANGED <<net, env, votes, won>>

Next ==
    \/ \E n, m \in Node : SendPing(n, m) \/ NodeTimeout(n, m)
    \/ \E n, m, by \in Node : ReportExpires(n, m, by)
    \/ \E p \in net : \/ Receive(p, FALSE, FALSE)
                      \/ p.type = "PONG" /\ Receive(p, TRUE, FALSE)
                      \/ p.type = "AUTH_REQUEST" /\ Receive(p, FALSE, TRUE)
    \/ \E n \in Node : SlaveCron(n) \/ ElectionClock(n) \/ manualFailoverCheckTimeout(n)
    \/ \E n \in Node, how \in {"agreed", "force", "takeover"} : FailoverCommand(n, how)
    \/ \E n \in Node : Write(n) \/ Replicate(n) \/ Crash(n) \/ Restart(n)

Spec == Init /\ [][Next]_vars
-----------------------------------------------------------------------------

(* A master gives at most one slave its vote in an epoch, also when it crashes
   between two requests: the vote is in nodes.conf before the answer leaves
   (clusterSendFailoverAuthIfNeeded, CLUSTER_TODO_FSYNC_CONFIG). *)
OneVotePerEpoch == \A v, w \in votes : v.by = w.by /\ v.epoch = w.epoch => v = w

(* Two slaves never win an election of the same epoch, so that no two winners
   claim slots with one configEpoch (clusterHandleSlaveFailover). *)
OneWinnerPerEpoch == \A v, w \in won : v.epoch = w.epoch => v.node = w.node

(* currentEpoch is never behind a configEpoch the node knows, in memory and in
   nodes.conf: "should never happen" in clusterLoadConfig. *)
CurrentEpochIsMax ==
    /\ \A n, m \in Node : node[n].view[m].ce <= node[n].cur
    /\ \A n \in CanCrash, m \in Node : disk[n].view[m].ce <= disk[n].cur

(* No master votes twice in an epoch, also when it crashes in between, and no node
   takes part in an election with an epoch behind one it knows, from which it would
   claim slots (clusterSendFailoverAuthIfNeeded, clusterLoadConfig). *)
VotesAreSafe == OneVotePerEpoch /\ CurrentEpochIsMax

(* A slot only moves to an owner with a larger configEpoch, whatever order
   claims, stale claims and UPDATEs arrive in (clusterUpdateSlotsConfigWith). *)
SlotsMoveToNewerEpochs ==
    [][\A n \in Up, s \in Slot :
        LET old == node[n].owner[s]
            new == node'[n].owner[s]
        IN old # new /\ old # NoNode /\ new # NoNode /\ n \notin down'
            => node[n].view[old].ce < node'[n].view[new].ce]_vars

(* A slave promoted by an agreed CLUSTER FAILOVER holds every write its master
   accepted: the master pauses its clients before it announces the offset the
   slave waits for (clusterHandleManualFailover). *)
AgreedFailoverLosesNoWrite ==
    [][\A w \in won' \ won : w.manual => node[w.node].off >= node[w.of].off]_vars

(* A master with slots is flagged FAIL only when a majority of the masters does
   not hear of it: the suspicion of a minority, however often it is gossiped,
   is not enough (markNodeAsFailingIfNeeded). *)
FailNeedsMajority ==
    \A n, m \in Up : NodeFailed(node[n], m) /\ IsMaster(node[m], m) =>
        2 * Cardinality({x \in Node : <<x, m>> \in env.suspects
                                       /\ IsMaster(node[x], x)}) > Size(node[m])

(* What needs the votes or reports of a majority of the masters has them: an epoch
   has one winner, and a master that fails is not heard by most. *)
MajoritiesDecide == OneWinnerPerEpoch /\ FailNeedsMajority
=============================================================================
