---------------------------- MODULE Replication ----------------------------
(***************************************************************************)
(* Replication of Redis: servers that are masters or replicas of another,  *)
(* possibly in chains. Each server keeps its replication id, its previous  *)
(* id with the offset up to which that one is valid, its offset, a circular*)
(* backlog, the list of its replicas, its link with its own master or the  *)
(* cached state of that link, and the RDB child. A replica asks to continue*)
(* with PSYNC <id> <offset>; the master answers +CONTINUE and the backlog  *)
(* from that offset, or +FULLRESYNC and an RDB file.                       *)
(*                                                                         *)
(* The offset counts commands instead of bytes. A dataset is the history of*)
(* the writes applied, each with the database it was applied to. What a    *)
(* master sends travels in order (link[s].net); a link may break at any    *)
(* moment and each end notices by itself, so that a server may still list  *)
(* a replica whose connection is gone. Servers restart from their RDB file.*)
(***************************************************************************)
EXTENDS Integers, Sequences, FiniteSets, SequencesExt

CONSTANTS
    Server,       \* the servers
    None,         \* no server, no client, no file
    Db,           \* the databases that are written to
    BacklogSizes, \* the values of repl-backlog-size, in commands
    Inits,        \* the situations to start from: srv, link, diskless, budget
    MaxClients    \* bound on the replicas a server lists

ASSUME ConstantsAreSane == /\ None \notin Server
                           /\ BacklogSizes \subseteq Nat \ {0}

VARIABLES
    srv,      \* the servers
    link,     \* link[s]: the connection of s with its master
    nextid,   \* the next random replication id
    budget,   \* what may still happen: writes (a sequence of <<database, in a
              \* transaction>>), roles (the REPLICAOF commands <<server, master>>),
              \* pings, waits, faults (broken links, restarts, failed children) and
              \* configs (CONFIG SET repl-backlog-size, backlogs that expire)
    held,     \* history: the writes each server has ever applied
    answer,   \* history: the last answer of WAIT
    diskless  \* repl-diskless-sync

vars == <<srv, link, nextid, budget, held, answer, diskless>>

NoLink == [to |-> None, open |-> FALSE, req |-> None, net |-> <<>>]
NoFile == [data |-> <<>>, id |-> 0, off |-> 0, db |-> -1]
Item(t, v) == [t |-> t, v |-> v]

(* A server and the links, as a handler leaves them. *)
World == [srv |-> srv, link |-> link]
Become(w) == srv' = w.srv /\ link' = w.link
-----------------------------------------------------------------------------
(* The replication ids. *)

clearReplicationId2(r) == [r EXCEPT !.id2 = 0, !.off2 = -1]

(* The id becomes the previous one; it stays valid for the next offset only. *)
shiftReplicationId(r, new) ==
    [r EXCEPT !.id2 = r.id, !.off2 = r.off + 1, !.id = new]
-----------------------------------------------------------------------------
(* The backlog: a circular buffer of the last commands of the stream. *)

createReplicationBacklog(r) ==
    [r EXCEPT !.log = [buf |-> [i \in 0..r.size - 1 |-> None], idx |-> 0,
                       hist |-> 0, off |-> r.off + 1]]

feedReplicationBacklog(r, item) ==
    LET hist == IF r.log.hist + 1 > r.size THEN r.size ELSE r.log.hist + 1
    IN [r EXCEPT !.off = @ + 1,
                 !.log = [buf |-> [@.buf EXCEPT ![r.log.idx] = item],
                          idx |-> IF @.idx + 1 = r.size THEN 0 ELSE @.idx + 1,
                          hist |-> hist,
                          off |-> r.off + 1 - hist + 1]]

addReplyReplicationBacklog(r, offset) ==
    LET skip  == offset - r.log.off
        first == (r.log.idx + (r.size - r.log.hist) + skip) % r.size
    IN [i \in 1..r.log.hist - skip |-> r.log.buf[(first + i - 1) % r.size]]
-----------------------------------------------------------------------------
(* The replicas a server lists. Their output is kept while the RDB file has not
   been sent, or, without a file, until the first ACK. *)

Buffered(c) == c.state # "online" \/ c.onack

(* freeClient of a replica: its end of the connection finds it closed. *)
freeReplica(w, m, i) ==
    LET c == w.srv[m].slaves[i]
    IN [srv  |-> [w.srv EXCEPT ![m].slaves = RemoveAt(@, i)],
        link |-> IF c.live THEN [w.link EXCEPT ![c.who].open = FALSE] ELSE w.link]

disconnectSlaves(w, m) ==
    [srv  |-> [w.srv EXCEPT ![m].slaves = <<>>],
     link |-> [s \in Server |->
                 IF \E i \in DOMAIN w.srv[m].slaves :
                        w.srv[m].slaves[i].live /\ w.srv[m].slaves[i].who = s
                 THEN [w.link[s] EXCEPT !.open = FALSE] ELSE w.link[s]]]

(* unlinkClient of the connection with the master: s forgets it; its master will
   find it closed. *)
closeLink(w, s) ==
    LET m == w.link[s].to
    IN [srv  |-> IF m = None THEN w.srv
                 ELSE [w.srv EXCEPT ![m].slaves =
                         [i \in DOMAIN @ |-> IF @[i].who = s
                                             THEN [@[i] EXCEPT !.live = FALSE]
                                             ELSE @[i]]],
        link |-> [w.link EXCEPT ![s] = NoLink]]

(* Bytes written to the sockets of some replicas. *)
Send(links, who, items) ==
    [s \in Server |-> IF s \in who THEN [links[s] EXCEPT !.net = @ \o items]
                                   ELSE links[s]]

(* The backlog, and every replica that has or will get a file, receive the
   command. *)
Feed(w, m, item) ==
    LET r    == w.srv[m]
        to   == {i \in DOMAIN r.slaves : r.slaves[i].state # "wait_start"}
        sent == {r.slaves[i].who : i \in {j \in to : /\ r.slaves[j].live
                                                     /\ ~Buffered(r.slaves[j])}}
        kept == [i \in DOMAIN r.slaves |->
                   IF i \in to /\ Buffered(r.slaves[i])
                   THEN [r.slaves[i] EXCEPT !.obuf = Append(@, item)] ELSE r.slaves[i]]
        fed  == IF r.log = None THEN r ELSE feedReplicationBacklog(r, item)
    IN [srv  |-> [w.srv EXCEPT ![m] = [fed EXCEPT !.slaves = kept]],
        link |-> Send(w.link, sent, <<item>>)]

(* replicationFeedSlaves: nothing on a replica, nor when nobody listens; a SELECT
   first when the database changed. *)
replicationFeedSlaves(w, m, d, items) ==
    LET r == w.srv[m]
        select == IF r.seldb # d THEN <<Item("select", d)>> ELSE <<>>
        fed == FoldLeft(LAMBDA x, item : Feed(x, m, item), w, select \o items)
    IN IF r.host # None \/ (r.log = None /\ r.slaves = <<>>) THEN w
       ELSE [fed EXCEPT !.srv[m].seldb = d]

(* replicationFeedSlavesFromMasterStream *)
replicationFeedSlavesFromMasterStream(w, m, items) ==
    FoldLeft(LAMBDA x, item : Feed(x, m, item), w, items)
-----------------------------------------------------------------------------
(* Full synchronization, on the master. *)

(* rdbPopulateSaveInfo: the database the stream has selected, -1 when the
   dataset belongs to no stream. *)
rdbPopulateSaveInfo(r) ==
    CASE r.host = None /\ r.log # None -> IF r.seldb = -1 THEN 0 ELSE r.seldb
      [] OTHER -> IF r.master # None THEN r.master.db
                  ELSE IF r.cached # None THEN r.cached.db ELSE -1

Snapshot(r) == [data |-> r.data, id |-> r.id, off |-> r.off,
                db |-> rdbPopulateSaveInfo(r)]

(* +FULLRESYNC, written before anything else; the stream starts with a SELECT. *)
replicationSetupSlaveForFullResync(w, m, i, offset) ==
    LET c == w.srv[m].slaves[i]
    IN [srv  |-> [w.srv EXCEPT ![m].slaves[i].state = "wait_end",
                               ![m].slaves[i].start = offset,
                               ![m].seldb = -1],
        link |-> Send(w.link, IF c.live THEN {c.who} ELSE {},
                      <<[t |-> "fullresync", id |-> w.srv[m].id, off |-> offset]>>)]

Waiting(r) == {i \in DOMAIN r.slaves : r.slaves[i].state = "wait_start"}

(* The replicas that wait for a file are told that there will be none. *)
AbortWaiting(w, m) ==
    LET r == w.srv[m]
        who == {r.slaves[i].who : i \in {j \in Waiting(r) : r.slaves[j].live}}
    IN [srv  |-> [w.srv EXCEPT ![m].slaves = SelectSeq(@, LAMBDA c : c.state # "wait_start")],
        link |-> [s \in Server |-> IF s \in who
                    THEN [w.link[s] EXCEPT !.net = Append(@, Item("err", 0)), !.open = FALSE]
                    ELSE w.link[s]]]

(* A child is forked for every replica that waits, to the disk or to their
   sockets. forked is FALSE when fork fails. *)
startBgsaveForReplication(w, m, forked) ==
    LET r == w.srv[m]
        child == [type |-> IF diskless THEN "socket" ELSE "disk",
                  file |-> Snapshot(r), done |-> FALSE, killed |-> FALSE]
        waiting == SetToSortSeq(Waiting(r), <)
        setup == FoldLeft(LAMBDA x, i : replicationSetupSlaveForFullResync(x, m, i, r.off),
                          w, waiting)
    IN IF ~forked \/ Snapshot(r).db = -1 THEN AbortWaiting(w, m)
       ELSE [setup EXCEPT !.srv[m].child = child]

Replica(s, state) == [who |-> s, live |-> TRUE, state |-> state, obuf |-> <<>>,
                      start |-> 0, ack |-> 0, onack |-> FALSE, file |-> None]

(* masterTryPartialResynchronization: the id is ours, or was until an offset the
   replica has not passed, and the backlog still holds what follows. *)
FaultyCanContinue(r, req) ==
    /\ req.id = r.id \/ req.id = r.id2
    /\ r.log # None
    /\ req.off >= r.log.off
    /\ req.off <= r.log.off + r.log.hist
CanContinue(r, req) ==
    /\ req.id = r.id \/ (req.id = r.id2 /\ req.off <= r.off2)
    /\ r.log # None
    /\ req.off >= r.log.off
    /\ req.off <= r.log.off + r.log.hist

masterTryPartialResynchronization(w, m, s, req) ==
    LET r == w.srv[m]
    IN [srv  |-> [w.srv EXCEPT ![m].slaves = Append(@, Replica(s, "online"))],
        link |-> Send(w.link, {s}, <<[t |-> "continue", id |-> r.id]>>
                                     \o addReplyReplicationBacklog(r, req.off))]

(* A replica that asks while a file is being written for another one gets that
   file, and the output the other one has gathered since. *)
Attach(w, m, i, j) ==
    replicationSetupSlaveForFullResync(
        [w EXCEPT !.srv[m].slaves[i].obuf = w.srv[m].slaves[j].obuf],
        m, i, w.srv[m].slaves[j].start)

(* The full part of syncCommand: the first replica starts a new history. *)
FullResync(w, m, s, new, forked) ==
    LET r  == w.srv[m]
        r1 == [r EXCEPT !.slaves = Append(@, Replica(s, "wait_start"))]
        r2 == IF Len(r1.slaves) = 1 /\ r.log = None
              THEN createReplicationBacklog(clearReplicationId2([r1 EXCEPT !.id = new]))
              ELSE r1
        w2 == [w EXCEPT !.srv[m] = r2]
        peers == {j \in DOMAIN r2.slaves : r2.slaves[j].state = "wait_end"}
        peer == CHOOSE j \in peers : \A k \in peers : j <= k
    IN CASE r.child # None /\ r.child.type = "disk" /\ peers # {} ->
                Attach(w2, m, Len(r2.slaves), peer)
         [] r.child # None \/ diskless -> w2
         [] OTHER -> startBgsaveForReplication(w2, m, forked)

(* A new id is drawn by FullResync. *)
DrawsId(r) == r.log = None /\ r.slaves = <<>>

(* updateSlavesWaitingBgsave, after the child was reaped: ok, or an error. *)
Updated(c, ok, type, file) ==
    CASE c.state # "wait_end" -> c
      [] type = "socket" -> [c EXCEPT !.state = "online", !.onack = TRUE]
      [] OTHER -> [c EXCEPT !.state = "send_bulk", !.file = file]

updateSlavesWaitingBgsave(w, m, ok, type, forked) ==
    LET r == w.srv[m]
        failed == {i \in DOMAIN r.slaves : r.slaves[i].state = "wait_end" /\ ~ok}
        gone == {r.slaves[i].who : i \in {j \in failed : r.slaves[j].live}}
        w1 == [srv  |-> [w.srv EXCEPT ![m].slaves =
                  FoldLeftDomain(LAMBDA acc, i :
                      IF i \in failed THEN acc
                      ELSE Append(acc, Updated(r.slaves[i], ok, type, r.file)),
                      <<>>, r.slaves)],
               link |-> [s \in Server |-> IF s \in gone THEN [w.link[s] EXCEPT !.open = FALSE]
                                                        ELSE w.link[s]]]
    IN IF Waiting(r) = {} THEN w1 ELSE startBgsaveForReplication(w1, m, forked)
-----------------------------------------------------------------------------
(* The replica. *)

(* replicationCacheMaster, replicationHandleMasterDisconnection: what was applied
   is kept for a PSYNC; a transaction of which only a part came is dropped. *)
replicationCacheMaster(w, s) ==
    LET c == w.srv[s].master
    IN [closeLink(w, s) EXCEPT
          !.srv[s].cached = [c EXCEPT !.read = c.off, !.multi = None, !.pending = <<>>],
          !.srv[s].master = None,
          !.srv[s].state = "connect"]

MasterClient(id, off, db) == [id |-> id, off |-> off, read |-> off, db |-> db,
                              multi |-> None, pending |-> <<>>]

(* A master that becomes a replica tries to continue with its own history. *)
replicationCacheMasterUsingMyself(r) ==
    [r EXCEPT !.cached = MasterClient(r.id, r.off, 0)]

cancelReplicationHandshake(w, s) ==
    IF w.srv[s].state \in {"connecting", "receive_psync", "transfer"}
    THEN [closeLink(w, s) EXCEPT !.srv[s].state = "connect"] ELSE w

(* A client that waits is disconnected. The client that wrote last stays, with the
   offset of its write, unless it is the one that waits. *)
disconnectAllBlockedClients(r) ==
    [r EXCEPT !.wait = None,
              !.woff = IF r.wait # None /\ r.wait.write = r.last THEN 0 ELSE @]

FreeMaster(w, s) == IF w.srv[s].master = None THEN w ELSE replicationCacheMaster(w, s)

replicationSetMaster(w, s, m) ==
    LET was_master == w.srv[s].host = None
        w1 == FreeMaster([w EXCEPT !.srv[s].host = m], s)
        w2 == cancelReplicationHandshake(disconnectSlaves(w1, s), s)
        r  == IF was_master THEN replicationCacheMasterUsingMyself(w2.srv[s]) ELSE w2.srv[s]
    IN [w2 EXCEPT !.srv[s] = disconnectAllBlockedClients([r EXCEPT !.state = "connect"])]

replicationUnsetMaster(w, s, new) ==
    LET w1 == [w EXCEPT !.srv[s] = shiftReplicationId([@ EXCEPT !.host = None], new)]
        w2 == [FreeMaster(w1, s) EXCEPT !.srv[s].cached = None]
        w3 == disconnectSlaves(cancelReplicationHandshake(w2, s), s)
    IN [w3 EXCEPT !.srv[s].state = "none", !.srv[s].seldb = -1]

(* slaveTryPartialResynchronization, the reply. *)
Continue(w, s, id) ==
    LET r == w.srv[s]
        r1 == IF id = r.cached.id THEN r
              ELSE [r EXCEPT !.id2 = r.cached.id, !.off2 = r.off + 1, !.id = id]
        r2 == [r1 EXCEPT !.master = [r.cached EXCEPT !.id = id], !.cached = None,
                         !.state = "connected"]
        w1 == IF id = r.cached.id THEN w ELSE disconnectSlaves(w, s)
    IN [w1 EXCEPT !.srv[s] =
          [(IF r.log = None THEN createReplicationBacklog(r2) ELSE r2)
             EXCEPT !.slaves = w1.srv[s].slaves]]

(* A full resynchronization starts: our replicas have to follow the new history. *)
AwaitFile(w, s, ini) ==
    [disconnectSlaves(w, s) EXCEPT !.srv[s].cached = None, !.srv[s].ini = ini,
                                   !.srv[s].log = None, !.srv[s].state = "transfer"]

slaveTryPartialResynchronization(w, s, reply) ==
    CASE reply.t = "fullresync" -> AwaitFile(w, s, [id |-> reply.id, off |-> reply.off])
      [] reply.t = "continue"   -> Continue(w, s, reply.id)
      [] reply.t = "nomaster"   -> cancelReplicationHandshake(w, s)
      [] reply.t = "err"        -> AwaitFile(w, s, [id |-> 0, off |-> -1])

(* readSyncBulkPayload: the file becomes the dataset and the RDB file. *)
readSyncBulkPayload(w, s, file) ==
    LET r == w.srv[s]
        r1 == clearReplicationId2(
                [r EXCEPT !.file = file, !.data = file.data,
                          !.child = IF @ = None THEN None ELSE [@ EXCEPT !.killed = TRUE],
                          !.master = MasterClient(r.ini.id, r.ini.off, file.db),
                          !.state = "connected", !.id = r.ini.id, !.off = r.ini.off])
    IN [w EXCEPT !.srv[s] = IF r.log = None THEN createReplicationBacklog(r1) ELSE r1]

(* A command of the stream: processCommand, and the offset applied; inside MULTI
   nothing is applied nor proxied before EXEC. *)
Write(r, n) == [r EXCEPT !.data = Append(@, <<r.master.db, n>>)]

Executed(r, item) ==
    CASE item.t = "multi"  -> [r EXCEPT !.master.multi = <<>>]
      [] item.t = "exec"   -> [FoldLeft(Write, r, r.master.multi) EXCEPT !.master.multi = None]
      [] item.t = "write"  -> IF r.master.multi # None
                              THEN [r EXCEPT !.master.multi = Append(@, item.v)]
                              ELSE Write(r, item.v)
      [] item.t = "select" -> [r EXCEPT !.master.db = item.v]
      [] OTHER -> r

processInputBufferAndReplicate(w, s, item) ==
    LET r  == [Executed(w.srv[s], item) EXCEPT !.master.read = @ + 1,
                                               !.master.pending = Append(@, item)]
        r1 == [r EXCEPT !.master.off = r.master.read, !.master.pending = <<>>]
    IN IF r.master.multi # None THEN [w EXCEPT !.srv[s] = r]
       ELSE replicationFeedSlavesFromMasterStream([w EXCEPT !.srv[s] = r1], s, r.master.pending)

(* replicationSendAck, and REPLCONF ACK on the master: the output gathered for a
   replica that got its file on the socket goes out with its first ACK. *)
FaultyReceiveAck(c, off) == [c EXCEPT !.ack = IF off > @ THEN off ELSE @]
ReceiveAck(c, off) ==
    [c EXCEPT !.ack = IF off > @ THEN off ELSE @, !.onack = FALSE,
              !.obuf = IF c.onack THEN <<>> ELSE @]

replicationSendAck(w, s) ==
    LET m == w.link[s].to
        mine == {i \in DOMAIN w.srv[m].slaves : w.srv[m].slaves[i].who = s /\ w.srv[m].slaves[i].live}
    IN IF mine = {} THEN w
       ELSE LET i == CHOOSE j \in mine : TRUE
                c == w.srv[m].slaves[i]
                d == ReceiveAck(c, w.srv[s].master.off)
            IN [srv  |-> [w.srv EXCEPT ![m].slaves[i] = d],
                link |-> IF c.onack /\ ~d.onack THEN Send(w.link, {s}, c.obuf) ELSE w.link]
-----------------------------------------------------------------------------
(* WAIT *)

replicationCountAcksByOffset(r, offset) ==
    Cardinality({i \in DOMAIN r.slaves : /\ r.slaves[i].state = "online"
                                         /\ r.slaves[i].ack >= offset})

Answer(m, write, n) == [by |-> m, n |-> n, write |-> write]
-----------------------------------------------------------------------------
Spend(what) == /\ budget[what] > 0
               /\ budget' = [budget EXCEPT ![what] = @ - 1]

(* A child that fails, or a fork that does, is a fault. *)
MayFail(ok) == \/ ok /\ UNCHANGED budget
               \/ ~ok /\ Spend("faults")

Holds(s, r) == held' = [held EXCEPT ![s] = @ \cup {r.data[i][2] : i \in DOMAIN r.data}]

(* A client writes to a master, alone or twice in a transaction. *)
ClientWrites(m, d, multi) ==
    /\ srv[m].host = None
    /\ budget.writes # <<>> /\ Head(budget.writes) = <<d, multi>>
    /\ budget' = [budget EXCEPT !.writes = Tail(@)]
    /\ LET n == Len(budget.writes)
           one == Item("write", n)
           items == IF multi THEN <<Item("multi", 0), one, one, Item("exec", 0)>> ELSE <<one>>
           data == IF multi THEN <<<<d, n>>, <<d, n>>>> ELSE <<<<d, n>>>>
       IN \E w \in {replicationFeedSlaves([World EXCEPT !.srv[m].data = @ \o data], m, d, items)} :
            /\ Become([w EXCEPT !.srv[m].woff = w.srv[m].off, !.srv[m].last = n])
            /\ held' = [held EXCEPT ![m] = @ \cup {n}]
    /\ UNCHANGED <<nextid, answer, diskless>>

(* waitCommand: the client that wrote last asks for n replicas. *)
waitCommand(m, n) ==
    /\ srv[m].host = None /\ srv[m].woff > 0 /\ srv[m].wait = None
    /\ Spend("waits")
    /\ LET acks == replicationCountAcksByOffset(srv[m], srv[m].woff)
       IN IF acks >= n
          THEN /\ answer' = Answer(m, srv[m].last, acks)
               /\ UNCHANGED <<srv, link>>
          ELSE /\ Become(replicationFeedSlaves(
                    [World EXCEPT !.srv[m].wait = [off |-> srv[m].woff, n |-> n, write |-> srv[m].last]],
                    m, srv[m].seldb, <<Item("getack", 0)>>))
               /\ UNCHANGED answer
    /\ UNCHANGED <<nextid, held, diskless>>

(* processClientsWaitingReplicas *)
processClientsWaitingReplicas(m) ==
    /\ srv[m].wait # None
    /\ LET acks == replicationCountAcksByOffset(srv[m], srv[m].wait.off)
       IN /\ acks >= srv[m].wait.n
          /\ answer' = Answer(m, srv[m].wait.write, acks)
          /\ srv' = [srv EXCEPT ![m].wait = None]
    /\ UNCHANGED <<link, nextid, budget, held, diskless>>

(* The PING of replicationCron. *)
CronPings(m) ==
    /\ srv[m].host = None /\ srv[m].slaves # <<>>
    /\ Spend("pings")
    /\ Become(replicationFeedSlaves(World, m, srv[m].seldb, <<Item("ping", 0)>>))
    /\ UNCHANGED <<nextid, held, answer, diskless>>

(* replicationCron: the backlog of a master that nobody replicates expires, and
   with it the history. *)
Expire(r, new) == [clearReplicationId2([r EXCEPT !.id = new]) EXCEPT !.log = None]
BacklogExpires(m) ==
    /\ srv[m].slaves = <<>> /\ srv[m].log # None /\ srv[m].host = None
    /\ Spend("configs")
    /\ srv' = [srv EXCEPT ![m] = Expire(@, nextid)]
    /\ nextid' = nextid + 1
    /\ UNCHANGED <<link, held, answer, diskless>>

(* CONFIG SET repl-backlog-size *)
resizeReplicationBacklog(m, size) ==
    /\ srv[m].size # size
    /\ Spend("configs")
    /\ LET r == [srv[m] EXCEPT !.size = size]
       IN srv' = [srv EXCEPT ![m] = IF r.log = None THEN r ELSE createReplicationBacklog(r)]
    /\ UNCHANGED <<link, nextid, held, answer, diskless>>

(* replicationCron: connectWithMaster *)
connectWithMaster(s) ==
    /\ srv[s].state = "connect"
    /\ srv' = [srv EXCEPT ![s].state = "connecting"]
    /\ link' = [link EXCEPT ![s] = [NoLink EXCEPT !.to = srv[s].host, !.open = TRUE]]
    /\ UNCHANGED <<nextid, budget, held, answer, diskless>>

(* slaveTryPartialResynchronization, the request: the first command that was not
   applied, or "? -1". *)
PsyncRequest(r) ==
    IF r.cached = None THEN [id |-> -1, off |-> -1]
    ELSE [id |-> r.cached.id, off |-> r.cached.off + 1]

(* syncWithMaster up to PSYNC: PING, AUTH and REPLCONF change nothing else. *)
SendPsync(s) ==
    /\ srv[s].state = "connecting"
    /\ srv' = [srv EXCEPT ![s].state = "receive_psync"]
    /\ link' = [link EXCEPT ![s].req = PsyncRequest(srv[s])]
    /\ UNCHANGED <<nextid, budget, held, answer, diskless>>

(* syncCommand on the master of s. *)
syncCommand(s, forked) ==
    LET m == link[s].to
        req == link[s].req
        w == [World EXCEPT !.link[s].req = None]
    IN /\ req # None /\ link[s].open
       /\ Len(srv[m].slaves) < MaxClients
       /\ IF srv[m].host # None /\ srv[m].state # "connected"
          THEN /\ forked
               /\ Become([w EXCEPT !.link[s].net = Append(@, Item("nomaster", 0))])
               /\ UNCHANGED <<nextid, budget>>
          ELSE IF CanContinue(srv[m], req)
          THEN /\ forked
               /\ Become(masterTryPartialResynchronization(w, m, s, req))
               /\ UNCHANGED <<nextid, budget>>
          ELSE /\ MayFail(forked)
               /\ Become(FullResync(w, m, s, nextid, forked))
               /\ nextid' = IF DrawsId(srv[m]) THEN nextid + 1 ELSE nextid
       /\ UNCHANGED <<held, answer, diskless>>

(* The cron forks for the replicas that still wait, or, without a disk, once their
   number has had time to grow. *)
CronForks(m, forked) ==
    /\ srv[m].child = None /\ Waiting(srv[m]) # {}
    /\ MayFail(forked)
    /\ Become(startBgsaveForReplication(World, m, forked))
    /\ UNCHANGED <<nextid, held, answer, diskless>>

(* The child writes the file and renames it, or writes it to the sockets of the
   replicas it was forked for. *)
ChildSaves(m) ==
    LET c == srv[m].child
        r == srv[m]
        to == {r.slaves[i].who : i \in {j \in DOMAIN r.slaves :
                                          r.slaves[j].live /\ r.slaves[j].state = "wait_end"}}
    IN /\ c # None /\ ~c.done /\ ~c.killed
       /\ Become([srv  |-> [srv EXCEPT ![m].child.done = TRUE,
                                       ![m].file = IF c.type = "disk" THEN c.file ELSE @],
                  link |-> IF c.type = "disk" THEN link
                           ELSE Send(link, to, <<[t |-> "rdb", file |-> c.file]>>)])
       /\ UNCHANGED <<nextid, budget, held, answer, diskless>>

(* backgroundSaveDoneHandler: the child was reaped. It fails when it was killed, or
   on its own. *)
backgroundSaveDoneHandler(m, ok, forked) ==
    LET c == srv[m].child
        w == [World EXCEPT !.srv[m].child = None]
    IN /\ c # None /\ (ok => c.done) /\ (c.done /\ ~c.killed => ok)
       /\ (Waiting(srv[m]) = {} => forked)
       /\ MayFail((ok \/ c.killed) /\ forked)
       /\ Become(updateSlavesWaitingBgsave(w, m, ok, c.type, forked))
       /\ UNCHANGED <<nextid, held, answer, diskless>>

(* sendBulkToSlave, the whole file, and putSlaveOnline. *)
sendBulkToSlave(m, i) ==
    LET c == srv[m].slaves[i]
    IN /\ c.state = "send_bulk"
       /\ Become([srv  |-> [srv EXCEPT ![m].slaves[i].state = "online",
                                       ![m].slaves[i].obuf = <<>>,
                                       ![m].slaves[i].file = None],
                  link |-> Send(link, IF c.live THEN {c.who} ELSE {},
                                <<[t |-> "rdb", file |-> c.file]>> \o c.obuf)])
       /\ UNCHANGED <<nextid, budget, held, answer, diskless>>

(* What a replica reads from its master. *)
Received(w, s, item) ==
    CASE w.srv[s].state = "receive_psync" -> slaveTryPartialResynchronization(w, s, item)
      [] w.srv[s].state = "transfer" -> IF item.t = "rdb" THEN readSyncBulkPayload(w, s, item.file)
                                        ELSE cancelReplicationHandshake(w, s)
      [] OTHER -> IF item.t = "getack" /\ w.link[s].open
                  THEN processInputBufferAndReplicate(replicationSendAck(w, s), s, item)
                  ELSE processInputBufferAndReplicate(w, s, item)

Receive(s) ==
    /\ link[s].net # <<>>
    /\ \E w \in {Received([World EXCEPT !.link[s].net = Tail(@)], s, Head(link[s].net))} :
         Become(w) /\ Holds(s, w.srv[s])
    /\ UNCHANGED <<nextid, budget, answer, diskless>>

(* The periodic ACK of replicationCron. *)
CronAcks(s) ==
    /\ srv[s].master # None /\ link[s].open
    /\ Become(replicationSendAck(World, s))
    /\ UNCHANGED <<nextid, budget, held, answer, diskless>>

(* The link of s breaks; each end finds out by itself. A replica that finds its
   connection closed has read what came before. *)
LosesMaster(w, s) == IF w.srv[s].master # None THEN replicationCacheMaster(w, s)
                     ELSE cancelReplicationHandshake(w, s)
MasterTimesOut(s) ==
    /\ srv[s].state \notin {"none", "connect"} /\ link[s].open
    /\ Spend("faults")
    /\ Become(LosesMaster(World, s))
    /\ UNCHANGED <<nextid, held, answer, diskless>>
MasterHungUp(s) ==
    /\ srv[s].state \notin {"none", "connect"} /\ ~link[s].open /\ link[s].net = <<>>
    /\ Become(LosesMaster(World, s))
    /\ UNCHANGED <<nextid, budget, held, answer, diskless>>
ReplicaTimesOut(m, i) ==
    /\ srv[m].slaves[i].live
    /\ Spend("faults")
    /\ Become(freeReplica(World, m, i))
    /\ UNCHANGED <<nextid, held, answer, diskless>>
ReplicaHungUp(m, i) ==
    /\ ~srv[m].slaves[i].live
    /\ Become(freeReplica(World, m, i))
    /\ UNCHANGED <<nextid, budget, held, answer, diskless>>

(* replicaofCommand. Nobody makes a server replicate itself, directly or through
   others. *)
Masters(m) == LET up(x) == IF x = None THEN None ELSE srv[x].host
              IN {m, up(m), up(up(m))}
replicaofCommand(s, m) ==
    /\ srv[s].host # m
    /\ m # None => s \notin Masters(m)
    /\ <<s, m>> \in budget.roles
    /\ budget' = [budget EXCEPT !.roles = @ \ {<<s, m>>}]
    /\ IF m = None THEN /\ Become(replicationUnsetMaster(World, s, nextid))
                        /\ nextid' = nextid + 1
       ELSE Become(replicationSetMaster(World, s, m)) /\ UNCHANGED nextid
    /\ UNCHANGED <<held, answer, diskless>>

Started(host, id, size, file) ==
    [host |-> host, state |-> IF host = None THEN "none" ELSE "connect",
     id |-> id, id2 |-> 0, off2 |-> -1, off |-> 0, size |-> size, log |-> None,
     seldb |-> -1, master |-> None, cached |-> None, ini |-> None, data |-> file.data,
     child |-> None, slaves |-> <<>>, file |-> file, woff |-> 0, last |-> 0, wait |-> None]

(* loadDataFromDisk: a replica takes up the history its file belongs to. *)
loadDataFromDisk(r) ==
    IF r.host = None \/ r.file.db = -1 THEN r
    ELSE LET r1 == [r EXCEPT !.id = r.file.id, !.off = r.file.off]
         IN [replicationCacheMasterUsingMyself(r1) EXCEPT !.cached.db = r.file.db]

Restart(s) ==
    /\ Spend("faults")
    /\ LET w == closeLink(disconnectSlaves(World, s), s)
       IN Become([w EXCEPT !.srv[s] = loadDataFromDisk(
                    Started(srv[s].host, nextid, srv[s].size, srv[s].file))])
    /\ nextid' = nextid + 1
    /\ UNCHANGED <<held, answer, diskless>>
-----------------------------------------------------------------------------
Init ==
    /\ \E i \in Inits : /\ srv = i.srv /\ link = i.link
                        /\ diskless = i.diskless /\ budget = i.budget
    /\ nextid = 2
    /\ held = [s \in Server |-> {}]
    /\ answer = None

(* What the servers do by themselves. *)
ReplicaStep(s) ==
    \/ connectWithMaster(s)
    \/ SendPsync(s)
    \/ Receive(s)
    \/ CronAcks(s)
    \/ MasterHungUp(s)
MasterStep(m) ==
    \/ \E f \in BOOLEAN : CronForks(m, f)
    \/ ChildSaves(m)
    \/ \E ok, f \in BOOLEAN : backgroundSaveDoneHandler(m, ok, f)
    \/ \E i \in DOMAIN srv[m].slaves : sendBulkToSlave(m, i) \/ ReplicaHungUp(m, i)
    \/ processClientsWaitingReplicas(m)

Next ==
    \/ \E s \in Server : ReplicaStep(s)
    \/ \E m \in Server : MasterStep(m)
    \/ \E s \in Server, f \in BOOLEAN : syncCommand(s, f)
    \/ \E m \in Server, d \in Db, multi \in BOOLEAN : ClientWrites(m, d, multi)
    \/ \E m \in Server, n \in 1..2 : waitCommand(m, n)
    \/ \E m \in Server : CronPings(m)
    \/ \E m \in Server : BacklogExpires(m)
    \/ \E m \in Server, n \in BacklogSizes : resizeReplicationBacklog(m, n)
    \/ \E s \in Server : MasterTimesOut(s)
    \/ \E m \in Server : \E i \in DOMAIN srv[m].slaves : ReplicaTimesOut(m, i)
    \/ \E s \in Server, m \in Server \cup {None} : replicaofCommand(s, m)
    \/ \E s \in Server : Restart(s)

Spec == Init /\ [][Next]_vars

(* When a server has something to do, and weak fairness of doing it: timers fire,
   sockets are served, children end and are reaped. *)
ReplicaCan(s) ==
    \/ srv[s].state \in {"connect", "connecting"}
    \/ link[s].net # <<>>
    \/ srv[s].state \notin {"none", "connect"} /\ ~link[s].open
    \/ srv[s].master # None /\ replicationSendAck(World, s) # World
MasterCan(m) ==
    \/ srv[m].child # None \/ Waiting(srv[m]) # {}
    \/ \E i \in DOMAIN srv[m].slaves : srv[m].slaves[i].state = "send_bulk" \/ ~srv[m].slaves[i].live
    \/ srv[m].wait # None /\ replicationCountAcksByOffset(srv[m], srv[m].wait.off) >= srv[m].wait.n
PsyncArrived(s) == link[s].req # None /\ link[s].open /\ Len(srv[link[s].to].slaves) < MaxClients

FairSpec ==
    /\ Spec
    /\ \A s \in Server : /\ []<>(~ReplicaCan(s)) \/ []<><<ReplicaStep(s)>>_vars
                         /\ []<>(~MasterCan(s)) \/ []<><<MasterStep(s)>>_vars
                         /\ []<>(~PsyncArrived(s)) \/ []<><<syncCommand(s, TRUE)>>_vars
-----------------------------------------------------------------------------
(* The dataset a replica has once it has read everything that was sent, or is kept
   or will be written, for it. *)
View(data, db) == [data |-> data, db |-> db, multi |-> None]

Follow(v, item) ==
    CASE item.t = "rdb"    -> View(item.file.data, item.file.db)
      [] item.t = "select" -> [v EXCEPT !.db = item.v]
      [] item.t = "multi"  -> [v EXCEPT !.multi = <<>>]
      [] item.t = "write"  -> IF v.multi # None THEN [v EXCEPT !.multi = Append(@, <<v.db, item.v>>)]
                              ELSE [v EXCEPT !.data = Append(@, <<v.db, item.v>>)]
      [] item.t = "exec"   -> [v EXCEPT !.data = @ \o v.multi, !.multi = None]
      [] OTHER -> v

Applied(s) ==
    LET r == srv[s]
        c == IF r.master # None THEN r.master ELSE r.cached
    IN IF c = None THEN View(<<>>, 0)
       ELSE [data |-> r.data, db |-> c.db,
             multi |-> IF c.multi = None THEN None
                       ELSE [i \in DOMAIN c.multi |-> <<c.db, c.multi[i]>>]]

Awaited(m, c) ==
    CASE c.state = "wait_end" /\ ~(srv[m].child.type = "socket" /\ srv[m].child.done) ->
                                   <<[t |-> "rdb", file |-> srv[m].child.file]>>
      [] c.state = "send_bulk" -> <<[t |-> "rdb", file |-> c.file]>>
      [] OTHER -> <<>>

(* Whatever a replica was given, a partial resynchronization, a file of its own or
   the file and the output of another replica, it ends with the dataset of its
   master once it has read all of it: replicationFeedSlaves, syncCommand and
   masterTryPartialResynchronization miss no command and repeat none, through
   promotions, chains, restarts and a backlog that wraps. *)
ReplicasGetTheHistory ==
    \A m \in Server : \A i \in DOMAIN srv[m].slaves :
        LET c == srv[m].slaves[i]
            s == c.who
            todo == link[s].net \o Awaited(m, c) \o c.obuf
        IN c.live /\ c.state # "wait_start" /\ ~(srv[m].child # None /\ srv[m].child.killed)
             => FoldLeft(Follow, Applied(s), todo).data = srv[m].data

(* The replicas a server lists that have applied a write, and the connections it
   lists of replicas that have connected again since. *)
Holders(m, n) == {s \in Server : n \in held[s] /\ \E i \in DOMAIN srv[m].slaves : srv[m].slaves[i].who = s}
Abandoned(m) ==
    {i \in DOMAIN srv[m].slaves :
        \E j \in DOMAIN srv[m].slaves : j > i /\ srv[m].slaves[j].who = srv[m].slaves[i].who}
StillHas(m, n) == \E i \in DOMAIN srv[m].data : srv[m].data[i][2] = n


(* replication.c:2418: WAIT returns the number of replicas that processed the
   query, "our latest write command" (replication.c:2458). *)
WaitCountsReplicas ==
    [][answer' # answer => answer'.n <= Cardinality(Holders(answer'.by, answer'.write))]_vars

(* Once links stay up and roles stay put, every replica of a master has the
   dataset of its master: replicationCron reconnects, a lost child is forked
   again, a dead connection is given up. *)
ReplicasCatchUp ==
    <>[](\A s \in Server : LET m == srv[s].host
                           IN m # None /\ srv[m].host = None => srv[s].data = srv[m].data)
=============================================================================
