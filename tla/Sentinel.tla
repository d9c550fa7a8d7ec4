------------------------------ MODULE Sentinel ------------------------------
(***************************************************************************)
(* Redis Sentinel: sentinels that watch one master and its slaves, agree   *)
(* that the master is down, elect one of themselves for an epoch, promote a*)
(* slave and spread the new address with hello messages. Each action is one*)
(* call of sentinelHandleRedisInstance for the master or a slave, one      *)
(* message or reply, one command, or a crash and restart of a sentinel.    *)
(*                                                                         *)
(* Messages are lost or arrive, in any order. Timeouts are flags that the  *)
(* clock sets at any time. Links between a sentinel and an instance may be *)
(* cut (env.cut). A master is watched under one name; the address of an    *)
(* instance is its identity.                                               *)
(***************************************************************************)
EXTENDS Integers, FiniteSets, FiniteSetsExt

CONSTANTS
    Sentinels,      \* run ids of the sentinels (positive integers)
    Redis,          \* addresses of the instances (positive integers)
    Quorum,         \* quorum of the master
    ParallelSyncs,  \* parallel-syncs of the master
    Priority,       \* slave-priority of each instance
    Inits,          \* the situations to start from: sentinels, instances, env
    Live            \* the sentinels that keep running

ASSUME SentinelsAssumption == Sentinels \subseteq Nat \ {0} /\ IsFiniteSet(Sentinels)
ASSUME QuorumAssumption == Quorum \in Nat /\ ParallelSyncs \in Nat

None == 0

States == {"none", "wait_start", "select_slave", "send_slaveof_noone",
           "wait_promotion", "reconf_slaves", "update_config"}

(* A sentinel in order: it knows others, and no epoch after its current_epoch. *)
SentinelOK(x) ==
    /\ DOMAIN x = {"me", "cur", "config", "lepoch", "addr", "slaves", "known", "leader", "state",
                   "fepoch", "forced", "promoted", "wait", "late", "tilt", "odown", "sdown",
                   "role", "reconf", "down", "reply"}
    /\ x.me \in Sentinels /\ x.known \subseteq Sentinels \ {x.me}
    /\ x.cur \in Nat /\ x.config \in Nat /\ x.lepoch \in Nat /\ x.fepoch \in Nat
    /\ x.config <= x.cur /\ x.lepoch <= x.cur /\ x.fepoch <= x.cur
    /\ x.leader \in Sentinels \cup {None} /\ x.state \in States
    /\ x.reply \in [Sentinels -> [leader : Sentinels \cup {None}, epoch : Nat]]

(* The sentinels start with what their configuration files agree on. *)
ASSUME InitsAssumption ==
    \A start \in Inits :
        /\ DOMAIN start.sent = Sentinels
        /\ \A s \in Sentinels : LET x == start.sent[s] IN
            /\ SentinelOK(x) /\ x.me = s /\ x.leader = None /\ x.state = "none"
            /\ \A t \in Sentinels : x.reply[t].leader = None
        /\ \A s, t \in Sentinels : start.sent[s].config = start.sent[t].config =>
                                      start.sent[s].addr = start.sent[t].addr
        /\ DOMAIN start.env = {"cut", "talk", "links", "commands", "timers", "crash", "tilt",
                               "info", "stale", "dies", "revives", "epochs", "packets"}
        /\ \A s \in Sentinels : <<s, s>> \notin start.env.talk

VARIABLES
    sent,    \* the state of each sentinel
    disk,    \* the configuration file of each sentinel
    redis,   \* each instance: alive, master (None when it is one), off (its
             \* replication offset), sync (its link with its master is up)
    net,     \* messages in flight
    env,     \* what may still happen: cut (pairs <<s, r>> that do not reach each
             \* other), talk (pairs <<s, t>>: t hears the hellos of s), links
             \* (pairs <<s, t>>: s is connected to t), commands (pairs <<s, command>>), timers, crash and tilt (sentinels), info
             \* (pairs <<s, r>>: s polls r), stale (pairs <<s, t>>: t may be silent),
             \* dies and revives (instances), epochs and packets (bounds on
             \* current_epoch and on the messages in flight)
    votes,   \* history: the votes given
    won,     \* history: the elections won, and current_epoch when they were
    promotions, \* history: the configurations: who promoted which slave for an epoch
    crossed  \* history: a failover was crossed between the promotion and its end,
             \* by SENTINEL RESET or a newer configuration with the old address

vars == <<sent, disk, redis, net, env, votes, won, promotions, crossed>>

(* What a handler leaves: the sentinel, the messages it sends and whether it
   flushed the configuration. *)
Done(x, out) == [x |-> x, out |-> out, flush |-> FALSE]
Flushed(x, out) == [x |-> x, out |-> out, flush |-> TRUE]
Then(r, q) == [x |-> q.x, out |-> r.out \cup q.out, flush |-> r.flush \/ q.flush]

Reach(s, r) == redis[r].alive /\ <<s, r>> \notin env.cut
-----------------------------------------------------------------------------
(* createSentinelRedisInstance: the fields of an instance nobody heard of. *)
NewInstances(x, r) ==
    [x EXCEPT !.slaves = @ \cup r,
              !.reconf = [q \in Redis |-> IF q \in r THEN {} ELSE @[q]]]

(* The master is forgotten, with the failover in progress and its slaves. *)
sentinelResetMaster(x) ==
    [x EXCEPT !.slaves = {}, !.sdown = {}, !.odown = FALSE, !.leader = None,
              !.state = "none", !.forced = FALSE, !.promoted = None,
              !.wait = FALSE, !.late = FALSE, !.role = "master",
              !.reconf = [q \in Redis |-> {}]]

sentinelResetMasterAndChangeAddress(x, new) ==
    LET slaves == (x.slaves \cup {x.addr}) \ {new}
    IN Flushed(NewInstances(sentinelResetMaster([x EXCEPT !.addr = new]), slaves), {})

(* Faulty: the old address is advertised until the end of the failover. *)
FaultyCurrentMasterAddress(x) == x.addr

Promoting(x) == x.state \in {"reconf_slaves", "update_config"}

(* The promoted slave is advertised as soon as it is known to be a master. *)
sentinelGetCurrentMasterAddress(x) ==
    IF Promoting(x) THEN x.promoted ELSE x.addr

(* What sentinelFlushConfig writes and a restart reads. The leader voted for
   is not written, its epoch is. *)
rewriteConfigSentinelOption(x) ==
    [cur |-> x.cur, config |-> x.config, lepoch |-> x.lepoch,
     addr |-> sentinelGetCurrentMasterAddress(x),
     slaves |-> {IF q = sentinelGetCurrentMasterAddress(x) THEN x.addr ELSE q : q \in x.slaves},
     known |-> x.known]

NoReply == [leader |-> None, epoch |-> 0]

sentinelHandleConfiguration(me, c) ==
    [me |-> me, cur |-> Max({c.cur, c.config}), config |-> c.config, lepoch |-> c.lepoch,
     addr |-> c.addr, slaves |-> c.slaves, known |-> c.known,
     leader |-> None, state |-> "none", fepoch |-> 0, forced |-> FALSE, promoted |-> None,
     wait |-> FALSE, late |-> FALSE, tilt |-> FALSE, odown |-> FALSE, sdown |-> {},
     role |-> "master", reconf |-> [q \in Redis |-> {}],
     down |-> {}, reply |-> [t \in Sentinels |-> NoReply]]
-----------------------------------------------------------------------------
(* The election. *)

(* Faulty: a vote for an epoch already voted in is given again. *)
FaultyVoteLeader(x, epoch, id) ==
    LET y == [x EXCEPT !.cur = Max({@, epoch})]
    IN IF y.cur <= epoch
       THEN Flushed([y EXCEPT !.leader = id, !.lepoch = y.cur], {})
       ELSE Done(y, {})

(* A vote for id in epoch, if none was given there. *)
sentinelVoteLeader(x, epoch, id) ==
    LET y == [x EXCEPT !.cur = Max({@, epoch})]
    IN IF y.lepoch < epoch /\ y.cur <= epoch
       THEN Flushed([y EXCEPT !.leader = id, !.lepoch = y.cur,
                              !.wait = IF id # x.me THEN TRUE ELSE @], {})
       ELSE [Done(y, {}) EXCEPT !.flush = epoch > x.cur]

(* The answers of the others that name t, for the current epoch. *)
sentinelLeaderIncr(x, t) ==
    Cardinality({u \in x.known : x.reply[u] = [leader |-> t, epoch |-> x.cur]})

(* The candidates the others name most often. *)
Favourites(x) ==
    LET named == {t \in Sentinels : sentinelLeaderIncr(x, t) > 0}
    IN {t \in named : \A u \in named : sentinelLeaderIncr(x, u) <= sentinelLeaderIncr(x, t)}

EnoughVotes(x, n) ==
    /\ n >= (Cardinality(x.known) + 1) \div 2 + 1
    /\ n >= Quorum

(* r is the sentinel after its own vote. The candidate `best' (any of the most
   named, None without any) wins unless the own vote makes another one overtake
   it. *)
Winner(r, best, epoch) ==
    LET own == IF r.x.lepoch = epoch THEN r.x.leader ELSE None
        count(t) == sentinelLeaderIncr(r.x, t) + (IF t = own THEN 1 ELSE 0)
        top == IF best = None THEN 0 ELSE sentinelLeaderIncr(r.x, best)
        winner == IF own # None /\ count(own) > top THEN own ELSE best
    IN IF winner # None /\ EnoughVotes(r.x, count(winner)) THEN winner ELSE None

(* The own vote goes to best, or to itself when nobody is named. *)
OwnVote(x, best, epoch) ==
    sentinelVoteLeader(x, epoch, IF best = None THEN x.me ELSE best)
-----------------------------------------------------------------------------
(* Detection. *)

(* A master that reports the role of a slave for long is down as well. *)
sentinelCheckSubjectivelyDown(x, r, elapsed, long) ==
    LET down == elapsed \/ (r = x.addr /\ x.role = "slave" /\ long)
    IN [x EXCEPT !.sdown = IF down THEN @ \cup {r} ELSE @ \ {r}]

sentinelCheckObjectivelyDown(x) ==
    [x EXCEPT !.odown = x.addr \in x.sdown /\ 1 + Cardinality(x.down) >= Quorum]

(* Each known sentinel is asked while the master is subjectively down; the
   question asks for a vote once a failover is on. *)
sentinelAskMasterStateToOtherSentinels(x) ==
    {[type |-> "ask", src |-> x.me, dst |-> t, addr |-> x.addr, epoch |-> x.cur,
      for |-> IF x.state # "none" THEN x.me ELSE None] :
        t \in {u \in x.known : x.addr \in x.sdown /\ <<x.me, u>> \in env.links}}

(* SENTINEL is-master-down-by-addr. The master is looked up by its address. *)
IsMasterDown(x, m) ==
    LET r == IF m.addr = x.addr /\ m.for # None
             THEN sentinelVoteLeader(x, m.epoch, m.for) ELSE Done(x, {})
        asked == m.addr = x.addr /\ m.for # None
    IN [r EXCEPT !.out =
        {[type |-> "answer", src |-> x.me, dst |-> m.src,
          down |-> ~x.tilt /\ m.addr = x.addr /\ m.addr \in x.sdown,
          leader |-> IF asked THEN r.x.leader ELSE None,
          epoch |-> IF asked THEN r.x.lepoch ELSE 0]}]

sentinelReceiveIsMasterDownReply(x, m) ==
    [x EXCEPT !.down = IF m.down THEN @ \cup {m.src} ELSE @ \ {m.src},
              !.reply[m.src] = IF m.leader # None
                               THEN [leader |-> m.leader, epoch |-> m.epoch] ELSE @]
-----------------------------------------------------------------------------
(* The failover. *)

SlaveOf(r, master) == {[type |-> "slaveof", dst |-> r, master |-> master]}

sentinelStartFailover(x) ==
    [x EXCEPT !.state = "wait_start", !.cur = @ + 1, !.fepoch = x.cur + 1,
              !.wait = TRUE, !.late = FALSE]

sentinelStartFailoverIfNeeded(x) ==
    IF x.odown /\ x.state = "none" /\ ~x.wait THEN sentinelStartFailover(x) ELSE x

sentinelAbortFailover(x) ==
    [x EXCEPT !.state = "none", !.forced = FALSE, !.promoted = None, !.late = FALSE]

(* a is a better choice than b. *)
compareSlavesForPromotion(a, b) ==
    \/ Priority[a] < Priority[b]
    \/ Priority[a] = Priority[b] /\ redis[a].off > redis[b].off
    \/ Priority[a] = Priority[b] /\ redis[a].off = redis[b].off /\ a <= b

(* None when no slave is fit. *)
sentinelSelectSlave(x) ==
    LET fit == {q \in x.slaves : q \notin x.sdown /\ Reach(x.me, q) /\ Priority[q] # 0}
        best == {q \in fit : \A p \in fit : compareSlavesForPromotion(q, p)}
    IN IF best = {} THEN None ELSE CHOOSE q \in best : TRUE

(* r: after the own vote; leader: who won so far. *)
sentinelFailoverWaitStart(r, leader) ==
    IF leader = r.x.me \/ r.x.forced
    THEN [r EXCEPT !.x.state = "select_slave", !.x.late = FALSE]
    ELSE IF r.x.late THEN [r EXCEPT !.x = sentinelAbortFailover(r.x)] ELSE r

sentinelFailoverSelectSlave(x) ==
    IF sentinelSelectSlave(x) = None THEN sentinelAbortFailover(x)
    ELSE [x EXCEPT !.promoted = sentinelSelectSlave(x),
                   !.state = "send_slaveof_noone", !.late = FALSE]

sentinelFailoverSendSlaveOfNoOne(x) ==
    IF Reach(x.me, x.promoted)
    THEN Done([x EXCEPT !.state = "wait_promotion", !.late = FALSE], SlaveOf(x.promoted, None))
    ELSE Done(IF x.late THEN sentinelAbortFailover(x) ELSE x, {})

sentinelFailoverWaitPromotion(x) == IF x.late THEN sentinelAbortFailover(x) ELSE x

(* sentinelFailoverReconfNextSlave, one slave of its loop. A command sent too long
   ago (q in old) is taken as done, and the slave is told once more. *)
GivenUp(x, old, q) ==
    IF "sent" \in x.reconf[q] /\ q \in old THEN (x.reconf[q] \ {"sent"}) \cup {"done"} ELSE x.reconf[q]

Skipped(x, q) == q = x.promoted \/ "done" \in x.reconf[q]

Told(x, old, q) ==
    ~Skipped(x, q) /\ GivenUp(x, old, q) \cap {"sent", "inprog"} = {} /\ Reach(x.me, q)

Busy(x) == Cardinality({q \in x.slaves : x.reconf[q] \cap {"sent", "inprog"} # {}})

(* Faulty: it waits for the last slave. *)
FaultyDetectEnd(x) ==
    IF \E q \in x.slaves : q # x.promoted /\ "done" \notin x.reconf[q] THEN Done(x, {})
    ELSE Done([x EXCEPT !.state = "update_config", !.late = FALSE], {})

(* The end: every reachable slave was reconfigured, or it takes too long; then
   the others are told without waiting. *)
sentinelFailoverDetectEnd(x) ==
    LET todo == {q \in x.slaves : q # x.promoted /\ "done" \notin x.reconf[q] /\ q \notin x.sdown}
        told == {q \in x.slaves : x.reconf[q] \cap {"done", "sent"} = {} /\ Reach(x.me, q)}
    IN IF x.promoted \in x.sdown \/ (todo # {} /\ ~x.late) THEN Done(x, {})
       ELSE Done([x EXCEPT !.state = "update_config", !.late = FALSE],
                 IF x.late THEN UNION {SlaveOf(q, x.promoted) : q \in told} ELSE {})

(* The slaves are taken in any order until enough are busy: the sets of slaves the
   loop may have come to. *)
Visits(x, old) ==
    {seen \in SUBSET x.slaves :
        LET busy == Busy(x) + Cardinality({q \in seen : Told(x, old, q)})
        IN IF Busy(x) >= ParallelSyncs THEN seen = {}
           ELSE busy = ParallelSyncs \/ (busy < ParallelSyncs /\ seen = x.slaves)}

sentinelFailoverReconfNextSlave(x, seen, old) ==
    LET flags(q) == GivenUp(x, old, q) \cup (IF Told(x, old, q) THEN {"sent"} ELSE {})
        y == [x EXCEPT !.reconf = [q \in Redis |->
                IF q \in seen /\ ~Skipped(x, q) THEN flags(q) ELSE x.reconf[q]]]
    IN Then(Done(y, UNION {SlaveOf(q, x.promoted) : q \in {p \in seen : Told(x, old, p)}}),
            sentinelFailoverDetectEnd(y))

sentinelFailoverSwitchToPromotedSlave(x) ==
    sentinelResetMasterAndChangeAddress(x, x.promoted)

(* The timer has handled the master and its slaves. *)
AfterDict(r) ==
    IF r.x.state = "update_config"
    THEN Then(r, sentinelFailoverSwitchToPromotedSlave(r.x)) ELSE r
-----------------------------------------------------------------------------
(* INFO and hello. *)

sentinelMasterLooksSane(x) == x.role = "master" /\ x.addr \notin x.sdown /\ ~x.odown

sentinelSendHello(x, t) ==
    {[type |-> "hello", src |-> x.me, dst |-> t, cur |-> x.cur,
      addr |-> sentinelGetCurrentMasterAddress(x), config |-> x.config]}

(* The master names slaves nobody knew. *)
InfoSlaves(x, r) ==
    LET new == {q \in Redis : redis[q].alive /\ redis[q].master = r /\ q \notin x.slaves /\ q # x.addr}
    IN IF r = x.addr /\ redis[r].master = None /\ new # {}
       THEN Flushed(NewInstances(x, new), {}) ELSE Done(x, {})

(* The slave being promoted reports that it is a master. *)
InfoPromoted(x, r) ==
    r = x.promoted /\ redis[r].master = None /\ x.state = "wait_promotion"

(* A slave that reports the role of a master, or another master than ours, for
   long, is reconfigured when the master looks sane. *)
InfoStray(x, r, long) ==
    /\ r \in x.slaves /\ long /\ sentinelMasterLooksSane(x) /\ r \notin x.sdown
    /\ IF redis[r].master = None THEN r # x.promoted ELSE redis[r].master # x.addr

(* The flags of a slave that is being reconfigured. *)
InfoReconf(x, r) ==
    LET flags == IF "sent" \in x.reconf[r] /\ redis[r].master = x.promoted
                 THEN (x.reconf[r] \ {"sent"}) \cup {"inprog"} ELSE x.reconf[r]
    IN IF redis[r].master = None \/ r \notin x.slaves THEN x
       ELSE [x EXCEPT !.reconf[r] = IF "inprog" \in flags /\ redis[r].sync
                                    THEN (flags \ {"inprog"}) \cup {"done"} ELSE flags]

(* The role of the master is kept. *)
Reported(x, r) ==
    IF r = x.addr
    THEN [x EXCEPT !.role = IF redis[r].master = None THEN "master" ELSE "slave"] ELSE x

(* What INFO of instance r makes of x, its slaves and role already taken over. *)
InfoActions(x, r, long) ==
    IF x.tilt THEN Done(x, {})
    ELSE IF InfoPromoted(x, r)
    THEN LET y == [x EXCEPT !.config = x.fepoch, !.state = "reconf_slaves", !.late = FALSE]
         IN Flushed(y, UNION {sentinelSendHello(y, t) : t \in {u \in x.known : <<x.me, u>> \in env.talk}})
    ELSE Done(InfoReconf(x, r), IF InfoStray(x, r, long) THEN SlaveOf(r, x.addr) ELSE {})

sentinelRefreshInstanceInfo(x, r, long) ==
    Then(InfoSlaves(x, r), InfoActions(Reported(InfoSlaves(x, r).x, r), r, long))

(* Faulty: any other configuration epoch is taken over. *)
FaultyNewerConfig(x, m) == x.config # m.config

NewerConfig(x, m) == x.config < m.config

(* A sentinel that nobody knew is added, and a newer epoch and configuration
   are taken over. A configuration that names the same address is not flushed. *)
sentinelProcessHelloMessage(x, m) ==
    LET y == [x EXCEPT !.known = @ \cup {m.src}, !.cur = Max({@, m.cur}),
                       !.config = IF NewerConfig(x, m) THEN m.config ELSE @]
        r == IF NewerConfig(x, m) /\ m.addr # x.addr
             THEN sentinelResetMasterAndChangeAddress(y, m.addr) ELSE Done(y, {})
    IN [r EXCEPT !.flush = @ \/ m.src \notin x.known \/ m.cur > x.cur]
-----------------------------------------------------------------------------
Init ==
    /\ \E start \in Inits : sent = start.sent /\ redis = start.redis /\ env = start.env
    /\ disk = [s \in Sentinels |-> rewriteConfigSentinelOption(sent[s])]
    /\ net = {} /\ votes = {} /\ won = {} /\ crossed = FALSE
    /\ promotions = {[by |-> None, epoch |-> sent[s].config, addr |-> sent[s].addr] : s \in Sentinels}

(* The end of a step of s that leaves r and consumed the messages in used: any
   of the messages it sent may be lost. *)
Commit(s, r, used) ==
    /\ r.x.cur <= env.epochs
    /\ sent' = [sent EXCEPT ![s] = r.x]
    /\ disk' = IF r.flush THEN [disk EXCEPT ![s] = rewriteConfigSentinelOption(r.x)] ELSE disk
    /\ votes' = IF r.x.lepoch # sent[s].lepoch \/ r.x.leader \notin {None, sent[s].leader}
                THEN votes \cup {[by |-> s, epoch |-> r.x.lepoch, for |-> r.x.leader]} ELSE votes
    /\ promotions' = IF sent[s].state = "wait_promotion" /\ r.x.state = "reconf_slaves"
                     THEN promotions \cup {[by |-> s, epoch |-> r.x.config, addr |-> r.x.promoted]}
                     ELSE promotions
    /\ \E kept \in SUBSET r.out :
        /\ net' = (net \ used) \cup kept
        /\ Cardinality(net') <= env.packets

(* A step of the state machine may find either of several most named candidates,
   and takes the slaves in any order. The questions to the others are sent after
   it. *)
WaitStartOutcomes(x) ==
    {sentinelFailoverWaitStart(OwnVote(x, best, x.fepoch),
                               Winner(OwnVote(x, best, x.fepoch), best, x.fepoch)) :
        best \in IF Favourites(x) = {} THEN {None} ELSE Favourites(x)}

sentinelFailoverStateMachine(x) ==
    CASE x.state \in {"none", "update_config"} -> {Done(x, {})}
      [] x.state = "wait_start" -> WaitStartOutcomes(x)
      [] x.state = "select_slave" -> {Done(sentinelFailoverSelectSlave(x), {})}
      [] x.state = "send_slaveof_noone" -> {sentinelFailoverSendSlaveOfNoOne(x)}
      [] x.state = "wait_promotion" -> {Done(sentinelFailoverWaitPromotion(x), {})}
      [] x.state = "reconf_slaves" ->
            UNION {{sentinelFailoverReconfNextSlave(x, seen, old) : seen \in Visits(x, old)} :
                    old \in SUBSET x.slaves}

(* What the checks of the master leave: elapsed when it did not answer for the
   down-after period, long when it reports another role for long. Once flagged,
   it stays so until it answers. A timer that finds the tilt period over leaves
   the tilt mode first; before that it does nothing. *)
Checked(s, elapsed, long) ==
    sentinelStartFailoverIfNeeded(sentinelCheckObjectivelyDown(
        sentinelCheckSubjectivelyDown([sent[s] EXCEPT !.tilt = FALSE], sent[s].addr, elapsed, long)))

Elapsed(s) == IF Reach(s, sent[s].addr) THEN {FALSE}
              ELSE IF sent[s].addr \in sent[s].sdown THEN {TRUE} ELSE BOOLEAN

sentinelHandleRedisInstance(s) ==
    UNION {{AfterDict(Then(q, Done(q.x, sentinelAskMasterStateToOtherSentinels(q.x)))) :
                q \in sentinelFailoverStateMachine(Checked(s, elapsed, long))} :
            elapsed \in Elapsed(s), long \in BOOLEAN}

HandleMaster(s) ==
    /\ s \in env.timers
    /\ \E q \in sentinelHandleRedisInstance(s) :
        /\ Commit(s, q, {})
        /\ won' = IF q.x.state = "select_slave" /\ ~q.x.forced
                  THEN won \cup {[by |-> s, epoch |-> q.x.fepoch, cur |-> q.x.cur]} ELSE won
    /\ UNCHANGED <<redis, env, crossed>>

HandleSlave(s, r) ==
    LET x == sentinelCheckSubjectivelyDown(sent[s], r, ~Reach(s, r), FALSE)
    IN /\ s \in env.timers /\ r \in sent[s].slaves /\ ~sent[s].tilt /\ x # sent[s]
       /\ Commit(s, Done(x, {}), {})
       /\ UNCHANGED <<redis, env, won, crossed>>

(* The timeout of the current state of a failover, or the pause before the
   next attempt, is over. *)
TimePasses(s) ==
    /\ IF sent[s].state = "none" THEN sent[s].wait ELSE ~sent[s].late
    /\ Commit(s, Done([sent[s] EXCEPT !.wait = IF sent[s].state = "none" THEN FALSE ELSE @,
                                      !.late = sent[s].state # "none"], {}), {})
    /\ UNCHANGED <<redis, env, won, crossed>>

(* No answer of t for five periods: what it said is forgotten. *)
ReplyIsStale(s, t) ==
    /\ <<s, t>> \in env.stale /\ t \in sent[s].known
    /\ t \in sent[s].down \/ sent[s].reply[t].leader # None
    /\ \A m \in net : ~(m.type = "answer" /\ m.src = t /\ m.dst = s)
    /\ Commit(s, Done([sent[s] EXCEPT !.down = @ \ {t}, !.reply[t].leader = None], {}), {})
    /\ UNCHANGED <<redis, env, won, crossed>>

(* A clock jump, or a timer that was held up. *)
sentinelCheckTiltCondition(s) ==
    /\ s \in env.tilt
    /\ env' = [env EXCEPT !.tilt = @ \ {s}]
    /\ Commit(s, Done([sent[s] EXCEPT !.tilt = TRUE], {}), {})
    /\ UNCHANGED <<redis, won, crossed>>

ReceiveAsk(m) ==
    /\ m.type = "ask"
    /\ Commit(m.dst, IsMasterDown(sent[m.dst], m), {m})
    /\ UNCHANGED <<redis, env, won, crossed>>

ReceiveAnswer(m) ==
    /\ m.type = "answer"
    /\ Commit(m.dst, Done(IF m.src \in sent[m.dst].known
                          THEN sentinelReceiveIsMasterDownReply(sent[m.dst], m) ELSE sent[m.dst], {}), {m})
    /\ UNCHANGED <<redis, env, won, crossed>>

ReceiveHello(m) ==
    /\ m.type = "hello"
    /\ Commit(m.dst, sentinelProcessHelloMessage(sent[m.dst], m), {m})
    /\ crossed' = (crossed \/ /\ Promoting(sent[m.dst]) /\ NewerConfig(sent[m.dst], m)
                              /\ m.addr = sent[m.dst].addr)
    /\ UNCHANGED <<redis, env, won>>

SendHello(s, t) ==
    /\ <<s, t>> \in env.talk
    /\ \A m \in net : m.type # "hello"
    /\ Commit(s, Done(sent[s], sentinelSendHello(sent[s], t)), {})
    /\ UNCHANGED <<redis, env, won, crossed>>

(* A poll of INFO that changes nothing is a stuttering step. *)
Info(s, r, long) ==
    /\ <<s, r>> \in env.info /\ (r = sent[s].addr \/ r \in sent[s].slaves)
    /\ Reach(s, r)
    /\ LET q == sentinelRefreshInstanceInfo(sent[s], r, long)
       IN (q.x # sent[s] \/ q.out # {}) /\ Commit(s, q, {})
    /\ UNCHANGED <<redis, env, won, crossed>>

(* SENTINEL FAILOVER: without an election. It is refused while a failover is on,
   or without a slave to promote. *)
FailoverCommand(s) ==
    /\ <<s, "failover">> \in env.commands
    /\ sent[s].state = "none" /\ sentinelSelectSlave(sent[s]) # None
    /\ Commit(s, Done([sentinelStartFailover(sent[s]) EXCEPT !.forced = TRUE], {}), {})
    /\ env' = [env EXCEPT !.commands = @ \ {<<s, "failover">>}]
    /\ UNCHANGED <<redis, won, crossed>>

(* SENTINEL RESET also forgets the other sentinels. Nothing is flushed. *)
ResetCommand(s) ==
    /\ <<s, "reset">> \in env.commands
    /\ env' = [env EXCEPT !.commands = @ \ {<<s, "reset">>}]
    /\ Commit(s, Done([sentinelResetMaster(sent[s]) EXCEPT
                       !.known = {}, !.down = {}, !.reply = [t \in Sentinels |-> NoReply]], {}), {})
    /\ crossed' = (crossed \/ Promoting(sent[s]))
    /\ UNCHANGED <<redis, won>>

Restart(s) ==
    /\ s \in env.crash
    /\ env' = [env EXCEPT !.crash = @ \ {s}]
    /\ sent' = [sent EXCEPT ![s] = sentinelHandleConfiguration(s, disk[s])]
    /\ net' = {m \in net : m.type = "slaveof" \/ (m.type = "hello" /\ m.dst # s) \/ s \notin {m.src, m.dst}}
    /\ UNCHANGED <<disk, redis, votes, won, promotions, crossed>>
-----------------------------------------------------------------------------
(* The instances. *)

(* SLAVEOF; the instance rewrites its own configuration with it. *)
ExecuteSlaveOf(m) ==
    /\ m.type = "slaveof"
    /\ redis' = IF redis[m.dst].alive /\ redis[m.dst].master # m.master
                THEN [redis EXCEPT ![m.dst].master = m.master, ![m.dst].sync = FALSE]
                ELSE redis
    /\ net' = net \ {m}
    /\ UNCHANGED <<sent, disk, env, votes, won, promotions, crossed>>

Synchronized(r) ==
    /\ redis[r].alive /\ redis[r].master # None /\ redis[redis[r].master].alive
    /\ redis[r].master # r /\ ~redis[r].sync
    /\ redis' = [redis EXCEPT ![r].sync = TRUE]
    /\ UNCHANGED <<sent, disk, net, env, votes, won, promotions, crossed>>

Dies(r) ==
    /\ r \in env.dies /\ redis[r].alive
    /\ redis' = [redis EXCEPT ![r].alive = FALSE, ![r].sync = FALSE]
    /\ UNCHANGED <<sent, disk, net, env, votes, won, promotions, crossed>>

Revives(r) ==
    /\ r \in env.revives /\ ~redis[r].alive
    /\ redis' = [redis EXCEPT ![r].alive = TRUE]
    /\ env' = [env EXCEPT !.revives = @ \ {r}, !.dies = @ \ {r}]
    /\ UNCHANGED <<sent, disk, net, votes, won, promotions, crossed>>

Next ==
    \/ \E s \in Sentinels : HandleMaster(s)
    \/ \E s \in Sentinels, r \in Redis : HandleSlave(s, r)
    \/ \E s \in Sentinels : TimePasses(s)
    \/ \E s, t \in Sentinels : ReplyIsStale(s, t)
    \/ \E s \in Sentinels : sentinelCheckTiltCondition(s)
    \/ \E m \in net : ReceiveAsk(m)
    \/ \E m \in net : ReceiveAnswer(m)
    \/ \E m \in net : ReceiveHello(m)
    \/ \E s, t \in Sentinels : SendHello(s, t)
    \/ \E s \in Sentinels, r \in Redis, long \in BOOLEAN : Info(s, r, long)
    \/ \E s \in Sentinels : FailoverCommand(s)
    \/ \E s \in Sentinels : ResetCommand(s)
    \/ \E s \in Sentinels : Restart(s)
    \/ \E m \in net : ExecuteSlaveOf(m)
    \/ \E r \in Redis : Synchronized(r)
    \/ \E r \in Redis : Dies(r)
    \/ \E r \in Redis : Revives(r)

(* A failover whose time is over, and that the next timer ends. *)
Overdue(s) == sent[s].late /\ sent[s].promoted \notin sent[s].sdown

(* The clock of a sentinel goes on, and so does its timer, which runs ten times a
   second: it does not leave a failover that is overdue alone for ever. This is
   less than weak fairness of HandleMaster. *)
Fairness ==
    \A s \in Live :
        /\ WF_vars(TimePasses(s))
        /\ []<>(~Overdue(s)) \/ []<><<HandleMaster(s)>>_vars

Spec == Init /\ [][Next]_vars /\ Fairness
-----------------------------------------------------------------------------
(* Properties *)

(* A sentinel votes for one candidate in an epoch, also when it crashes after
   the vote and comes back, and after SENTINEL RESET (sentinelVoteLeader). *)
OneVotePerEpoch ==
    \A v, w \in votes : v.by = w.by /\ v.epoch = w.epoch => v.for = w.for

(* Whoever is elected was named by Quorum sentinels, the others in the epoch that
   was current as it counted and itself in the epoch of its failover: answers from
   any other epoch elect nobody. The two epochs differ when a newer one arrived
   while it waited, since sentinelGetLeader compares the answers with current_epoch
   (sentinel.c:3857) and not with the epoch it is asked about. *)
LeadersAreNamed ==
    \A w \in won : \E Q \in SUBSET Sentinels :
        /\ Cardinality(Q) >= Quorum
        /\ \A u \in Q : \/ [by |-> u, epoch |-> w.cur, for |-> w.by] \in votes
                        \/ u = w.by /\ [by |-> u, epoch |-> w.epoch, for |-> u] \in votes

(* Two sentinels do not win the election for one failover epoch, when the epoch
   was still the current one as they counted. *)
OneLeaderPerEpoch ==
    \A a, b \in won : a.epoch = b.epoch /\ a.cur = a.epoch /\ b.cur = b.epoch => a.by = b.by

(* No epoch of a master is ahead of the current epoch, which the next failover
   builds on (sentinelStartFailover). *)
CurrentEpochIsMax ==
    \A s \in Sentinels : /\ sent[s].config <= sent[s].cur
                         /\ sent[s].lepoch <= sent[s].cur
                         /\ sent[s].fepoch <= sent[s].cur

(* The election is safe: one vote and one leader per epoch, no leader without the
   votes it needs, even one that a newer epoch overtook, and new failovers get
   epochs nobody used. *)
ElectionsAreSafe ==
    OneVotePerEpoch /\ LeadersAreNamed /\ OneLeaderPerEpoch /\ CurrentEpochIsMax

(* Sentinels with the same configuration epoch name the same master to the
   clients, if one sentinel has promoted a slave for that epoch (elections see to
   that, SENTINEL FAILOVER does not ask) and no failover was crossed before its
   end (sentinelProcessHelloMessage, sentinelRefreshInstanceInfo). *)
ConfigEpochNamesOneMaster ==
    \A s, t \in Sentinels :
        LET made == {p \in promotions : p.epoch = sent[s].config}
        IN sent[s].config = sent[t].config /\ ~crossed /\ (\A p, q \in made : p.by = q.by)
            => sentinelGetCurrentMasterAddress(sent[s]) = sentinelGetCurrentMasterAddress(sent[t])

(* A sentinel does not go back to an older configuration. A crash may take it
   back only when the epoch alone had changed, which is not flushed; and whoever
   promotes a slave takes the epoch of the failover even if it has heard of a newer
   one that named the old master. *)
ConfigNeverGoesBack ==
    [][\A s \in Sentinels :
        \/ sent'[s].config >= sent[s].config
        \/ /\ env'.crash # env.crash
           /\ sent'[s].addr = sentinelGetCurrentMasterAddress(sent[s]) \/ crossed
        \/ /\ sent[s].state = "wait_promotion" /\ sent'[s].state = "reconf_slaves"
           /\ sent'[s].config = sent[s].fepoch]_vars

(* A failover comes to an end, one way or the other, unless the slave it
   promoted is down. *)
FailoverEnds ==
    \A s \in Live :
        (sent[s].state # "none")
            ~> (sent[s].state = "none" \/ sent[s].promoted \in sent[s].sdown)

=============================================================================
