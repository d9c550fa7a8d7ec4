--------------------------- MODULE SentinelProofs ---------------------------
(***************************************************************************)
(* For any number of sentinels and instances, any quorum, and messages     *)
(* that are lost or late: votes, epochs and configurations of Sentinel.    *)
(*                                                                         *)
(* Every handler does one of four things (VoteStep, ConfigStep): it keeps  *)
(* the votes and the configuration, gives one vote in an epoch after the   *)
(* last one and flushes it, takes over a configuration it was told of, or  *)
(* promotes a slave for the epoch of its failover.  Two invariants follow. *)
(* EInv, of the elections: whatever a sentinel remembers, hears or reports *)
(* of votes was voted, and a vote is on the disk before it is told.  CInv, *)
(* of the configurations: whatever sentinels keep in memory, in their files*)
(* and in messages is a promotion somebody made, and nobody promotes twice *)
(* in an epoch.                                                            *)
(***************************************************************************)
EXTENDS Sentinel, FiniteSetTheorems, TLAPS

-----------------------------------------------------------------------------
(* Arithmetic *)

LEMMA MaxOfTwo ==
    ASSUME NEW a \in Nat, NEW b \in Nat
    PROVE  Max({a, b}) \in Nat /\ Max({a, b}) \in {a, b} /\ Max({a, b}) >= a /\ Max({a, b}) >= b
  <1>1. \E x \in {a, b} : \A y \in {a, b} : x >= y
    OBVIOUS
  <1> QED
    BY <1>1 DEF Max

-----------------------------------------------------------------------------
(* What the handlers leave alone *)

\* On the way to a promotion.
Preparing(x) == x.state \in {"wait_start", "select_slave", "send_slaveof_noone", "wait_promotion"}

\* The votes: none is given, the one given may be forgotten, the answers are the same.
SameVotes(x, y) ==
    /\ SentinelOK(y) /\ y.me = x.me /\ y.reply = x.reply
    /\ y.lepoch = x.lepoch /\ y.leader \in {None, x.leader}

\* The configuration: the same master with the same epoch; a new failover has a new epoch.
SameConfig(x, y) ==
    /\ y.config = x.config /\ y.cur >= x.cur
    /\ sentinelGetCurrentMasterAddress(y) = sentinelGetCurrentMasterAddress(x)
    /\ Preparing(y) => (Preparing(x) /\ y.fepoch = x.fepoch) \/ y.fepoch > x.cur
    /\ Promoting(y) => Promoting(x)

Kept(x, y) == SameVotes(x, y) /\ SameConfig(x, y)

LEMMA KeptItself == ASSUME NEW x, SentinelOK(x) PROVE Kept(x, x)
  BY DEF SentinelOK, Kept, SameVotes, SameConfig

LEMMA KeptTwice ==
    ASSUME NEW x, NEW y, NEW z, SentinelOK(x), Kept(x, y), Kept(y, z)
    PROVE  Kept(x, z)
  <1>1. SameVotes(x, z)
    BY DEF Kept, SameVotes
  <1>2. x.cur \in Nat /\ y.cur \in Nat /\ z.cur \in Nat /\ z.fepoch \in Nat /\ y.fepoch \in Nat
    BY DEF Kept, SameVotes, SentinelOK
  <1>3. SameConfig(x, z)
    BY <1>2 DEF Kept, SameConfig
  <1> QED
    BY <1>1, <1>3 DEF Kept

\* A change of fields that neither votes nor the configuration depend on.
LEMMA FlagsKept ==
    ASSUME NEW x, SentinelOK(x), NEW v
    PROVE  /\ Kept(x, [x EXCEPT !.sdown = v]) /\ Kept(x, [x EXCEPT !.odown = v])
           /\ Kept(x, [x EXCEPT !.tilt = v]) /\ Kept(x, [x EXCEPT !.role = v])
           /\ Kept(x, [x EXCEPT !.reconf = v])
  BY DEF SentinelOK, Kept, SameVotes, SameConfig, sentinelGetCurrentMasterAddress, Promoting, Preparing, States

LEMMA StartKept ==
    ASSUME NEW x, SentinelOK(x), x.state = "none"
    PROVE  Kept(x, sentinelStartFailover(x)) /\ Kept(x, [sentinelStartFailover(x) EXCEPT !.forced = TRUE])
  BY DEF sentinelStartFailover,
         SentinelOK, Kept, SameVotes, SameConfig, sentinelGetCurrentMasterAddress, Promoting, Preparing, States

LEMMA AbortKept ==
    ASSUME NEW x, SentinelOK(x), ~Promoting(x)
    PROVE  Kept(x, sentinelAbortFailover(x))
  BY DEF sentinelAbortFailover,
         SentinelOK, Kept, SameVotes, SameConfig, sentinelGetCurrentMasterAddress, Promoting, Preparing, States

\* From one state of a failover to the next one.
LEMMA StateKept ==
    ASSUME NEW x, SentinelOK(x), NEW v, NEW p,
           Preparing(x), v \in {"select_slave", "send_slaveof_noone", "wait_promotion"}
    PROVE  /\ Kept(x, [x EXCEPT !.state = v, !.late = FALSE])
           /\ Kept(x, [x EXCEPT !.promoted = p, !.state = v, !.late = FALSE])
  BY DEF SentinelOK, Kept, SameVotes, SameConfig, sentinelGetCurrentMasterAddress, Promoting, Preparing, States

LEMMA EndKept ==
    ASSUME NEW x, SentinelOK(x), Promoting(x)
    PROVE  Kept(x, [x EXCEPT !.state = "update_config", !.late = FALSE])
  BY DEF SentinelOK, Kept, SameVotes, SameConfig, sentinelGetCurrentMasterAddress, Promoting, Preparing, States

-----------------------------------------------------------------------------
(* Messages *)

MessageOK(m) ==
    /\ m.type \in {"ask", "answer", "hello", "slaveof"}
    /\ m.type # "slaveof" => m.src \in Sentinels /\ m.dst \in Sentinels
    /\ m.type = "ask" => m.epoch \in Nat /\ m.for \in Sentinels \cup {None}
    /\ m.type = "answer" => m.epoch \in Nat /\ m.leader \in Sentinels \cup {None}
    /\ m.type = "hello" => /\ m.src # m.dst /\ m.cur \in Nat /\ m.config \in Nat
                           /\ m.config <= m.cur

\* Messages that say nothing of votes given or of the configuration.
Plain(out) == \A m \in out : MessageOK(m) /\ m.type \in {"ask", "slaveof"}

LEMMA SlaveOfPlain == \A r, master : Plain(SlaveOf(r, master))
  BY DEF SlaveOf, Plain, MessageOK

LEMMA AskPlain ==
    ASSUME NEW x, SentinelOK(x)
    PROVE  Plain(sentinelAskMasterStateToOtherSentinels(x))
  <1> SUFFICES ASSUME NEW t \in x.known
               PROVE  LET m == [type |-> "ask", src |-> x.me, dst |-> t, addr |-> x.addr, epoch |-> x.cur,
                                for |-> IF x.state # "none" THEN x.me ELSE None]
                      IN MessageOK(m) /\ m.type \in {"ask", "slaveof"}
    BY DEF sentinelAskMasterStateToOtherSentinels, Plain
  <1>1. x.me \in Sentinels /\ t \in Sentinels /\ x.cur \in Nat
    BY DEF SentinelOK
  <1> QED
    BY <1>1 DEF MessageOK

-----------------------------------------------------------------------------
(* The timer of a sentinel *)

Voted(x, r) ==
    /\ SentinelOK(r.x) /\ r.x.me = x.me /\ r.x.reply = x.reply
    /\ r.x.lepoch > x.lepoch /\ r.flush
    /\ SameConfig(x, r.x)

\* What a call of the timer leaves: at most one vote, in an epoch after the last one.
Outcome(x, r) == Plain(r.out) /\ (Kept(x, r.x) \/ Voted(x, r))

LEMMA QuietOutcome ==
    ASSUME NEW x, NEW y, NEW out, Kept(x, y), Plain(out)
    PROVE  Outcome(x, Done(y, out)) /\ Outcome(x, Flushed(y, out))
  BY DEF Outcome, Done, Flushed

LEMMA NothingPlain == Plain({})
  BY DEF Plain

\* What happens after it.
LEMMA OutcomeGoesOn ==
    ASSUME NEW x, SentinelOK(x), NEW r, Outcome(x, r),
           NEW q, Kept(r.x, q.x), r.flush => q.flush, Plain(q.out)
    PROVE  Outcome(x, q)
  <1>1. CASE Kept(x, r.x)
    BY <1>1, KeptTwice DEF Outcome
  <1>2. CASE Voted(x, r)
    <2>1. /\ SentinelOK(q.x) /\ q.x.me = x.me /\ q.x.reply = x.reply
          /\ q.x.lepoch > x.lepoch /\ q.flush
      BY <1>2 DEF Kept, SameVotes, Voted
    <2>2. x.cur \in Nat /\ r.x.cur \in Nat /\ q.x.cur \in Nat /\ q.x.fepoch \in Nat /\ r.x.fepoch \in Nat
      BY <1>2, <2>1 DEF SentinelOK, Voted
    <2>3. SameConfig(x, q.x)
      BY <1>2, <2>2 DEF Kept, Voted, SameConfig
    <2> QED
      BY <2>1, <2>3 DEF Outcome, Voted
  <1> QED
    BY <1>1, <1>2 DEF Outcome

LEMMA OutcomeAfter ==
    ASSUME NEW x, SentinelOK(x), NEW y, Kept(x, y), NEW r, Outcome(y, r)
    PROVE  Outcome(x, r)
  <1>1. CASE Kept(y, r.x)
    BY <1>1, KeptTwice DEF Outcome
  <1>2. CASE Voted(y, r)
    <2>1. x.cur \in Nat /\ y.cur \in Nat /\ r.x.cur \in Nat /\ r.x.fepoch \in Nat /\ y.fepoch \in Nat
      BY <1>2 DEF SentinelOK, Voted, Kept, SameVotes
    <2>2. SameConfig(x, r.x)
      BY <1>2, <2>1 DEF Kept, Voted, SameConfig
    <2> QED
      BY <1>2, <2>2 DEF Outcome, Voted, Kept, SameVotes
  <1> QED
    BY <1>1, <1>2 DEF Outcome

\* A vote is given in an epoch after the last one voted in, and is flushed.
LEMMA VoteLeader ==
    ASSUME NEW x, SentinelOK(x), NEW epoch \in Nat, NEW id \in Sentinels
    PROVE  LET r == sentinelVoteLeader(x, epoch, id) IN
           /\ Outcome(x, r) /\ r.out = {}
           /\ r.x.state = x.state /\ r.x.fepoch = x.fepoch /\ r.x.known = x.known
           /\ r.x.forced = x.forced /\ r.x.late = x.late
  <1> DEFINE c == Max({x.cur, epoch})
             y == [x EXCEPT !.cur = c]
             w == IF id # x.me THEN TRUE ELSE y.wait
             z == [y EXCEPT !.leader = id, !.lepoch = y.cur, !.wait = w]
             r == sentinelVoteLeader(x, epoch, id)
  <1>1. c \in Nat /\ c >= x.cur /\ c >= epoch
    BY MaxOfTwo DEF SentinelOK
  <1> HIDE DEF c
  <1>2. /\ Kept(x, y) /\ SentinelOK(y) /\ y.cur = c /\ y.lepoch = x.lepoch
        /\ y.state = x.state /\ y.fepoch = x.fepoch /\ y.known = x.known
        /\ y.forced = x.forced /\ y.late = x.late
    BY <1>1 DEF SentinelOK, Kept, SameVotes, SameConfig, sentinelGetCurrentMasterAddress, Promoting, Preparing
  <1>3. \/ y.lepoch < epoch /\ y.cur <= epoch /\ r = Flushed(z, {})
        \/ r = [Done(y, {}) EXCEPT !.flush = epoch > x.cur]
    BY DEF sentinelVoteLeader, c
  <1> HIDE DEF y, r
  <1>4. CASE r = [Done(y, {}) EXCEPT !.flush = epoch > x.cur]
    <2>1. r.x = y /\ r.out = {}
      BY <1>4 DEF Done
    <2> QED
      BY <1>2, <2>1, NothingPlain DEF Outcome, r
  <1>5. CASE y.lepoch < epoch /\ y.cur <= epoch /\ r = Flushed(z, {})
    <2>1. r.x = z /\ r.out = {} /\ r.flush
      BY <1>5 DEF Flushed
    <2>2. y.cur = epoch
      BY <1>1, <1>2, <1>5
    <2>3. /\ SentinelOK(z) /\ z.me = y.me /\ z.reply = y.reply /\ z.lepoch = epoch
          /\ z.config = y.config /\ z.cur = y.cur /\ z.addr = y.addr /\ z.promoted = y.promoted
          /\ z.state = y.state /\ z.fepoch = y.fepoch /\ z.known = y.known
          /\ z.forced = y.forced /\ z.late = y.late
      BY <1>2, <2>2 DEF SentinelOK
    <2> HIDE DEF z
    <2>4. SameConfig(y, z)
      BY <1>2, <2>3 DEF SameConfig, sentinelGetCurrentMasterAddress, Promoting, Preparing, SentinelOK
    <2>5. Voted(y, r)
      BY <1>2, <1>5, <2>1, <2>3, <2>4 DEF Voted
    <2>6. Outcome(x, r)
      BY <1>2, <2>1, <2>5, OutcomeAfter, NothingPlain DEF Outcome
    <2> QED
      BY <1>2, <2>1, <2>3, <2>6 DEF r
  <1> QED
    BY <1>3, <1>4, <1>5

LEMMA CheckedKept ==
    ASSUME NEW s, SentinelOK(sent[s]), NEW elapsed, NEW long
    PROVE  Kept(sent[s], Checked(s, elapsed, long))
  <1> DEFINE x == sent[s]
             a == [x EXCEPT !.tilt = FALSE]
             b == sentinelCheckSubjectivelyDown(a, x.addr, elapsed, long)
             c == sentinelCheckObjectivelyDown(b)
             d == sentinelStartFailoverIfNeeded(c)
  <1>1. Kept(x, a)
    BY FlagsKept
  <1> HIDE DEF a
  <1>2. Kept(a, b)
    <2> DEFINE down == elapsed \/ (x.addr = a.addr /\ a.role = "slave" /\ long)
               v == IF down THEN a.sdown \cup {x.addr} ELSE a.sdown \ {x.addr}
    <2>1. b = [a EXCEPT !.sdown = v]
      BY DEF sentinelCheckSubjectivelyDown
    <2> HIDE DEF v, b
    <2> QED
      BY <1>1, <2>1, FlagsKept DEF Kept, SameVotes
  <1> HIDE DEF b
  <1>3. Kept(b, c)
    <2> DEFINE v == b.addr \in b.sdown /\ 1 + Cardinality(b.down) >= Quorum
    <2>1. c = [b EXCEPT !.odown = v]
      BY DEF sentinelCheckObjectivelyDown
    <2> HIDE DEF v, c
    <2> QED
      BY <1>2, <2>1, FlagsKept DEF Kept, SameVotes
  <1> HIDE DEF c
  <1>4. Kept(c, d)
    BY <1>3, StartKept, KeptItself DEF Kept, SameVotes, sentinelStartFailoverIfNeeded
  <1>5. Checked(s, elapsed, long) = d
    BY DEF Checked, a, b, c
  <1> HIDE DEF d
  <1>6. Kept(x, b)
    BY <1>1, <1>2, KeptTwice
  <1>7. Kept(x, c)
    BY <1>3, <1>6, KeptTwice
  <1> QED
    BY <1>4, <1>5, <1>7, KeptTwice

\* Whoever is elected has the answers of a quorum for its current epoch; its own vote
\* counts when it was given in the epoch of the failover.
Elected(q) ==
    q.x.state = "select_slave" /\ ~q.x.forced =>
        \E Q \in SUBSET Sentinels :
            /\ Cardinality(Q) >= Quorum
            /\ \A u \in Q : \/ q.x.reply[u] = [leader |-> q.x.me, epoch |-> q.x.cur]
                            \/ u = q.x.me /\ q.x.leader = u /\ q.x.lepoch = q.x.fepoch

LEMMA WinnerHasQuorum ==
    ASSUME NEW r, SentinelOK(r.x), NEW best, Winner(r, best, r.x.fepoch) = r.x.me
    PROVE  \E Q \in SUBSET Sentinels :
            /\ Cardinality(Q) >= Quorum
            /\ \A u \in Q : \/ r.x.reply[u] = [leader |-> r.x.me, epoch |-> r.x.cur]
                            \/ u = r.x.me /\ r.x.leader = u /\ r.x.lepoch = r.x.fepoch
  <1> DEFINE own == IF r.x.lepoch = r.x.fepoch THEN r.x.leader ELSE None
             others == {u \in r.x.known : r.x.reply[u] = [leader |-> r.x.me, epoch |-> r.x.cur]}
             n == sentinelLeaderIncr(r.x, r.x.me) + (IF r.x.me = own THEN 1 ELSE 0)
             Q == IF r.x.me = own THEN others \cup {r.x.me} ELSE others
  <1>1. r.x.me \in Sentinels /\ r.x.me # None /\ r.x.known \subseteq Sentinels \ {r.x.me}
    BY SentinelsAssumption DEF SentinelOK, None
  <1>2. n >= Quorum
    BY <1>1 DEF Winner, EnoughVotes
  <1>3. IsFiniteSet(others) /\ r.x.me \notin others /\ others \subseteq Sentinels
    BY <1>1, SentinelsAssumption, FS_Subset
  <1>4. sentinelLeaderIncr(r.x, r.x.me) = Cardinality(others)
    BY DEF sentinelLeaderIncr
  <1> HIDE DEF others
  <1>5. Cardinality(others) \in Nat /\ Cardinality(others \cup {r.x.me}) = Cardinality(others) + 1
    BY <1>3, FS_CardinalityType, FS_AddElement
  <1>6. Cardinality(Q) = n
    BY <1>4, <1>5
  <1>7. Q \in SUBSET Sentinels
    BY <1>1, <1>3
  <1>8. \A u \in Q : \/ r.x.reply[u] = [leader |-> r.x.me, epoch |-> r.x.cur]
                     \/ u = r.x.me /\ r.x.leader = u /\ r.x.lepoch = r.x.fepoch
    BY <1>1 DEF others
  <1> HIDE DEF Q, n
  <1> QED
    BY <1>2, <1>6, <1>7, <1>8

LEMMA WaitStartOutcome ==
    ASSUME NEW x, SentinelOK(x), x.state = "wait_start", NEW q \in WaitStartOutcomes(x)
    PROVE  Outcome(x, q) /\ Elected(q)
  <1>1. PICK best \in Sentinels \cup {None} :
            q = sentinelFailoverWaitStart(OwnVote(x, best, x.fepoch),
                                          Winner(OwnVote(x, best, x.fepoch), best, x.fepoch))
    BY DEF WaitStartOutcomes, Favourites
  <1> DEFINE r == OwnVote(x, best, x.fepoch)
             leader == Winner(r, best, x.fepoch)
             go == [r EXCEPT !.x.state = "select_slave", !.x.late = FALSE]
             stop == [r EXCEPT !.x = sentinelAbortFailover(r.x)]
  <1>2. /\ Outcome(x, r) /\ r.out = {} /\ r.x.state = "wait_start" /\ r.x.fepoch = x.fepoch
    BY VoteLeader DEF OwnVote, SentinelOK
  <1>3. DOMAIN r = {"x", "out", "flush"}
    BY DEF OwnVote, sentinelVoteLeader, Done, Flushed
  <1>4. \/ (leader = r.x.me \/ r.x.forced) /\ q = go
        \/ q = stop \/ q = r
    BY <1>1 DEF sentinelFailoverWaitStart
  <1> HIDE DEF r
  <1>5. SentinelOK(r.x)
    BY <1>2 DEF Outcome, Kept, SameVotes, Voted
  <1>6. CASE q = r
    BY <1>2, <1>6 DEF Elected
  <1>7. CASE q = stop
    <2>1. q.x = sentinelAbortFailover(r.x) /\ q.out = {} /\ q.flush = r.flush
      BY <1>2, <1>3, <1>7
    <2>2. Kept(r.x, q.x) /\ q.x.state = "none"
      <3>1. Kept(r.x, sentinelAbortFailover(r.x))
        BY <1>2, <1>5, AbortKept DEF Promoting
      <3>2. sentinelAbortFailover(r.x).state = "none"
        BY <1>5 DEF sentinelAbortFailover, SentinelOK
      <3> QED
        BY <2>1, <3>1, <3>2
    <2> QED
      BY <1>2, <2>1, <2>2, OutcomeGoesOn, NothingPlain DEF Elected
  <1>8. CASE (leader = r.x.me \/ r.x.forced) /\ q = go
    <2> DEFINE y == [r.x EXCEPT !.state = "select_slave", !.late = FALSE]
    <2>1. q.x = y /\ q.out = {} /\ q.flush = r.flush
      BY <1>2, <1>3, <1>5, <1>8 DEF SentinelOK
    <2>2. Kept(r.x, y)
      BY <1>2, <1>5, StateKept DEF Preparing
    <2>3. /\ y.forced = r.x.forced /\ y.reply = r.x.reply /\ y.me = r.x.me /\ y.cur = r.x.cur
          /\ y.leader = r.x.leader /\ y.lepoch = r.x.lepoch /\ y.fepoch = r.x.fepoch
      BY <1>5 DEF SentinelOK
    <2> HIDE DEF y
    <2>4. Outcome(x, q)
      BY <1>2, <2>1, <2>2, OutcomeGoesOn, NothingPlain
    <2>5. ASSUME ~q.x.forced PROVE
            \E Q \in SUBSET Sentinels :
              /\ Cardinality(Q) >= Quorum
              /\ \A u \in Q : \/ r.x.reply[u] = [leader |-> r.x.me, epoch |-> r.x.cur]
                              \/ u = r.x.me /\ r.x.leader = u /\ r.x.lepoch = r.x.fepoch
      BY <1>2, <1>5, <1>8, <2>1, <2>3, <2>5, WinnerHasQuorum
    <2> QED
      BY <2>1, <2>3, <2>4, <2>5 DEF Elected
  <1> QED
    BY <1>4, <1>6, <1>7, <1>8

LEMMA DetectEndOutcome ==
    ASSUME NEW x, SentinelOK(x), Promoting(x)
    PROVE  LET r == sentinelFailoverDetectEnd(x) IN Outcome(x, r) /\ r.x.state # "select_slave"
  <1> DEFINE r == sentinelFailoverDetectEnd(x)
             y == [x EXCEPT !.state = "update_config", !.late = FALSE]
             told == {q \in x.slaves : x.reconf[q] \cap {"done", "sent"} = {} /\ Reach(x.me, q)}
             out == IF x.late THEN UNION {SlaveOf(q, x.promoted) : q \in told} ELSE {}
  <1>1. r = Done(x, {}) \/ r = Done(y, out)
    BY DEF sentinelFailoverDetectEnd
  <1>2. Kept(x, y) /\ y.state = "update_config"
    <2>1. Kept(x, y)
      BY EndKept
    <2>2. y.state = "update_config"
      BY DEF SentinelOK
    <2> QED
      BY <2>1, <2>2
  <1>3. Plain(out)
    BY SlaveOfPlain DEF Plain
  <1> HIDE DEF y, out, r
  <1>4. Outcome(x, Done(x, {})) /\ Outcome(x, Done(y, out))
    BY <1>2, <1>3, KeptItself, NothingPlain, QuietOutcome
  <1>5. Done(x, {}).x.state # "select_slave" /\ Done(y, out).x.state # "select_slave"
    BY <1>2 DEF Done, Promoting
  <1>6. Outcome(x, r) /\ r.x.state # "select_slave"
    BY <1>1, <1>4, <1>5
  <1> QED
    BY <1>6 DEF r

LEMMA ReconfOutcome ==
    ASSUME NEW x, SentinelOK(x), x.state = "reconf_slaves", NEW seen, NEW old
    PROVE  LET r == sentinelFailoverReconfNextSlave(x, seen, old)
           IN Outcome(x, r) /\ r.x.state # "select_slave"
  <1> DEFINE flags(q) == GivenUp(x, old, q) \cup (IF Told(x, old, q) THEN {"sent"} ELSE {})
             v == [q \in Redis |-> IF q \in seen /\ ~Skipped(x, q) THEN flags(q) ELSE x.reconf[q]]
             y == [x EXCEPT !.reconf = v]
             out == UNION {SlaveOf(q, x.promoted) : q \in {p \in seen : Told(x, old, p)}}
             end == sentinelFailoverDetectEnd(y)
             r == sentinelFailoverReconfNextSlave(x, seen, old)
  <1>1. r = Then(Done(y, out), end)
    BY DEF sentinelFailoverReconfNextSlave
  <1> HIDE DEF v, r
  <1>2. Kept(x, y) /\ SentinelOK(y) /\ y.state = "reconf_slaves"
    <2>1. Kept(x, y)
      BY FlagsKept
    <2>2. y.state = "reconf_slaves"
      BY DEF SentinelOK
    <2> QED
      BY <2>1, <2>2 DEF Kept, SameVotes
  <1> HIDE DEF y
  <1>3. Plain(out)
    BY SlaveOfPlain DEF Plain
  <1> HIDE DEF out
  <1>4. Outcome(y, end) /\ end.x.state # "select_slave"
    BY <1>2, DetectEndOutcome DEF Promoting
  <1> HIDE DEF end
  <1>5. r.x = end.x /\ r.out = out \cup end.out /\ r.flush = (FALSE \/ end.flush)
    BY <1>1 DEF Then, Done
  <1>6. Outcome(y, r)
    <2>1. Plain(r.out)
      BY <1>3, <1>4, <1>5 DEF Outcome, Plain
    <2>2. Kept(y, end.x) \/ Voted(y, end)
      BY <1>4 DEF Outcome
    <2> QED
      BY <1>5, <2>1, <2>2 DEF Outcome, Voted
  <1>7. Outcome(x, r) /\ r.x.state # "select_slave"
    BY <1>2, <1>4, <1>5, <1>6, OutcomeAfter
  <1> QED
    BY <1>7 DEF r

LEMMA SelectSlaveKept ==
    ASSUME NEW x, SentinelOK(x), x.state = "select_slave"
    PROVE  Kept(x, sentinelFailoverSelectSlave(x)) /\ sentinelFailoverSelectSlave(x).state # "select_slave"
  <1> DEFINE p == sentinelSelectSlave(x)
             y == [x EXCEPT !.promoted = p, !.state = "send_slaveof_noone", !.late = FALSE]
  <1>1. Kept(x, sentinelAbortFailover(x)) /\ sentinelAbortFailover(x).state = "none"
    <2>1. Kept(x, sentinelAbortFailover(x))
      BY AbortKept DEF Promoting
    <2>2. sentinelAbortFailover(x).state = "none"
      BY DEF sentinelAbortFailover, SentinelOK
    <2> QED
      BY <2>1, <2>2
  <1>2. sentinelFailoverSelectSlave(x) = sentinelAbortFailover(x) \/ sentinelFailoverSelectSlave(x) = y
    BY DEF sentinelFailoverSelectSlave
  <1> HIDE DEF p
  <1>3. Kept(x, y)
    <2>1. Preparing(x)
      BY DEF Preparing
    <2> DEFINE v == "send_slaveof_noone"
    <2>2. v \in {"select_slave", "send_slaveof_noone", "wait_promotion"}
      OBVIOUS
    <2>3. Kept(x, [x EXCEPT !.promoted = p, !.state = v, !.late = FALSE])
      BY <2>1, <2>2, StateKept
    <2> QED
      BY <2>3
  <1>4. y.state = "send_slaveof_noone"
    BY DEF SentinelOK
  <1> QED
    BY <1>1, <1>2, <1>3, <1>4

LEMMA SendSlaveOfNoOneOutcome ==
    ASSUME NEW x, SentinelOK(x), x.state = "send_slaveof_noone"
    PROVE  LET r == sentinelFailoverSendSlaveOfNoOne(x) IN Outcome(x, r) /\ r.x.state # "select_slave"
  <1> DEFINE y == [x EXCEPT !.state = "wait_promotion", !.late = FALSE]
             r == sentinelFailoverSendSlaveOfNoOne(x)
             out == SlaveOf(x.promoted, None)
             z == sentinelAbortFailover(x)
  <1>1. r \in {Done(y, out), Done(z, {}), Done(x, {})}
    BY DEF sentinelFailoverSendSlaveOfNoOne
  <1>2. Kept(x, y) /\ Kept(x, z) /\ Kept(x, x)
    BY StateKept, AbortKept, KeptItself DEF Preparing, Promoting
  <1>3. y.state = "wait_promotion" /\ z.state = "none"
    BY DEF sentinelAbortFailover, SentinelOK
  <1>4. Plain(out) /\ Plain({})
    BY SlaveOfPlain, NothingPlain
  <1> HIDE DEF y, z, out, r
  <1>5. Outcome(x, Done(y, out)) /\ Outcome(x, Done(z, {})) /\ Outcome(x, Done(x, {}))
    BY <1>2, <1>4, QuietOutcome
  <1>6. Done(y, out).x = y /\ Done(z, {}).x = z /\ Done(x, {}).x = x
    BY DEF Done
  <1>7. Outcome(x, r) /\ r.x.state # "select_slave"
    BY <1>1, <1>3, <1>5, <1>6
  <1> QED
    BY <1>7 DEF r

LEMMA WaitPromotionKept ==
    ASSUME NEW x, SentinelOK(x), x.state = "wait_promotion"
    PROVE  Kept(x, sentinelFailoverWaitPromotion(x)) /\ sentinelFailoverWaitPromotion(x).state # "select_slave"
  <1>1. Kept(x, sentinelAbortFailover(x)) /\ Kept(x, x)
    BY AbortKept, KeptItself DEF Promoting
  <1>2. sentinelAbortFailover(x).state = "none"
    BY DEF sentinelAbortFailover, SentinelOK
  <1> QED
    BY <1>1, <1>2 DEF sentinelFailoverWaitPromotion

\* One step of the state machine.
LEMMA StateMachine ==
    ASSUME NEW x, SentinelOK(x), NEW q \in sentinelFailoverStateMachine(x)
    PROVE  Outcome(x, q) /\ Elected(q)
  <1>1. CASE x.state \in {"none", "update_config"}
    <2>1. q = Done(x, {})
      BY <1>1 DEF sentinelFailoverStateMachine
    <2> QED
      BY <1>1, <2>1, KeptItself, NothingPlain, QuietOutcome DEF Elected, Done
  <1>2. CASE x.state = "wait_start"
    <2>1. q \in WaitStartOutcomes(x)
      BY <1>2 DEF sentinelFailoverStateMachine
    <2> QED
      BY <1>2, <2>1, WaitStartOutcome
  <1>3. CASE x.state = "select_slave"
    <2>1. q = Done(sentinelFailoverSelectSlave(x), {})
      BY <1>3 DEF sentinelFailoverStateMachine
    <2> QED
      BY <1>3, <2>1, SelectSlaveKept, NothingPlain, QuietOutcome DEF Elected, Done
  <1>4. CASE x.state = "send_slaveof_noone"
    <2>1. q = sentinelFailoverSendSlaveOfNoOne(x)
      BY <1>4 DEF sentinelFailoverStateMachine
    <2> QED
      BY <1>4, <2>1, SendSlaveOfNoOneOutcome DEF Elected
  <1>5. CASE x.state = "wait_promotion"
    <2>1. q = Done(sentinelFailoverWaitPromotion(x), {})
      BY <1>5 DEF sentinelFailoverStateMachine
    <2> QED
      BY <1>5, <2>1, WaitPromotionKept, NothingPlain, QuietOutcome DEF Elected, Done
  <1>6. CASE x.state = "reconf_slaves"
    <2>1. \E seen, old : q = sentinelFailoverReconfNextSlave(x, seen, old)
      BY <1>6 DEF sentinelFailoverStateMachine
    <2> QED
      BY <1>6, <2>1, ReconfOutcome DEF Elected
  <1> QED
    BY <1>1, <1>2, <1>3, <1>4, <1>5, <1>6 DEF SentinelOK, States

\* A forgotten master, under a new address, with its slaves added again.
LEMMA ResetOK ==
    ASSUME NEW x, SentinelOK(x), NEW new
    PROVE  LET r == sentinelResetMasterAndChangeAddress(x, new) IN
           /\ SentinelOK(r.x) /\ r.x.me = x.me /\ r.x.reply = x.reply /\ r.x.lepoch = x.lepoch
           /\ r.x.leader = None /\ r.x.state = "none" /\ r.x.addr = new /\ r.x.cur = x.cur
           /\ r.x.config = x.config /\ r.out = {} /\ r.flush
  <1> DEFINE b == [x EXCEPT !.addr = new]
             c == sentinelResetMaster(b)
             S == (x.slaves \cup {x.addr}) \ {new}
             d == NewInstances(c, S)
  <1>1. sentinelResetMasterAndChangeAddress(x, new) = Flushed(d, {})
    BY DEF sentinelResetMasterAndChangeAddress
  <1> HIDE DEF S
  <1>2. /\ SentinelOK(b) /\ b.me = x.me /\ b.reply = x.reply /\ b.lepoch = x.lepoch
        /\ b.addr = new /\ b.cur = x.cur /\ b.config = x.config
    BY DEF SentinelOK
  <1> HIDE DEF b
  <1>3. /\ SentinelOK(c) /\ c.me = x.me /\ c.reply = x.reply /\ c.lepoch = x.lepoch
        /\ c.leader = None /\ c.state = "none" /\ c.addr = new /\ c.cur = x.cur /\ c.config = x.config
    BY <1>2 DEF sentinelResetMaster, SentinelOK, States
  <1> HIDE DEF c
  <1>4. /\ SentinelOK(d) /\ d.me = x.me /\ d.reply = x.reply /\ d.lepoch = x.lepoch
        /\ d.leader = None /\ d.state = "none" /\ d.addr = new /\ d.cur = x.cur /\ d.config = x.config
    BY <1>3 DEF NewInstances, SentinelOK
  <1> HIDE DEF d
  <1>5. Flushed(d, {}).x = d /\ Flushed(d, {}).out = {} /\ Flushed(d, {}).flush
    BY DEF Flushed
  <1> QED
    BY <1>1, <1>4, <1>5

LEMMA SwitchOutcome ==
    ASSUME NEW x, SentinelOK(x), NEW r, Outcome(x, r), Elected(r)
    PROVE  Outcome(x, AfterDict(r)) /\ Elected(AfterDict(r))
  <1>1. CASE r.x.state # "update_config"
    BY <1>1 DEF AfterDict
  <1>2. CASE r.x.state = "update_config"
    <2> DEFINE w == sentinelResetMasterAndChangeAddress(r.x, r.x.promoted)
               q == Then(r, w)
    <2>1. SentinelOK(r.x)
      BY DEF Outcome, Kept, SameVotes, Voted
    <2>2. /\ SentinelOK(w.x) /\ w.x.me = r.x.me /\ w.x.reply = r.x.reply /\ w.x.lepoch = r.x.lepoch
          /\ w.x.leader = None /\ w.x.state = "none" /\ w.x.addr = r.x.promoted
          /\ w.x.cur = r.x.cur /\ w.x.config = r.x.config /\ w.out = {} /\ w.flush
      BY <2>1, ResetOK
    <2>3. AfterDict(r) = q
      BY <1>2 DEF AfterDict, sentinelFailoverSwitchToPromotedSlave
    <2> HIDE DEF w
    <2>4. q.x = w.x /\ q.out = r.out \cup w.out /\ (r.flush => q.flush)
      BY <2>2 DEF Then
    <2>5. Kept(r.x, q.x)
      BY <1>2, <2>1, <2>2, <2>4
         DEF Kept, SameVotes, SameConfig, sentinelGetCurrentMasterAddress, Promoting, Preparing, SentinelOK
    <2>6. Plain(q.out)
      BY <2>2, <2>4 DEF Outcome, Plain
    <2> HIDE DEF q
    <2>7. Outcome(x, q)
      BY <2>4, <2>5, <2>6, OutcomeGoesOn
    <2> QED
      BY <2>2, <2>3, <2>4, <2>7 DEF Elected
  <1> QED
    BY <1>1, <1>2

\* The timer of a sentinel, as a whole.
LEMMA TimerOutcome ==
    ASSUME NEW s, SentinelOK(sent[s]), NEW q \in sentinelHandleRedisInstance(s)
    PROVE  Outcome(sent[s], q) /\ Elected(q)
  <1>1. PICK elapsed, long : \E r \in sentinelFailoverStateMachine(Checked(s, elapsed, long)) :
            q = AfterDict(Then(r, Done(r.x, sentinelAskMasterStateToOtherSentinels(r.x))))
    BY DEF sentinelHandleRedisInstance
  <1> DEFINE x == Checked(s, elapsed, long)
  <1>2. PICK r \in sentinelFailoverStateMachine(x) :
            q = AfterDict(Then(r, Done(r.x, sentinelAskMasterStateToOtherSentinels(r.x))))
    BY <1>1
  <1> DEFINE ask == sentinelAskMasterStateToOtherSentinels(r.x)
             p == Then(r, Done(r.x, ask))
  <1>3. Kept(sent[s], x) /\ SentinelOK(x)
    BY CheckedKept DEF Kept, SameVotes
  <1> HIDE DEF x
  <1>4. Outcome(x, r) /\ Elected(r)
    BY <1>2, <1>3, StateMachine
  <1>5. SentinelOK(r.x)
    BY <1>4 DEF Outcome, Kept, SameVotes, Voted
  <1>6. Plain(ask)
    BY <1>5, AskPlain
  <1> HIDE DEF ask
  <1>7. p.x = r.x /\ (r.flush => p.flush) /\ p.out = r.out \cup ask
    BY DEF Then, Done
  <1>8. q = AfterDict(p)
    BY <1>2 DEF ask
  <1> HIDE DEF p
  <1>9. Outcome(x, p) /\ Elected(p)
    BY <1>4, <1>6, <1>7 DEF Outcome, Plain, Voted, Elected
  <1>10. Outcome(x, AfterDict(p)) /\ Elected(AfterDict(p))
    BY <1>3, <1>9, SwitchOutcome
  <1> QED
    BY <1>3, <1>8, <1>10, OutcomeAfter
-----------------------------------------------------------------------------
(* The invariant of the elections *)

Vote(by, epoch, for) == [by |-> by, epoch |-> epoch, for |-> for]

\* Every vote a sentinel remembers, reports or has heard of was given.
Backed(x) ==
    /\ x.leader # None => Vote(x.me, x.lepoch, x.leader) \in votes
    /\ \A u \in Sentinels :
        x.reply[u].leader # None => Vote(u, x.reply[u].epoch, x.reply[u].leader) \in votes

SentinelsOK ==
    /\ DOMAIN sent = Sentinels
    /\ \A s \in Sentinels : SentinelOK(sent[s]) /\ sent[s].me = s /\ Backed(sent[s])

\* The epoch of the last vote is on the disk, so that a crash does not forget it.
FileOK(s, c) ==
    /\ c.cur \in Nat /\ c.config \in Nat /\ c.known \subseteq Sentinels \ {s}
    /\ c.lepoch = sent[s].lepoch /\ c.lepoch <= c.cur

FilesOK == DOMAIN disk = Sentinels /\ \A s \in Sentinels : FileOK(s, disk[s])

MessagesOK ==
    \A m \in net :
        /\ MessageOK(m)
        /\ m.type = "answer" /\ m.leader # None => Vote(m.src, m.epoch, m.leader) \in votes

VotesOK ==
    /\ \A v \in votes : v.by \in Sentinels /\ v.epoch \in Nat /\ v.epoch <= sent[v.by].lepoch
    /\ OneVotePerEpoch

\* Whoever won has a quorum that named it, and its own vote may be for another epoch.
WonOK ==
    \A w \in won :
        /\ w.by \in Sentinels
        /\ \E Q \in SUBSET Sentinels :
            /\ Cardinality(Q) >= Quorum
            /\ \A u \in Q : \/ Vote(u, w.cur, w.by) \in votes
                            \/ u = w.by /\ Vote(u, w.epoch, u) \in votes

EnvOK ==
    /\ DOMAIN env = {"cut", "talk", "links", "commands", "timers", "crash", "tilt",
                     "info", "stale", "dies", "revives", "epochs", "packets"}
    /\ \A s \in Sentinels : <<s, s>> \notin env.talk

EInv == SentinelsOK /\ FilesOK /\ MessagesOK /\ VotesOK /\ WonOK /\ EnvOK

-----------------------------------------------------------------------------
(* The invariant of the configurations *)

\* Somebody promoted address a for epoch e, or the sentinels started with it.
Named(e, a) == \E p \in promotions : p.epoch = e /\ p.addr = a

\* What is in memory, in the file and under way names a promoted slave, and a crash
\* does not change the address that a sentinel gives to the clients.
ConfigsOK ==
    /\ \A s \in Sentinels :
        /\ Named(sent[s].config, sentinelGetCurrentMasterAddress(sent[s]))
        /\ Named(disk[s].config, disk[s].addr)
        /\ disk[s].addr = sentinelGetCurrentMasterAddress(sent[s])
    /\ \A m \in net : m.type = "hello" => Named(m.config, m.addr)

\* A sentinel promotes one slave for an epoch: the epoch of a failover under way is
\* after those of its promotions, and the file does not forget them.
PromotionsOK ==
    /\ \A p \in promotions : p.by # None =>
        /\ p.by \in Sentinels /\ p.epoch \in Nat
        /\ p.epoch <= sent[p.by].cur /\ p.epoch <= disk[p.by].cur
        /\ Preparing(sent[p.by]) => p.epoch < sent[p.by].fepoch
    /\ \A p, q \in promotions : p.by = q.by /\ p.epoch = q.epoch => p.addr = q.addr

CInv == (crossed \/ ConfigsOK) /\ PromotionsOK

IInv == EInv /\ CInv
-----------------------------------------------------------------------------
(* A step of a sentinel *)

\* A handler gives at most one vote, which is flushed; what it believes of the
\* others' votes is true; an answer tells its own vote.
VoteStep(s, r) ==
    /\ SentinelOK(r.x) /\ r.x.me = s
    /\ \/ r.x.lepoch = sent[s].lepoch /\ r.x.leader \in {None, sent[s].leader}
       \/ r.x.lepoch > sent[s].lepoch /\ r.flush
    /\ \A u \in Sentinels :
        r.x.reply[u].leader # None => Vote(u, r.x.reply[u].epoch, r.x.reply[u].leader) \in votes
    /\ \A m \in r.out :
        /\ MessageOK(m)
        /\ m.type = "answer" => m.src = s /\ m.leader \in {None, r.x.leader} /\
                                (m.leader # None => m.epoch = r.x.lepoch)

LEMMA FileWritten ==
    ASSUME NEW x PROVE LET c == rewriteConfigSentinelOption(x) IN
        /\ c.cur = x.cur /\ c.config = x.config /\ c.lepoch = x.lepoch /\ c.known = x.known
        /\ c.addr = sentinelGetCurrentMasterAddress(x)
  BY DEF rewriteConfigSentinelOption

LEMMA CommitVotes ==
    ASSUME EInv, NEW s \in Sentinels, NEW r, NEW used, Commit(s, r, used), VoteStep(s, r)
    PROVE  /\ SentinelsOK' /\ FilesOK' /\ MessagesOK' /\ VotesOK'
           /\ votes \subseteq votes'
           /\ sent'[s] = r.x /\ \A t \in Sentinels \ {s} : sent'[t] = sent[t]
  <1> USE DEF EInv
  <1> DEFINE new == Vote(s, r.x.lepoch, r.x.leader)
             x == sent[s]
  <1>1. /\ DOMAIN sent' = Sentinels
        /\ sent'[s] = r.x /\ \A t \in Sentinels \ {s} : sent'[t] = sent[t]
    BY DEF Commit, SentinelsOK
  <1>2. x.lepoch \in Nat /\ r.x.lepoch \in Nat /\ SentinelOK(x) /\ x.me = s
    BY DEF SentinelsOK, SentinelOK, VoteStep
  <1>3. \/ votes' = votes \cup {new} /\ r.x.lepoch > x.lepoch /\ r.flush
        \/ votes' = votes /\ r.x.lepoch = x.lepoch /\ r.x.leader \in {None, x.leader}
    BY <1>2 DEF Commit, VoteStep, Vote
  <1>4. votes \subseteq votes'
    BY <1>3
  <1>5. r.x.leader # None => new \in votes'
    BY <1>2, <1>3 DEF SentinelsOK, Backed
  <1>6. SentinelsOK'
    <2> SUFFICES ASSUME NEW t \in Sentinels
                 PROVE  SentinelOK(sent'[t]) /\ sent'[t].me = t /\ Backed(sent[t])'
      BY <1>1 DEF SentinelsOK
    <2>1. CASE t = s
      BY <1>1, <1>4, <1>5, <2>1 DEF VoteStep, Backed
    <2>2. CASE t # s
      BY <1>1, <1>4, <2>2 DEF SentinelsOK, Backed
    <2> QED
      BY <2>1, <2>2
  <1>7. FilesOK'
    <2> SUFFICES ASSUME NEW t \in Sentinels
                 PROVE  FileOK(t, disk[t])'
      BY DEF FilesOK, Commit
    <2>1. CASE t = s /\ r.flush
      <3>1. disk'[s] = rewriteConfigSentinelOption(r.x)
        BY <2>1 DEF Commit, FilesOK
      <3> QED
        BY <1>1, <2>1, <3>1, FileWritten DEF FileOK, VoteStep, SentinelOK
    <2>2. CASE t = s /\ ~r.flush
      BY <1>1, <1>3, <2>2 DEF Commit, FilesOK, FileOK
    <2>3. CASE t # s
      BY <1>1, <2>3 DEF Commit, FilesOK, FileOK
    <2> QED
      BY <2>1, <2>2, <2>3
  <1>8. MessagesOK'
    <2> SUFFICES ASSUME NEW m \in net'
                 PROVE  /\ MessageOK(m)
                        /\ m.type = "answer" /\ m.leader # None => Vote(m.src, m.epoch, m.leader) \in votes'
      BY DEF MessagesOK
    <2>1. CASE m \in net
      BY <1>4, <2>1 DEF MessagesOK
    <2>2. CASE m \in r.out
      BY <1>5, <2>2 DEF VoteStep
    <2> QED
      BY <2>1, <2>2 DEF Commit
  <1>9. VotesOK'
    <2>1. CASE votes' = votes /\ r.x.lepoch = x.lepoch
      BY <1>1, <2>1 DEF VotesOK, OneVotePerEpoch
    <2>2. CASE votes' = votes \cup {new} /\ r.x.lepoch > x.lepoch
      <3>1. new.by = s /\ new.epoch = r.x.lepoch /\ new.for = r.x.leader
        BY DEF Vote
      <3> HIDE DEF new
      <3>2. \A v \in votes : v.by = s => v.epoch < r.x.lepoch
        BY <1>2, <2>2 DEF VotesOK
      <3>3. \A v \in votes' : v.by \in Sentinels /\ v.epoch \in Nat /\ v.epoch <= sent'[v.by].lepoch
        BY <1>1, <1>2, <2>2, <3>1, <3>2 DEF VotesOK
      <3>4. OneVotePerEpoch'
        BY <1>2, <2>2, <3>1, <3>2 DEF VotesOK, OneVotePerEpoch
      <3> QED
        BY <3>3, <3>4 DEF VotesOK
    <2> QED
      BY <1>3, <2>1, <2>2
  <1> QED
    BY <1>1, <1>4, <1>6, <1>7, <1>8, <1>9

\* A handler keeps the configuration, adopts one that somebody named, or promotes a
\* slave for the epoch of its failover.
ConfigStep(s, r) ==
    LET x == sent[s] IN
    /\ r.x.cur >= x.cur
    /\ Preparing(r.x) => (Preparing(x) /\ r.x.fepoch = x.fepoch) \/ r.x.fepoch > x.cur
    /\ x.state = "wait_promotion" /\ r.x.state = "reconf_slaves" => r.x.config = x.fepoch /\ r.flush
    /\ r.x.config >= x.config \/ (x.state = "wait_promotion" /\ r.x.state = "reconf_slaves")
    /\ \/ crossed'
       \/ /\ \/ Named(r.x.config, sentinelGetCurrentMasterAddress(r.x))
             \/ x.state = "wait_promotion" /\ r.x.state = "reconf_slaves"
          /\ r.flush \/ sentinelGetCurrentMasterAddress(r.x) = sentinelGetCurrentMasterAddress(x)
    /\ \A m \in r.out : m.type = "hello" =>
        m.config = r.x.config /\ m.addr = sentinelGetCurrentMasterAddress(r.x)

LEMMA CommitConfig ==
    ASSUME IInv, NEW s \in Sentinels, NEW r, NEW used, Commit(s, r, used), VoteStep(s, r),
           ConfigStep(s, r), crossed => crossed'
    PROVE  CInv'
  <1> DEFINE x == sent[s]
             new == [by |-> s, epoch |-> r.x.config, addr |-> r.x.promoted]
             promotes == x.state = "wait_promotion" /\ r.x.state = "reconf_slaves"
             addr(y) == sentinelGetCurrentMasterAddress(y)
  <1>1. /\ sent'[s] = r.x /\ \A t \in Sentinels \ {s} : sent'[t] = sent[t]
    BY CommitVotes DEF IInv
  <1>2. IF promotes THEN promotions' = promotions \cup {new} ELSE promotions' = promotions
    BY DEF Commit
  <1>3. /\ r.flush => disk'[s] = rewriteConfigSentinelOption(r.x)
        /\ ~r.flush => disk'[s] = disk[s]
        /\ \A t \in Sentinels \ {s} : disk'[t] = disk[t]
    BY DEF Commit, IInv, EInv, FilesOK
  <1>4. new.by = s /\ new.epoch = r.x.config /\ new.addr = r.x.promoted
    OBVIOUS
  <1> HIDE DEF new
  <1>5. \A e, a : Named(e, a) => Named(e, a)'
    BY <1>2 DEF Named
  <1>6. crossed' \/ Named(r.x.config, addr(r.x))'
    <2>1. CASE promotes
      BY <1>2, <1>4, <2>1 DEF Named, sentinelGetCurrentMasterAddress, Promoting
    <2>2. CASE ~promotes
      BY <1>5, <2>2 DEF ConfigStep
    <2> QED
      BY <2>1, <2>2
  <1>7. crossed' \/ ConfigsOK'
    <2> SUFFICES ASSUME ~crossed' PROVE ConfigsOK'
      OBVIOUS
    <2>1. ConfigsOK
      BY DEF IInv, CInv
    <2>2. ASSUME NEW t \in Sentinels
          PROVE  /\ Named(sent[t].config, sentinelGetCurrentMasterAddress(sent[t]))'
                 /\ Named(disk[t].config, disk[t].addr)'
                 /\ disk'[t].addr = sentinelGetCurrentMasterAddress(sent'[t])
      <3>1. CASE t # s
        BY <1>1, <1>3, <1>5, <2>1, <3>1 DEF ConfigsOK
      <3>2. CASE t = s
        <4>1. Named(sent[t].config, sentinelGetCurrentMasterAddress(sent[t]))'
          BY <1>1, <1>6, <3>2
        <4>2. CASE r.flush
          <5>1. disk'[s].addr = addr(r.x) /\ disk'[s].config = r.x.config
            BY <1>3, <4>2, FileWritten
          <5> QED
            BY <1>1, <1>6, <3>2, <4>1, <5>1
        <4>3. CASE ~r.flush
          <5>1. disk'[s] = disk[s] /\ addr(r.x) = addr(x)
            BY <1>3, <4>3 DEF ConfigStep
          <5> QED
            BY <1>1, <1>5, <2>1, <3>2, <4>1, <5>1 DEF ConfigsOK
        <4> QED
          BY <4>2, <4>3
      <3> QED
        BY <3>1, <3>2
    <2>3. ASSUME NEW m \in net', m.type = "hello" PROVE Named(m.config, m.addr)'
      <3>1. m \in net \/ m \in r.out
        BY DEF Commit
      <3>2. CASE m \in net
        BY <1>5, <2>1, <2>3, <3>2 DEF ConfigsOK
      <3>3. CASE m \in r.out
        BY <1>6, <2>3, <3>3 DEF ConfigStep
      <3> QED
        BY <3>1, <3>2, <3>3
    <2> QED
      BY <2>2, <2>3 DEF ConfigsOK
  <1>8. PromotionsOK'
    <2>1. PromotionsOK
      BY DEF IInv, CInv
    <2>2. /\ x.cur \in Nat /\ r.x.cur \in Nat /\ x.fepoch \in Nat /\ r.x.fepoch \in Nat
          /\ r.x.config \in Nat /\ r.x.config <= r.x.cur /\ disk[s].cur \in Nat
      BY DEF IInv, EInv, SentinelsOK, SentinelOK, VoteStep, FilesOK, FileOK
    <2>3. r.flush => disk'[s].cur = r.x.cur
      BY <1>3, FileWritten
    <2>4. s # None
      BY SentinelsAssumption DEF None
    <2>5. ASSUME NEW p \in promotions, p.by # None
          PROVE  /\ p.by \in Sentinels /\ p.epoch \in Nat
                 /\ p.epoch <= sent'[p.by].cur /\ p.epoch <= disk'[p.by].cur
                 /\ Preparing(sent'[p.by]) => p.epoch < sent'[p.by].fepoch
      <3>1. /\ p.by \in Sentinels /\ p.epoch \in Nat
            /\ p.epoch <= sent[p.by].cur /\ p.epoch <= disk[p.by].cur
            /\ Preparing(sent[p.by]) => p.epoch < sent[p.by].fepoch
        BY <2>1, <2>5 DEF PromotionsOK
      <3>2. CASE p.by # s
        BY <1>1, <1>3, <3>1, <3>2
      <3>3. CASE p.by = s
        <4>1. p.epoch <= r.x.cur
          BY <2>2, <3>1, <3>3 DEF ConfigStep
        <4>2. Preparing(r.x) => p.epoch < r.x.fepoch
          BY <2>2, <3>1, <3>3 DEF ConfigStep
        <4> QED
          BY <1>1, <1>3, <2>3, <3>1, <3>3, <4>1, <4>2
      <3> QED
        BY <3>2, <3>3
    <2>6. CASE ~promotes
      BY <1>2, <2>1, <2>5, <2>6 DEF PromotionsOK
    <2>7. CASE promotes
      <3>1. r.x.config = x.fepoch /\ r.flush /\ Preparing(x) /\ ~Preparing(r.x)
        BY <2>7 DEF ConfigStep, Preparing
      <3>2. /\ new.by \in Sentinels /\ new.epoch \in Nat
            /\ new.epoch <= sent'[new.by].cur /\ new.epoch <= disk'[new.by].cur
            /\ Preparing(sent'[new.by]) => new.epoch < sent'[new.by].fepoch
        BY <1>1, <1>4, <2>2, <2>3, <3>1
      <3>3. \A p \in promotions : p.by = s => p.epoch # new.epoch
        BY <1>4, <2>1, <2>2, <2>4, <3>1 DEF PromotionsOK
      <3> QED
        BY <1>2, <1>4, <2>1, <2>5, <2>7, <3>2, <3>3 DEF PromotionsOK
    <2> QED
      BY <2>6, <2>7
  <1> QED
    BY <1>7, <1>8 DEF CInv

\* Steps that leave the configuration alone and tell nobody of votes.
LEMMA OutcomeSteps ==
    ASSUME IInv, NEW s \in Sentinels, NEW r, Outcome(sent[s], r), crossed => crossed'
    PROVE  VoteStep(s, r) /\ ConfigStep(s, r)
  <1> DEFINE x == sent[s]
  <1>1. SentinelOK(x) /\ x.me = s /\ Backed(x)
    BY DEF IInv, EInv, SentinelsOK
  <1>2. \A m \in r.out : MessageOK(m) /\ m.type \in {"ask", "slaveof"}
    BY DEF Outcome, Plain
  <1>3. VoteStep(s, r)
    BY <1>1, <1>2 DEF VoteStep, Outcome, Kept, SameVotes, Voted, Backed
  <1>4. SameConfig(x, r.x)
    BY DEF Outcome, Kept, Voted
  <1>5. crossed \/ Named(x.config, sentinelGetCurrentMasterAddress(x))
    BY DEF IInv, CInv, ConfigsOK
  <1>6. ConfigStep(s, r)
    BY <1>1, <1>2, <1>4, <1>5 DEF ConfigStep, SameConfig, Promoting, SentinelOK
  <1> QED
    BY <1>3, <1>6

LEMMA WonKept ==
    ASSUME IInv, votes \subseteq votes', won' = won
    PROVE  WonOK'
  BY DEF IInv, EInv, WonOK

\* The step that ConfigNeverGoesBack allows.
NoWayBack ==
    \A s \in Sentinels :
        \/ sent'[s].config >= sent[s].config
        \/ /\ env'.crash # env.crash
           /\ sent'[s].addr = sentinelGetCurrentMasterAddress(sent[s]) \/ crossed
        \/ /\ sent[s].state = "wait_promotion" /\ sent'[s].state = "reconf_slaves"
           /\ sent'[s].config = sent[s].fepoch

LEMMA EnvKept ==
    ASSUME IInv,
           \/ env' = env
           \/ \E v : env' = [env EXCEPT !.tilt = v]
           \/ \E v : env' = [env EXCEPT !.commands = v]
           \/ \E v : env' = [env EXCEPT !.crash = v]
           \/ \E v, w : env' = [env EXCEPT !.revives = v, !.dies = w]
    PROVE  EnvOK'
  BY DEF IInv, EInv, EnvOK

LEMMA CommitKeepsConfig ==
    ASSUME IInv, NEW s \in Sentinels, NEW r, NEW used, Commit(s, r, used), VoteStep(s, r), ConfigStep(s, r)
    PROVE  NoWayBack
  <1>1. /\ sent'[s] = r.x /\ \A t \in Sentinels \ {s} : sent'[t] = sent[t]
    BY CommitVotes DEF IInv
  <1>2. \A t \in Sentinels : sent[t].config \in Nat
    BY DEF IInv, EInv, SentinelsOK, SentinelOK
  <1> QED
    BY <1>1, <1>2 DEF ConfigStep, NoWayBack

\* A step of a handler that was not an election.
LEMMA HandlerStep ==
    ASSUME IInv, NEW s \in Sentinels, NEW r, NEW used, Commit(s, r, used),
           VoteStep(s, r), ConfigStep(s, r), crossed => crossed', EnvOK', won' = won
    PROVE  IInv' /\ NoWayBack
  <1>1. CInv'
    BY CommitConfig
  <1>2. SentinelsOK' /\ FilesOK' /\ MessagesOK' /\ VotesOK' /\ votes \subseteq votes'
    BY CommitVotes DEF IInv
  <1>3. WonOK'
    BY <1>2, WonKept
  <1>4. NoWayBack
    BY CommitKeepsConfig
  <1> QED
    BY <1>1, <1>2, <1>3, <1>4 DEF IInv, EInv

LEMMA QuietStep ==
    ASSUME IInv, NEW s \in Sentinels, NEW y, NEW used, Commit(s, Done(y, {}), used),
           Kept(sent[s], y), crossed' = crossed, EnvOK', won' = won
    PROVE  IInv' /\ NoWayBack
  <1>1. Outcome(sent[s], Done(y, {}))
    BY QuietOutcome, NothingPlain
  <1>2. VoteStep(s, Done(y, {})) /\ ConfigStep(s, Done(y, {}))
    BY <1>1, OutcomeSteps
  <1> QED
    BY <1>2, HandlerStep

LEMMA HandleMasterStep ==
    ASSUME IInv, NEW s \in Sentinels, HandleMaster(s)
    PROVE  IInv' /\ NoWayBack
  <1>1. PICK q \in sentinelHandleRedisInstance(s) :
            /\ Commit(s, q, {})
            /\ won' = IF q.x.state = "select_slave" /\ ~q.x.forced
                      THEN won \cup {[by |-> s, epoch |-> q.x.fepoch, cur |-> q.x.cur]} ELSE won
    BY DEF HandleMaster
  <1>2. crossed' = crossed /\ env' = env
    BY DEF HandleMaster
  <1>3. Outcome(sent[s], q) /\ Elected(q)
    BY TimerOutcome DEF IInv, EInv, SentinelsOK
  <1>4. VoteStep(s, q) /\ ConfigStep(s, q)
    BY <1>2, <1>3, OutcomeSteps
  <1>5. CInv'
    BY <1>1, <1>2, <1>4, CommitConfig
  <1>6. SentinelsOK' /\ FilesOK' /\ MessagesOK' /\ VotesOK' /\ votes \subseteq votes' /\ sent'[s] = q.x
    BY <1>1, <1>4, CommitVotes DEF IInv
  <1>7. EnvOK'
    BY <1>2, EnvKept
  <1>8. WonOK'
    <2>1. CASE won' = won
      BY <1>6, <2>1, WonKept
    <2>2. CASE /\ q.x.state = "select_slave" /\ ~q.x.forced
               /\ won' = won \cup {[by |-> s, epoch |-> q.x.fepoch, cur |-> q.x.cur]}
      <3> DEFINE w == [by |-> s, epoch |-> q.x.fepoch, cur |-> q.x.cur]
      <3>1. w.by = s /\ w.epoch = q.x.fepoch /\ w.cur = q.x.cur
        OBVIOUS
      <3>2. won' = won \cup {w}
        BY <2>2
      <3> HIDE DEF w
      <3>3. PICK Q \in SUBSET Sentinels :
              /\ Cardinality(Q) >= Quorum
              /\ \A u \in Q : \/ q.x.reply[u] = [leader |-> q.x.me, epoch |-> q.x.cur]
                              \/ u = q.x.me /\ q.x.leader = u /\ q.x.lepoch = q.x.fepoch
        BY <1>3, <2>2 DEF Elected
      <3>4. Backed(q.x)' /\ q.x.me = s /\ s # None
        BY <1>6, SentinelsAssumption DEF SentinelsOK, None
      <3>5. ASSUME NEW u \in Q
            PROVE  \/ Vote(u, w.cur, w.by) \in votes'
                   \/ u = w.by /\ Vote(u, w.epoch, u) \in votes'
        <4>1. CASE q.x.reply[u] = [leader |-> q.x.me, epoch |-> q.x.cur]
          BY <3>1, <3>4, <4>1 DEF Backed
        <4>2. CASE u = q.x.me /\ q.x.leader = u /\ q.x.lepoch = q.x.fepoch
          BY <3>1, <3>4, <4>2 DEF Backed
        <4> QED
          BY <3>3, <4>1, <4>2
      <3>6. /\ w.by \in Sentinels
            /\ \E R \in SUBSET Sentinels :
                /\ Cardinality(R) >= Quorum
                /\ \A u \in R : \/ Vote(u, w.cur, w.by) \in votes'
                                \/ u = w.by /\ Vote(u, w.epoch, u) \in votes'
        BY <3>1, <3>3, <3>5
      <3> QED
        BY <1>6, <3>2, <3>6 DEF IInv, EInv, WonOK
    <2> QED
      BY <1>1, <2>1, <2>2
  <1>9. NoWayBack
    BY <1>1, <1>4, CommitKeepsConfig
  <1> QED
    BY <1>5, <1>6, <1>7, <1>8, <1>9 DEF IInv, EInv

LEMMA HandleSlaveStep ==
    ASSUME IInv, NEW s \in Sentinels, NEW r, HandleSlave(s, r)
    PROVE  IInv' /\ NoWayBack
  <1> DEFINE x == sentinelCheckSubjectivelyDown(sent[s], r, ~Reach(s, r), FALSE)
             down == ~Reach(s, r) \/ (r = sent[s].addr /\ sent[s].role = "slave" /\ FALSE)
             v == IF down THEN sent[s].sdown \cup {r} ELSE sent[s].sdown \ {r}
  <1>1. SentinelOK(sent[s])
    BY DEF IInv, EInv, SentinelsOK
  <1>2. x = [sent[s] EXCEPT !.sdown = v]
    BY DEF sentinelCheckSubjectivelyDown
  <1> HIDE DEF v, x
  <1>3. Kept(sent[s], x)
    BY <1>1, <1>2, FlagsKept
  <1>4. Commit(s, Done(x, {}), {}) /\ crossed' = crossed /\ env' = env /\ won' = won
    BY DEF HandleSlave, x
  <1> QED
    BY <1>3, <1>4, EnvKept, QuietStep

LEMMA TimePassesStep ==
    ASSUME IInv, NEW s \in Sentinels, TimePasses(s)
    PROVE  IInv' /\ NoWayBack
  <1> DEFINE x == sent[s]
             w == IF x.state = "none" THEN FALSE ELSE x.wait
             l == x.state # "none"
             y == [x EXCEPT !.wait = w, !.late = l]
  <1>1. SentinelOK(x)
    BY DEF IInv, EInv, SentinelsOK
  <1>2. Commit(s, Done(y, {}), {}) /\ crossed' = crossed /\ env' = env /\ won' = won
    BY DEF TimePasses
  <1> HIDE DEF w, l
  <1>3. Kept(x, y)
    BY <1>1 DEF SentinelOK, Kept, SameVotes, SameConfig, sentinelGetCurrentMasterAddress, Promoting, Preparing
  <1> HIDE DEF y
  <1> QED
    BY <1>2, <1>3, EnvKept, QuietStep

\* What a sentinel knows of the others changes, and nothing else.
LEMMA RepliesStep ==
    ASSUME IInv, NEW s \in Sentinels, NEW y, NEW used, Commit(s, Done(y, {}), used),
           SentinelOK(y), y.me = s, y.lepoch = sent[s].lepoch, y.leader \in {None, sent[s].leader},
           SameConfig(sent[s], y), crossed' = crossed, EnvOK', won' = won,
           \A u \in Sentinels :
              y.reply[u].leader # None => Vote(u, y.reply[u].epoch, y.reply[u].leader) \in votes
    PROVE  IInv' /\ NoWayBack
  <1> DEFINE r == Done(y, {})
  <1>1. r.x = y /\ r.out = {}
    BY DEF Done
  <1> HIDE DEF r
  <1>2. VoteStep(s, r)
    BY <1>1 DEF VoteStep
  <1>3. crossed \/ Named(sent[s].config, sentinelGetCurrentMasterAddress(sent[s]))
    BY DEF IInv, CInv, ConfigsOK
  <1>4. ConfigStep(s, r)
    BY <1>1, <1>3 DEF ConfigStep, SameConfig, Promoting, SentinelOK
  <1> QED
    BY <1>2, <1>4, HandlerStep DEF r

LEMMA ReplyIsStaleStep ==
    ASSUME IInv, NEW s \in Sentinels, NEW t \in Sentinels, ReplyIsStale(s, t)
    PROVE  IInv' /\ NoWayBack
  <1> DEFINE x == sent[s]
             y == [x EXCEPT !.down = @ \ {t}, !.reply[t].leader = None]
  <1>1. SentinelOK(x) /\ x.me = s /\ Backed(x)
    BY DEF IInv, EInv, SentinelsOK
  <1>2. Commit(s, Done(y, {}), {}) /\ crossed' = crossed /\ env' = env /\ won' = won
    BY DEF ReplyIsStale
  <1>3. /\ y.me = x.me /\ y.lepoch = x.lepoch /\ y.leader = x.leader /\ y.cur = x.cur
        /\ y.config = x.config /\ y.addr = x.addr /\ y.promoted = x.promoted /\ y.state = x.state
        /\ y.fepoch = x.fepoch /\ y.known = x.known /\ DOMAIN y = DOMAIN x
        /\ y.reply = [x.reply EXCEPT ![t].leader = None]
    BY <1>1 DEF SentinelOK
  <1> HIDE DEF y
  <1>4. SentinelOK(y)
    BY <1>1, <1>3 DEF SentinelOK
  <1>5. SameConfig(x, y)
    BY <1>1, <1>3 DEF SameConfig, sentinelGetCurrentMasterAddress, Promoting, Preparing, SentinelOK
  <1>6. \A u \in Sentinels : y.reply[u].leader # None => y.reply[u] = x.reply[u]
    BY <1>1, <1>3 DEF SentinelOK
  <1>7. \A u \in Sentinels :
              y.reply[u].leader # None => Vote(u, y.reply[u].epoch, y.reply[u].leader) \in votes
    BY <1>1, <1>6 DEF Backed
  <1> QED
    BY <1>1, <1>2, <1>3, <1>4, <1>5, <1>7, EnvKept, RepliesStep

LEMMA TiltStep ==
    ASSUME IInv, NEW s \in Sentinels, sentinelCheckTiltCondition(s)
    PROVE  IInv' /\ NoWayBack
  <1> DEFINE y == [sent[s] EXCEPT !.tilt = TRUE]
  <1>1. SentinelOK(sent[s])
    BY DEF IInv, EInv, SentinelsOK
  <1>2. Commit(s, Done(y, {}), {}) /\ crossed' = crossed /\ won' = won
    BY DEF sentinelCheckTiltCondition
  <1>3. EnvOK'
    BY EnvKept DEF sentinelCheckTiltCondition
  <1>4. Kept(sent[s], y)
    BY <1>1, FlagsKept
  <1> QED
    BY <1>2, <1>3, <1>4, QuietStep

LEMMA FailoverCommandStep ==
    ASSUME IInv, NEW s \in Sentinels, FailoverCommand(s)
    PROVE  IInv' /\ NoWayBack
  <1> DEFINE y == [sentinelStartFailover(sent[s]) EXCEPT !.forced = TRUE]
  <1>1. SentinelOK(sent[s])
    BY DEF IInv, EInv, SentinelsOK
  <1>2. Commit(s, Done(y, {}), {}) /\ crossed' = crossed /\ won' = won
    BY DEF FailoverCommand
  <1>3. EnvOK'
    BY EnvKept DEF FailoverCommand
  <1>4. Kept(sent[s], y)
    BY <1>1, StartKept DEF FailoverCommand
  <1> QED
    BY <1>2, <1>3, <1>4, QuietStep

LEMMA ReceiveAnswerStep ==
    ASSUME IInv, NEW m \in net, ReceiveAnswer(m)
    PROVE  IInv' /\ NoWayBack
  <1> DEFINE s == m.dst
             x == sent[s]
             v == IF m.leader # None THEN [leader |-> m.leader, epoch |-> m.epoch] ELSE x.reply[m.src]
             d == IF m.down THEN x.down \cup {m.src} ELSE x.down \ {m.src}
             y == [x EXCEPT !.down = d, !.reply[m.src] = v]
  <1>1. /\ s \in Sentinels /\ m.src \in Sentinels /\ m.epoch \in Nat /\ m.leader \in Sentinels \cup {None}
        /\ m.leader # None => Vote(m.src, m.epoch, m.leader) \in votes
    BY DEF IInv, EInv, MessagesOK, MessageOK, ReceiveAnswer
  <1>2. SentinelOK(x) /\ x.me = s /\ Backed(x)
    BY <1>1 DEF IInv, EInv, SentinelsOK
  <1>3. /\ Commit(s, Done(y, {}), {m}) \/ Commit(s, Done(x, {}), {m})
        /\ crossed' = crossed /\ env' = env /\ won' = won
    BY DEF ReceiveAnswer, sentinelReceiveIsMasterDownReply
  <1>4. CASE Commit(s, Done(x, {}), {m})
    BY <1>1, <1>2, <1>3, <1>4, KeptItself, EnvKept, QuietStep
  <1>5. CASE Commit(s, Done(y, {}), {m})
    <2>1. v \in [leader : Sentinels \cup {None}, epoch : Nat]
      BY <1>1, <1>2 DEF SentinelOK
    <2>2. v.leader # None => Vote(m.src, v.epoch, v.leader) \in votes
      BY <1>1, <1>2 DEF Backed
    <2> HIDE DEF v, d
    <2>3. /\ y.me = x.me /\ y.lepoch = x.lepoch /\ y.leader = x.leader /\ y.cur = x.cur
          /\ y.config = x.config /\ y.addr = x.addr /\ y.promoted = x.promoted /\ y.state = x.state
          /\ y.fepoch = x.fepoch /\ y.known = x.known /\ DOMAIN y = DOMAIN x
          /\ y.reply = [x.reply EXCEPT ![m.src] = v]
      BY <1>2 DEF SentinelOK
    <2> HIDE DEF y
    <2>4. SentinelOK(y)
      <3>1. x.reply \in [Sentinels -> [leader : Sentinels \cup {None}, epoch : Nat]]
        BY <1>2 DEF SentinelOK
      <3>2. y.reply \in [Sentinels -> [leader : Sentinels \cup {None}, epoch : Nat]]
        BY <2>1, <2>3, <3>1
      <3> QED
        BY <1>2, <2>3, <3>2 DEF SentinelOK
    <2>5. SameConfig(x, y)
      BY <1>2, <2>3 DEF SameConfig, sentinelGetCurrentMasterAddress, Promoting, Preparing, SentinelOK
    <2>6. \A u \in Sentinels : y.reply[u] = IF u = m.src THEN v ELSE x.reply[u]
      BY <1>2, <2>3 DEF SentinelOK
    <2>7. \A u \in Sentinels :
                y.reply[u].leader # None => Vote(u, y.reply[u].epoch, y.reply[u].leader) \in votes
      BY <1>2, <2>2, <2>6 DEF Backed
    <2> QED
      BY <1>1, <1>2, <1>3, <1>5, <2>3, <2>4, <2>5, <2>7, EnvKept, RepliesStep
  <1> QED
    BY <1>3, <1>4, <1>5

LEMMA ReceiveAskStep ==
    ASSUME IInv, NEW m \in net, ReceiveAsk(m)
    PROVE  IInv' /\ NoWayBack
  <1> DEFINE s == m.dst
             x == sent[s]
             asked == m.addr = x.addr /\ m.for # None
             r == IF asked THEN sentinelVoteLeader(x, m.epoch, m.for) ELSE Done(x, {})
             answer == [type |-> "answer", src |-> x.me, dst |-> m.src,
                        down |-> ~x.tilt /\ m.addr = x.addr /\ m.addr \in x.sdown,
                        leader |-> IF asked THEN r.x.leader ELSE None,
                        epoch |-> IF asked THEN r.x.lepoch ELSE 0]
             q == [r EXCEPT !.out = {answer}]
  <1>1. s \in Sentinels /\ m.src \in Sentinels /\ m.epoch \in Nat /\ m.for \in Sentinels \cup {None}
    BY DEF IInv, EInv, MessagesOK, MessageOK, ReceiveAsk
  <1>2. SentinelOK(x) /\ x.me = s /\ Backed(x)
    BY <1>1 DEF IInv, EInv, SentinelsOK
  <1>3. Commit(s, q, {m}) /\ crossed' = crossed /\ env' = env /\ won' = won
    BY DEF ReceiveAsk, IsMasterDown
  <1>4. Outcome(x, r)
    BY <1>1, <1>2, VoteLeader, KeptItself, QuietOutcome, NothingPlain
  <1>5. DOMAIN r = {"x", "out", "flush"}
    BY DEF sentinelVoteLeader, Done, Flushed
  <1> HIDE DEF r
  <1>6. q.x = r.x /\ q.flush = r.flush /\ q.out = {answer}
    BY <1>5
  <1> HIDE DEF q
  <1>7. VoteStep(s, r) /\ ConfigStep(s, r)
    BY <1>1, <1>3, <1>4, OutcomeSteps
  <1>8. SentinelOK(r.x)
    BY <1>7 DEF VoteStep
  <1>9. /\ answer.type = "answer" /\ answer.src = s /\ answer.dst = m.src
        /\ answer.leader \in {None, r.x.leader} /\ (answer.leader # None => answer.epoch = r.x.lepoch)
        /\ answer.leader \in Sentinels \cup {None} /\ answer.epoch \in Nat
    BY <1>2, <1>8 DEF SentinelOK
  <1> HIDE DEF answer
  <1>10. MessageOK(answer)
    BY <1>1, <1>9 DEF MessageOK
  <1>11. VoteStep(s, q)
    BY <1>6, <1>7, <1>9, <1>10 DEF VoteStep
  <1>12. ConfigStep(s, q)
    BY <1>6, <1>7, <1>9 DEF ConfigStep
  <1> QED
    BY <1>1, <1>3, <1>11, <1>12, EnvKept, HandlerStep

LEMMA HelloMessage ==
    ASSUME NEW x, SentinelOK(x), NEW t \in Sentinels, t # x.me,
           NEW m \in sentinelSendHello(x, t)
    PROVE  /\ MessageOK(m) /\ m.type = "hello"
           /\ m.config = x.config /\ m.addr = sentinelGetCurrentMasterAddress(x)
  BY DEF sentinelSendHello, MessageOK, SentinelOK

LEMMA SendHelloStep ==
    ASSUME IInv, NEW s \in Sentinels, NEW t \in Sentinels, SendHello(s, t)
    PROVE  IInv' /\ NoWayBack
  <1> DEFINE x == sent[s]
             r == Done(x, sentinelSendHello(x, t))
  <1>1. SentinelOK(x) /\ x.me = s /\ Backed(x) /\ t # s
    BY DEF IInv, EInv, SentinelsOK, EnvOK, SendHello
  <1>2. Commit(s, r, {}) /\ crossed' = crossed /\ env' = env /\ won' = won
    BY DEF SendHello
  <1>3. r.x = x /\ r.out = sentinelSendHello(x, t)
    BY DEF Done
  <1> HIDE DEF r
  <1>4. \A m \in r.out : /\ MessageOK(m) /\ m.type = "hello"
                         /\ m.config = x.config /\ m.addr = sentinelGetCurrentMasterAddress(x)
    BY <1>1, <1>3, HelloMessage
  <1>5. VoteStep(s, r)
    BY <1>1, <1>3, <1>4 DEF VoteStep, Backed
  <1>6. crossed \/ Named(x.config, sentinelGetCurrentMasterAddress(x))
    BY DEF IInv, CInv, ConfigsOK
  <1>7. ConfigStep(s, r)
    BY <1>1, <1>2, <1>3, <1>4, <1>6 DEF ConfigStep, SentinelOK
  <1> QED
    BY <1>2, <1>5, <1>7, EnvKept, HandlerStep

LEMMA ResetCommandStep ==
    ASSUME IInv, NEW s \in Sentinels, ResetCommand(s)
    PROVE  IInv' /\ NoWayBack
  <1> DEFINE x == sent[s]
             z == sentinelResetMaster(x)
             y == [z EXCEPT !.known = {}, !.down = {}, !.reply = [t \in Sentinels |-> NoReply]]
             r == Done(y, {})
  <1>1. SentinelOK(x) /\ x.me = s
    BY DEF IInv, EInv, SentinelsOK
  <1>2. Commit(s, r, {}) /\ crossed' = (crossed \/ Promoting(x)) /\ won' = won
    BY DEF ResetCommand
  <1>3. EnvOK'
    BY EnvKept DEF ResetCommand
  <1>4. /\ SentinelOK(z) /\ z.me = s /\ z.cur = x.cur /\ z.config = x.config /\ z.lepoch = x.lepoch
        /\ z.addr = x.addr /\ z.leader = None /\ z.state = "none"
    BY <1>1 DEF sentinelResetMaster, SentinelOK, States
  <1> HIDE DEF z
  <1>5. /\ SentinelOK(y) /\ y.me = s /\ y.cur = x.cur /\ y.config = x.config /\ y.lepoch = x.lepoch
        /\ y.addr = x.addr /\ y.leader = None /\ y.state = "none"
        /\ \A u \in Sentinels : y.reply[u].leader = None
    BY <1>4 DEF SentinelOK, NoReply, None
  <1> HIDE DEF y
  <1>6. r.x = y /\ r.out = {}
    BY DEF Done
  <1> HIDE DEF r
  <1>7. VoteStep(s, r)
    BY <1>5, <1>6 DEF VoteStep
  <1>8. crossed \/ Named(x.config, sentinelGetCurrentMasterAddress(x))
    BY DEF IInv, CInv, ConfigsOK
  <1>9. sentinelGetCurrentMasterAddress(y) = x.addr
        /\ (~Promoting(x) => sentinelGetCurrentMasterAddress(x) = x.addr)
    BY <1>5 DEF sentinelGetCurrentMasterAddress, Promoting
  <1>10. crossed' \/ (~crossed /\ ~Promoting(x))
    BY <1>2
  <1>11. r.x.cur >= x.cur /\ r.x.config >= x.config /\ ~Preparing(r.x) /\ r.x.state # "reconf_slaves"
    BY <1>1, <1>5, <1>6 DEF SentinelOK, Preparing
  <1>12. ConfigStep(s, r)
    BY <1>5, <1>6, <1>8, <1>9, <1>10, <1>11 DEF ConfigStep
  <1> QED
    BY <1>2, <1>3, <1>7, <1>12, HandlerStep

LEMMA ReceiveHelloStep ==
    ASSUME IInv, NEW m \in net, ReceiveHello(m)
    PROVE  IInv' /\ NoWayBack
  <1> DEFINE s == m.dst
             x == sent[s]
             c == Max({x.cur, m.cur})
             e == IF NewerConfig(x, m) THEN m.config ELSE x.config
             y == [x EXCEPT !.known = @ \cup {m.src}, !.cur = c, !.config = e]
             moves == NewerConfig(x, m) /\ m.addr # x.addr
             p == IF moves THEN sentinelResetMasterAndChangeAddress(y, m.addr) ELSE Done(y, {})
             r == [p EXCEPT !.flush = @ \/ m.src \notin x.known \/ m.cur > x.cur]
             addr(z) == sentinelGetCurrentMasterAddress(z)
  <1>1. /\ s \in Sentinels /\ m.src \in Sentinels /\ m.src # s
        /\ m.cur \in Nat /\ m.config \in Nat /\ m.config <= m.cur
    BY DEF IInv, EInv, MessagesOK, MessageOK, ReceiveHello
  <1>2. SentinelOK(x) /\ x.me = s /\ Backed(x)
    BY <1>1 DEF IInv, EInv, SentinelsOK
  <1>3. /\ Commit(s, r, {m}) /\ env' = env /\ won' = won
        /\ crossed' = (crossed \/ /\ Promoting(x) /\ NewerConfig(x, m) /\ m.addr = x.addr)
    BY DEF ReceiveHello, sentinelProcessHelloMessage
  <1>4. c \in Nat /\ c >= x.cur /\ c >= m.cur
    BY <1>1, <1>2, MaxOfTwo DEF SentinelOK
  <1>5. e \in Nat /\ e <= c /\ e \in {x.config, m.config}
    BY <1>1, <1>2, <1>4 DEF SentinelOK
  <1>6. e >= x.config /\ (NewerConfig(x, m) => m.config >= x.config)
    BY <1>1, <1>2 DEF NewerConfig, SentinelOK
  <1> HIDE DEF c
  <1>7. /\ SentinelOK(y) /\ y.me = s /\ y.reply = x.reply /\ y.lepoch = x.lepoch /\ y.leader = x.leader
        /\ y.cur = c /\ y.config = e /\ y.state = x.state /\ y.fepoch = x.fepoch
        /\ y.addr = x.addr /\ y.promoted = x.promoted
    BY <1>1, <1>2, <1>4, <1>5 DEF SentinelOK
  <1>8. p.out = {} /\ DOMAIN p = {"x", "out", "flush"}
    BY DEF sentinelResetMasterAndChangeAddress, Done, Flushed
  <1> HIDE DEF y
  <1>9. CASE moves
    <2>1. /\ SentinelOK(p.x) /\ p.x.me = s /\ p.x.reply = x.reply /\ p.x.lepoch = x.lepoch
          /\ p.x.leader = None /\ p.x.state = "none" /\ p.x.addr = m.addr /\ p.x.cur = c
          /\ p.x.config = m.config /\ p.flush
      BY <1>7, <1>9, ResetOK
    <2> HIDE DEF p
    <2>2. r.x = p.x /\ r.out = {} /\ r.flush
      BY <1>8, <2>1
    <2> HIDE DEF r
    <2>3. VoteStep(s, r)
      BY <1>2, <2>1, <2>2 DEF VoteStep, Backed
    <2>4. crossed \/ Named(m.config, m.addr)
      BY DEF IInv, CInv, ConfigsOK, ReceiveHello
    <2>5. addr(r.x) = m.addr
      BY <2>1, <2>2 DEF sentinelGetCurrentMasterAddress, Promoting
    <2>6. crossed => crossed'
      BY <1>3
    <2>7. ConfigStep(s, r)
      BY <1>4, <1>9, <1>6, <2>1, <2>2, <2>4, <2>5, <2>6 DEF ConfigStep, Preparing
    <2> QED
      BY <1>1, <1>3, <2>3, <2>6, <2>7, EnvKept, HandlerStep
  <1>10. CASE ~moves
    <2>1. p.x = y
      BY <1>10 DEF Done
    <2> HIDE DEF p
    <2>2. r.x = y /\ r.out = {}
      BY <1>8, <2>1
    <2> HIDE DEF r
    <2>3. VoteStep(s, r)
      BY <1>2, <1>7, <2>2 DEF VoteStep, Backed
    <2>4. crossed \/ (Named(m.config, m.addr) /\ Named(x.config, addr(x)))
      BY <1>1 DEF IInv, CInv, ConfigsOK, ReceiveHello
    <2>5. addr(y) = addr(x)
      BY <1>7 DEF sentinelGetCurrentMasterAddress, Promoting
    <2>6. crossed => crossed'
      BY <1>3
    <2>7. crossed' \/ Named(y.config, addr(y))
      <3>1. CASE NewerConfig(x, m)
        <4>1. m.addr = x.addr
          BY <1>10, <3>1
        <4>2. crossed' \/ ~Promoting(x)
          BY <1>3, <3>1, <4>1
        <4>3. ~Promoting(x) => addr(y) = m.addr
          BY <2>5, <4>1 DEF sentinelGetCurrentMasterAddress
        <4>4. y.config = m.config
          BY <1>7, <3>1
        <4> QED
          BY <2>4, <2>6, <4>2, <4>3, <4>4
      <3>2. CASE ~NewerConfig(x, m)
        BY <1>7, <2>4, <2>5, <2>6, <3>2
      <3> QED
        BY <3>1, <3>2
    <2>8. ConfigStep(s, r)
      BY <1>4, <1>7, <1>6, <2>2, <2>5, <2>7 DEF ConfigStep, Preparing
    <2> QED
      BY <1>1, <1>3, <2>3, <2>6, <2>8, EnvKept, HandlerStep
  <1> QED
    BY <1>9, <1>10

\* New slaves and the role of the master.
LEMMA SeenKept ==
    ASSUME NEW x, SentinelOK(x), NEW r
    PROVE  LET a == InfoSlaves(x, r)
               b == Reported(a.x, r)
           IN Kept(x, b) /\ b.state = x.state /\ b.fepoch = x.fepoch /\ a.out = {}
  <1> DEFINE new == {q \in Redis : redis[q].alive /\ redis[q].master = r /\ q \notin x.slaves /\ q # x.addr}
             a == InfoSlaves(x, r)
             n == NewInstances(x, new)
             b == Reported(a.x, r)
  <1>1. a = Flushed(n, {}) \/ a = Done(x, {})
    BY DEF InfoSlaves
  <1> HIDE DEF new
  <1>2. Kept(x, n) /\ n.state = x.state /\ n.fepoch = x.fepoch
    BY DEF NewInstances, SentinelOK, Kept, SameVotes, SameConfig, sentinelGetCurrentMasterAddress,
           Promoting, Preparing
  <1> HIDE DEF n, a
  <1>3. a.out = {} /\ a.x \in {n, x}
    BY <1>1 DEF Done, Flushed
  <1>4. Kept(x, a.x) /\ SentinelOK(a.x) /\ a.x.state = x.state /\ a.x.fepoch = x.fepoch
    BY <1>2, <1>3, KeptItself DEF Kept, SameVotes
  <1>5. Kept(a.x, b) /\ b.state = a.x.state /\ b.fepoch = a.x.fepoch
    <2> DEFINE v == IF redis[r].master = None THEN "master" ELSE "slave"
    <2>1. b = a.x \/ b = [a.x EXCEPT !.role = v]
      BY DEF Reported
    <2> HIDE DEF v, b
    <2>2. Kept(a.x, a.x) /\ Kept(a.x, [a.x EXCEPT !.role = v])
      BY <1>4, KeptItself, FlagsKept
    <2>3. b.state = a.x.state /\ b.fepoch = a.x.fepoch
      BY <1>4, <2>1 DEF SentinelOK
    <2> QED
      BY <2>1, <2>2, <2>3
  <1> HIDE DEF b
  <1>6. Kept(x, b)
    BY <1>4, <1>5, KeptTwice
  <1> QED
    BY <1>3, <1>4, <1>5, <1>6 DEF a, b

LEMMA InfoReconfKept ==
    ASSUME NEW x, SentinelOK(x), NEW r
    PROVE  Kept(x, InfoReconf(x, r))
  <1> DEFINE flags == IF "sent" \in x.reconf[r] /\ redis[r].master = x.promoted
                      THEN (x.reconf[r] \ {"sent"}) \cup {"inprog"} ELSE x.reconf[r]
             v == IF "inprog" \in flags /\ redis[r].sync THEN (flags \ {"inprog"}) \cup {"done"} ELSE flags
             w == [x.reconf EXCEPT ![r] = v]
  <1>1. InfoReconf(x, r) = x \/ InfoReconf(x, r) = [x EXCEPT !.reconf[r] = v]
    BY DEF InfoReconf
  <1> HIDE DEF v
  <1>2. [x EXCEPT !.reconf[r] = v] = [x EXCEPT !.reconf = w]
    OBVIOUS
  <1> HIDE DEF w
  <1>3. Kept(x, x) /\ Kept(x, [x EXCEPT !.reconf = w])
    BY FlagsKept, KeptItself
  <1> QED
    BY <1>1, <1>2, <1>3

LEMMA InfoStep ==
    ASSUME IInv, NEW s \in Sentinels, NEW i, NEW long, Info(s, i, long)
    PROVE  IInv' /\ NoWayBack
  <1> DEFINE x == sent[s]
             a == InfoSlaves(x, i)
             b == Reported(a.x, i)
             q == InfoActions(b, i, long)
             r == sentinelRefreshInstanceInfo(x, i, long)
  <1>1. SentinelOK(x) /\ x.me = s /\ Backed(x)
    BY DEF IInv, EInv, SentinelsOK
  <1>2. Commit(s, r, {}) /\ crossed' = crossed /\ env' = env /\ won' = won
    BY DEF Info
  <1>3. Kept(x, b) /\ SentinelOK(b) /\ b.state = x.state /\ b.fepoch = x.fepoch /\ a.out = {}
    <2>1. Kept(x, b) /\ b.state = x.state /\ b.fepoch = x.fepoch /\ a.out = {}
      BY <1>1, SeenKept
    <2> QED
      BY <2>1 DEF Kept, SameVotes
  <1>4. r = Then(a, q)
    BY DEF sentinelRefreshInstanceInfo
  <1> HIDE DEF a, b, r
  <1>5. r.x = q.x /\ r.out = a.out \cup q.out /\ (q.flush => r.flush)
    BY <1>4 DEF Then
  <1>6. CASE ~b.tilt /\ InfoPromoted(b, i)
    <2> DEFINE y == [b EXCEPT !.config = b.fepoch, !.state = "reconf_slaves", !.late = FALSE]
               out == UNION {sentinelSendHello(y, t) : t \in {u \in b.known : <<b.me, u>> \in env.talk}}
    <2>1. q = Flushed(y, out)
      BY <1>6 DEF InfoActions
    <2>2. /\ SentinelOK(y) /\ y.me = b.me /\ y.reply = b.reply /\ y.lepoch = b.lepoch
          /\ y.leader = b.leader /\ y.cur = b.cur /\ y.config = b.fepoch /\ y.state = "reconf_slaves"
          /\ y.known = b.known
      BY <1>3 DEF SentinelOK, States
    <2>3. x.state = "wait_promotion"
      BY <1>3, <1>6 DEF InfoPromoted
    <2>4. b.me = s /\ b.reply = x.reply /\ b.lepoch = x.lepoch /\ b.leader \in {None, x.leader} /\ b.cur >= x.cur
      BY <1>1, <1>3 DEF Kept, SameVotes, SameConfig
    <2> HIDE DEF y
    <2>5. \A m \in out : /\ MessageOK(m) /\ m.type = "hello"
                         /\ m.config = y.config /\ m.addr = sentinelGetCurrentMasterAddress(y)
      <3> SUFFICES ASSUME NEW t \in b.known, NEW m \in sentinelSendHello(y, t)
                   PROVE  /\ MessageOK(m) /\ m.type = "hello"
                          /\ m.config = y.config /\ m.addr = sentinelGetCurrentMasterAddress(y)
        OBVIOUS
      <3>1. t \in Sentinels /\ t # y.me
        BY <2>2 DEF SentinelOK
      <3> QED
        BY <2>2, <3>1, HelloMessage
    <2> HIDE DEF out
    <2>6. r.x = y /\ r.out = out /\ r.flush
      BY <1>3, <1>5, <2>1 DEF Flushed
    <2>7. VoteStep(s, r)
      BY <1>1, <2>2, <2>4, <2>5, <2>6 DEF VoteStep, Backed
    <2>8. ConfigStep(s, r)
      BY <1>3, <2>2, <2>3, <2>4, <2>5, <2>6 DEF ConfigStep, Preparing
    <2> QED
      BY <1>2, <2>7, <2>8, EnvKept, HandlerStep
  <1>7. CASE b.tilt \/ ~InfoPromoted(b, i)
    <2> DEFINE out == IF InfoStray(b, i, long) THEN SlaveOf(i, b.addr) ELSE {}
    <2>1. q = Done(b, {}) \/ q = Done(InfoReconf(b, i), out)
      BY <1>7 DEF InfoActions
    <2>2. Plain(out) /\ Plain({})
      BY SlaveOfPlain, NothingPlain
    <2> HIDE DEF out
    <2>3. Kept(b, b) /\ Kept(b, InfoReconf(b, i))
      BY <1>3, KeptItself, InfoReconfKept
    <2>4. Kept(b, q.x) /\ Plain(q.out)
      BY <2>1, <2>2, <2>3 DEF Done
    <2>5. Kept(x, r.x)
      BY <1>1, <1>3, <1>5, <2>4, KeptTwice
    <2>6. Plain(r.out)
      BY <1>3, <1>5, <2>4 DEF Plain
    <2>7. VoteStep(s, r) /\ ConfigStep(s, r)
      BY <1>2, <2>5, <2>6, OutcomeSteps DEF Outcome
    <2> QED
      BY <1>2, <2>7, EnvKept, HandlerStep
  <1> QED
    BY <1>6, <1>7

-----------------------------------------------------------------------------
(* Crashes, and the instances *)

LEMMA RestartStep ==
    ASSUME IInv, NEW s \in Sentinels, Restart(s)
    PROVE  IInv' /\ NoWayBack
  <1> DEFINE c == disk[s]
             y == sentinelHandleConfiguration(s, c)
             top == Max({c.cur, c.config})
             addr(z) == sentinelGetCurrentMasterAddress(z)
  <1>1. FileOK(s, c) /\ c.lepoch \in Nat
    BY DEF IInv, EInv, FilesOK, FileOK, SentinelsOK, SentinelOK
  <1>2. top \in Nat /\ top >= c.cur /\ top >= c.config
    BY <1>1, MaxOfTwo DEF FileOK
  <1>3. /\ y.me = s /\ y.cur = top /\ y.config = c.config /\ y.lepoch = c.lepoch /\ y.known = c.known
        /\ y.addr = c.addr /\ y.leader = None /\ y.state = "none" /\ y.fepoch = 0
        /\ y.reply = [t \in Sentinels |-> NoReply]
        /\ DOMAIN y = {"me", "cur", "config", "lepoch", "addr", "slaves", "known", "leader", "state",
                       "fepoch", "forced", "promoted", "wait", "late", "tilt", "odown", "sdown",
                       "role", "reconf", "down", "reply"}
    BY DEF sentinelHandleConfiguration
  <1> HIDE DEF y, top
  <1>4. SentinelOK(y) /\ \A u \in Sentinels : y.reply[u].leader = None
    BY <1>1, <1>2, <1>3 DEF SentinelOK, FileOK, States, NoReply, None
  <1>5. /\ DOMAIN sent' = Sentinels /\ sent'[s] = y /\ \A t \in Sentinels \ {s} : sent'[t] = sent[t]
        /\ disk' = disk /\ net' \subseteq net /\ votes' = votes /\ won' = won
        /\ promotions' = promotions /\ crossed' = crossed
    BY DEF Restart, IInv, EInv, SentinelsOK, y
  <1>6. EnvOK' /\ env'.crash # env.crash
    <2>1. EnvOK'
      BY EnvKept DEF Restart
    <2>2. env'.crash = env.crash \ {s} /\ s \in env.crash
      BY DEF Restart, IInv, EInv, EnvOK
    <2> QED
      BY <2>1, <2>2
  <1>7. SentinelsOK'
    BY <1>3, <1>4, <1>5 DEF IInv, EInv, SentinelsOK, Backed
  <1>8. y.lepoch = sent[s].lepoch
    BY <1>1, <1>3 DEF FileOK
  <1>9. FilesOK' /\ MessagesOK' /\ VotesOK'
    BY <1>5, <1>8 DEF IInv, EInv, FilesOK, FileOK, MessagesOK, VotesOK, OneVotePerEpoch
  <1>10. WonOK'
    BY <1>5, WonKept
  <1>11. addr(y) = c.addr
    BY <1>3 DEF sentinelGetCurrentMasterAddress, Promoting
  <1>12. crossed' \/ ConfigsOK'
    BY <1>3, <1>5, <1>11 DEF IInv, CInv, ConfigsOK, Named
  <1>13. PromotionsOK'
    <2> SUFFICES ASSUME NEW p \in promotions, p.by # None
                 PROVE  /\ p.by \in Sentinels /\ p.epoch \in Nat
                        /\ p.epoch <= sent'[p.by].cur /\ p.epoch <= disk'[p.by].cur
                        /\ Preparing(sent'[p.by]) => p.epoch < sent'[p.by].fepoch
      BY <1>5 DEF IInv, CInv, PromotionsOK
    <2>1. /\ p.by \in Sentinels /\ p.epoch \in Nat
          /\ p.epoch <= sent[p.by].cur /\ p.epoch <= disk[p.by].cur
          /\ Preparing(sent[p.by]) => p.epoch < sent[p.by].fepoch
      BY DEF IInv, CInv, PromotionsOK
    <2>2. CASE p.by # s
      BY <1>5, <2>1, <2>2
    <2>3. CASE p.by = s
      BY <1>1, <1>2, <1>3, <1>5, <2>1, <2>3 DEF FileOK, Preparing
    <2> QED
      BY <2>2, <2>3
  <1>14. NoWayBack
    <2>1. y.addr = addr(sent[s]) \/ crossed
      BY <1>3 DEF IInv, CInv, ConfigsOK
    <2>2. \A t \in Sentinels : sent[t].config \in Nat
      BY DEF IInv, EInv, SentinelsOK, SentinelOK
    <2> QED
      BY <1>5, <1>6, <2>1, <2>2 DEF NoWayBack
  <1> QED
    BY <1>6, <1>7, <1>9, <1>10, <1>12, <1>13, <1>14 DEF IInv, EInv, CInv

\* Nothing a sentinel knows changes.
LEMMA InstanceStep ==
    ASSUME IInv, UNCHANGED <<sent, disk, votes, won, promotions, crossed>>, net' \subseteq net, EnvOK'
    PROVE  IInv' /\ NoWayBack
  <1>1. EInv'
    BY DEF IInv, EInv, SentinelsOK, Backed, FilesOK, FileOK, MessagesOK, VotesOK, OneVotePerEpoch, WonOK
  <1>2. CInv'
    BY DEF IInv, CInv, ConfigsOK, PromotionsOK, Named
  <1>3. NoWayBack
    BY DEF NoWayBack, IInv, EInv, SentinelsOK, SentinelOK
  <1> QED
    BY <1>1, <1>2, <1>3 DEF IInv

LEMMA InitStep == Init => IInv
  <1> SUFFICES ASSUME Init PROVE IInv
    OBVIOUS
  <1>1. PICK start \in Inits : sent = start.sent /\ env = start.env
    BY DEF Init
  <1>2. /\ net = {} /\ votes = {} /\ won = {}
        /\ disk = [s \in Sentinels |-> rewriteConfigSentinelOption(sent[s])]
        /\ promotions = {[by |-> None, epoch |-> sent[s].config, addr |-> sent[s].addr] : s \in Sentinels}
    BY DEF Init
  <1>3. /\ DOMAIN sent = Sentinels
        /\ \A s \in Sentinels :
            /\ SentinelOK(sent[s]) /\ sent[s].me = s /\ sent[s].leader = None /\ sent[s].state = "none"
            /\ \A t \in Sentinels : sent[s].reply[t].leader = None
        /\ \A s, t \in Sentinels : sent[s].config = sent[t].config => sent[s].addr = sent[t].addr
        /\ EnvOK
    BY <1>1, InitsAssumption DEF EnvOK
  <1>4. \A s \in Sentinels :
          /\ disk[s].cur = sent[s].cur /\ disk[s].config = sent[s].config /\ disk[s].lepoch = sent[s].lepoch
          /\ disk[s].known = sent[s].known /\ disk[s].addr = sentinelGetCurrentMasterAddress(sent[s])
    BY <1>2, FileWritten
  <1>5. DOMAIN disk = Sentinels
    BY <1>2
  <1>6. SentinelsOK
    BY <1>3 DEF SentinelsOK, Backed
  <1>7. FilesOK
    BY <1>3, <1>4, <1>5 DEF FilesOK, FileOK, SentinelOK
  <1>8. MessagesOK /\ VotesOK /\ WonOK
    BY <1>2 DEF MessagesOK, VotesOK, WonOK, OneVotePerEpoch
  <1>9. \A s \in Sentinels : sentinelGetCurrentMasterAddress(sent[s]) = sent[s].addr
    BY <1>3 DEF sentinelGetCurrentMasterAddress, Promoting
  <1>10. \A s \in Sentinels : Named(sent[s].config, sent[s].addr)
    <2> TAKE s \in Sentinels
    <2> DEFINE p == [by |-> None, epoch |-> sent[s].config, addr |-> sent[s].addr]
    <2>1. p \in promotions /\ p.epoch = sent[s].config /\ p.addr = sent[s].addr
      BY <1>2
    <2> HIDE DEF p
    <2> QED
      BY <2>1 DEF Named
  <1>11. ConfigsOK
    BY <1>2, <1>4, <1>9, <1>10 DEF ConfigsOK
  <1>12. PromotionsOK
    BY <1>2, <1>3 DEF PromotionsOK
  <1> QED
    BY <1>3, <1>6, <1>7, <1>8, <1>11, <1>12 DEF IInv, EInv, CInv

LEMMA NextStep ==
    ASSUME IInv, [Next]_vars
    PROVE  IInv' /\ NoWayBack
  <1>1. CASE UNCHANGED vars
    BY <1>1, EnvKept, InstanceStep DEF vars
  <1>2. ASSUME NEW m \in net, ExecuteSlaveOf(m) PROVE IInv' /\ NoWayBack
    BY <1>2, EnvKept, InstanceStep DEF ExecuteSlaveOf
  <1>3. ASSUME NEW r \in Redis, Synchronized(r) PROVE IInv' /\ NoWayBack
    BY <1>3, EnvKept, InstanceStep DEF Synchronized
  <1>4. ASSUME NEW r \in Redis, Dies(r) PROVE IInv' /\ NoWayBack
    BY <1>4, EnvKept, InstanceStep DEF Dies
  <1>5. ASSUME NEW r \in Redis, Revives(r) PROVE IInv' /\ NoWayBack
    BY <1>5, EnvKept, InstanceStep DEF Revives
  <1> QED
    BY <1>1, <1>2, <1>3, <1>4, <1>5, HandleMasterStep, HandleSlaveStep, TimePassesStep, ReplyIsStaleStep,
       TiltStep, ReceiveAskStep, ReceiveAnswerStep, ReceiveHelloStep, SendHelloStep, InfoStep,
       FailoverCommandStep, ResetCommandStep, RestartStep DEF Next

-----------------------------------------------------------------------------
(* The theorems *)

\* What the sentinels, their files, the messages and the histories hold of each
\* other, in every state.
THEOREM Invariant == Spec => []IInv
  BY InitStep, NextStep, PTL DEF Spec

\* A sentinel gives one vote in an epoch, through crashes and SENTINEL RESET, for any
\* number of sentinels and candidates (sentinelVoteLeader, sentinelFlushConfig).
THEOREM VotesAreSafe == Spec => []OneVotePerEpoch
  <1>1. IInv => OneVotePerEpoch
    BY DEF IInv, EInv, VotesOK
  <1> QED
    BY <1>1, Invariant, PTL

\* No epoch a sentinel keeps is ahead of its current_epoch, also after a restart
\* (sentinelHandleConfiguration), so a new failover has an epoch of its own.
THEOREM EpochsAreOrdered == Spec => []CurrentEpochIsMax
  <1>1. IInv => CurrentEpochIsMax
    BY DEF IInv, EInv, SentinelsOK, SentinelOK, CurrentEpochIsMax
  <1> QED
    BY <1>1, Invariant, PTL

\* If the quorum is a majority of all the sentinels, two of them do not lead one
\* epoch that was current when they counted (sentinelGetLeader), and whoever leads, in
\* an overtaken epoch too, was named by a quorum. The majority that the
\* code asks for itself is of the sentinels known so far, which is not enough: two that
\* know nobody would both win.
THEOREM LeadersAreSafe ==
    ASSUME 2 * Quorum > Cardinality(Sentinels)
    PROVE  Spec => []ElectionsAreSafe
  <1>1. IInv => OneLeaderPerEpoch
    <2> SUFFICES ASSUME IInv, NEW a \in won, NEW b \in won,
                        a.epoch = b.epoch, a.cur = a.epoch, b.cur = b.epoch
                 PROVE  a.by = b.by
      BY DEF OneLeaderPerEpoch
    <2>1. PICK Q \in SUBSET Sentinels :
            Cardinality(Q) >= Quorum /\ \A u \in Q : Vote(u, a.epoch, a.by) \in votes
      BY DEF IInv, EInv, WonOK
    <2>2. PICK R \in SUBSET Sentinels :
            Cardinality(R) >= Quorum /\ \A u \in R : Vote(u, b.epoch, b.by) \in votes
      BY DEF IInv, EInv, WonOK
    <2>3. Cardinality(Q) \in Nat /\ Cardinality(R) \in Nat /\ Cardinality(Sentinels) \in Nat
      BY SentinelsAssumption, FS_Subset, FS_CardinalityType
    <2>4. Cardinality(Q) + Cardinality(R) > Cardinality(Sentinels)
      BY <2>1, <2>2, <2>3, QuorumAssumption
    <2>5. Q \cap R # {}
      BY <2>4, SentinelsAssumption, FS_MajoritiesIntersect
    <2>6. PICK u : u \in Q /\ u \in R
      BY <2>5
    <2>7. Vote(u, a.epoch, a.by) \in votes /\ Vote(u, a.epoch, b.by) \in votes
      BY <2>1, <2>2, <2>6
    <2> QED
      BY <2>7 DEF IInv, EInv, VotesOK, OneVotePerEpoch, Vote
  <1>2. IInv => LeadersAreNamed
    BY DEF IInv, EInv, WonOK, Vote, LeadersAreNamed
  <1>3. IInv => ElectionsAreSafe
    BY <1>1, <1>2 DEF IInv, EInv, VotesOK, SentinelsOK, SentinelOK, CurrentEpochIsMax, ElectionsAreSafe
  <1> QED
    BY <1>3, Invariant, PTL

\* Sentinels with one configuration epoch tell clients the same address, if one of
\* them promoted for that epoch and no failover was crossed before its end, whatever
\* hellos are lost or late and whoever crashes (sentinelRefreshInstanceInfo,
\* sentinelProcessHelloMessage).
THEOREM EpochsNameMasters == Spec => []ConfigEpochNamesOneMaster
  <1>1. IInv => ConfigEpochNamesOneMaster
    BY DEF IInv, CInv, ConfigsOK, PromotionsOK, Named, ConfigEpochNamesOneMaster
  <1> QED
    BY <1>1, Invariant, PTL

\* A sentinel takes over newer configurations only. A crash may take its epoch back,
\* never the address it told the clients; a promotion has the epoch of its failover.
THEOREM ConfigsGoForward == Spec => ConfigNeverGoesBack
  <1>1. IInv /\ [Next]_vars => [NoWayBack]_vars
    BY NextStep
  <1> QED
    BY <1>1, Invariant, PTL DEF Spec, ConfigNeverGoesBack, NoWayBack

=============================================================================
