--------------------------- MODULE ClusterProofs ---------------------------
(***************************************************************************)
(* For any number of nodes, slots, packets and crashes: a master of the    *)
(* cluster votes once in an epoch, and epochs do not fall behind.          *)
(*                                                                         *)
(* The inductive invariant says that every record a node keeps of another, *)
(* every packet and every nodes.conf has no epoch after the currentEpoch   *)
(* it came with, that votes given are not after lastVoteEpoch, and that    *)
(* nodes.conf has the lastVoteEpoch of the node.  The lemmas before it say *)
(* of each handler that it keeps a node in order (NodeOK) and whether it   *)
(* may vote (Keeps).                                                       *)
(***************************************************************************)
EXTENDS Cluster, WellFoundedInduction, TLAPS

-----------------------------------------------------------------------------
(* Arithmetic and sets *)

LEMMA MaxOfTwo ==
    ASSUME NEW a \in Nat, NEW b \in Nat
    PROVE  Max({a, b}) \in Nat /\ Max({a, b}) \in {a, b} /\ Max({a, b}) >= a /\ Max({a, b}) >= b
  <1>1. \E x \in {a, b} : \A y \in {a, b} : x >= y
    OBVIOUS
  <1> QED
    BY <1>1 DEF Max

LEMMA MinOfSlots ==
    ASSUME NEW S \in SUBSET Slot, S # {}
    PROVE  Min(S) \in S
  <1>1. S \subseteq Nat
    BY SlotAssumption
  <1> DEFINE R == {ss \in Nat \X Nat : ss[1] < ss[2]}
  <1>2. IsWellFoundedOn(R, Nat)
    BY NatLessThanWellFounded DEF OpToRel
  <1>3. PICK n \in S : \A m \in S : ~(<<m, n>> \in R)
    BY <1>1, <1>2, WFMin
  <1>4. \A m \in S : ~(m < n)
    BY <1>1, <1>3
  <1>5. \A m \in S : n <= m
    BY <1>1, <1>4
  <1> QED
    BY <1>5 DEF Min

-----------------------------------------------------------------------------
(* What the functions of a node do to its record *)

\* The record stays in order, the last vote is the same.
Keeps(a, b) == NodeOK(b) /\ b.vote = a.vote /\ b.me = a.me

LEMMA KeepsItself == \A nd : NodeOK(nd) => Keeps(nd, nd)
  BY DEF Keeps

LEMMA UpdateStateKeeps ==
    ASSUME NEW nd, NodeOK(nd)
    PROVE  Keeps(nd, clusterUpdateState(nd))
  BY DEF NodeOK, Keeps, clusterUpdateState

LEMMA RebindKeeps ==
    ASSUME NEW nd, NodeOK(nd), NEW n \in Node, NEW S
    PROVE  Keeps(nd, RebindSlots(nd, n, S))
  BY DEF NodeOK, Keeps, RebindSlots

LEMMA DelNodeSlotsKeeps ==
    ASSUME NEW nd, NodeOK(nd), NEW n
    PROVE  Keeps(nd, clusterDelNodeSlots(nd, n))
  BY DEF NodeOK, Keeps, clusterDelNodeSlots

LEMMA CloseAllSlotsKeeps ==
    ASSUME NEW nd, NodeOK(nd)
    PROVE  Keeps(nd, clusterCloseAllSlots(nd))
  BY DEF NodeOK, Keeps, clusterCloseAllSlots

LEMMA DelKeysKeeps ==
    ASSUME NEW nd, NodeOK(nd), NEW S
    PROVE  Keeps(nd, DelKeysInSlots(nd, S))
  BY DEF NodeOK, Keeps, DelKeysInSlots

LEMMA ResetManualFailoverKeeps ==
    ASSUME NEW nd, NodeOK(nd)
    PROVE  Keeps(nd, resetManualFailover(nd))
  BY DEF NodeOK, Keeps, resetManualFailover

\* Learning something about a node.
LEMMA ViewKeeps ==
    ASSUME NEW nd, NodeOK(nd), NEW n \in Node, NEW k \in Knowledge, k.ce <= nd.cur
    PROVE  Keeps(nd, [nd EXCEPT !.view[n] = k])
  BY DEF NodeOK, Keeps

LEMMA SlaveOfKeeps ==
    ASSUME NEW nd, NodeOK(nd), NEW n \in Node, NEW m \in Node \cup {NoNode}
    PROVE  Keeps(nd, [nd EXCEPT !.view[n].slaveof = m])
  <1> DEFINE k == [nd.view[n] EXCEPT !.slaveof = m]
  <1>1. k \in Knowledge /\ k.ce = nd.view[n].ce
    BY DEF NodeOK, Knowledge
  <1>2. [nd EXCEPT !.view[n].slaveof = m] = [nd EXCEPT !.view[n] = k]
    BY DEF NodeOK
  <1> QED
    BY <1>1, <1>2, ViewKeeps DEF NodeOK

LEMMA ConfigEpochKeeps ==
    ASSUME NEW nd, NodeOK(nd), NEW n \in Node, NEW e \in Nat, e <= nd.cur
    PROVE  Keeps(nd, [nd EXCEPT !.view[n].ce = e])
  <1> DEFINE k == [nd.view[n] EXCEPT !.ce = e]
  <1>1. k \in Knowledge /\ k.ce = e
    BY DEF NodeOK, Knowledge
  <1>2. [nd EXCEPT !.view[n].ce = e] = [nd EXCEPT !.view[n] = k]
    BY DEF NodeOK
  <1> QED
    BY <1>1, <1>2, ViewKeeps

LEMMA FailKeeps ==
    ASSUME NEW nd, NodeOK(nd), NEW n \in Node, NEW f \in {"none", "pfail", "fail"}
    PROVE  Keeps(nd, [nd EXCEPT !.view[n].fail = f])
  <1> DEFINE k == [nd.view[n] EXCEPT !.fail = f]
  <1>1. k \in Knowledge /\ k.ce = nd.view[n].ce
    BY DEF NodeOK, Knowledge
  <1>2. [nd EXCEPT !.view[n].fail = f] = [nd EXCEPT !.view[n] = k]
    BY DEF NodeOK
  <1> QED
    BY <1>1, <1>2, ViewKeeps DEF NodeOK

LEMMA DelReportKeeps ==
    ASSUME NEW nd, NodeOK(nd), NEW n \in Node, NEW by
    PROVE  Keeps(nd, clusterNodeDelFailureReport(nd, n, by))
  <1> DEFINE k == [nd.view[n] EXCEPT !.reports = @ \ {by}]
  <1>1. k \in Knowledge /\ k.ce = nd.view[n].ce
    BY DEF NodeOK, Knowledge
  <1>2. clusterNodeDelFailureReport(nd, n, by) = [nd EXCEPT !.view[n] = k]
    BY DEF NodeOK, clusterNodeDelFailureReport
  <1>3. k.ce <= nd.cur
    BY <1>1 DEF NodeOK
  <1> HIDE DEF k
  <1> QED
    BY <1>1, <1>2, <1>3, ViewKeeps

LEMMA MasterOf ==
    ASSUME NEW nd, NodeOK(nd), NEW n \in Node
    PROVE  nd.view[n].slaveof \in Node \cup {NoNode} /\ (IsSlave(nd, n) => nd.view[n].slaveof \in Node)
  BY DEF NodeOK, Knowledge, IsSlave, IsMaster

LEMMA SetMasterKeeps ==
    ASSUME NEW nd, NodeOK(nd), NEW n \in Node
    PROVE  Keeps(nd, clusterSetMaster(nd, n))
  <1> DEFINE closed == IF IsMaster(nd, nd.me) THEN clusterCloseAllSlots(nd) ELSE nd
             slave == [closed EXCEPT !.view[nd.me].slaveof = n]
  <1>1. Keeps(nd, closed) /\ nd.me \in Node
    BY CloseAllSlotsKeeps DEF Keeps, NodeOK
  <1>2. Keeps(closed, slave)
    BY <1>1, SlaveOfKeeps DEF Keeps
  <1>3. Keeps(slave, resetManualFailover(slave))
    BY <1>2, ResetManualFailoverKeeps DEF Keeps
  <1>4. clusterSetMaster(nd, n) = resetManualFailover(slave)
    BY DEF clusterSetMaster
  <1> QED
    BY <1>1, <1>2, <1>3, <1>4 DEF Keeps

LEMMA UpdateSlotsKeeps ==
    ASSUME NEW nd, NodeOK(nd), NEW sender \in Node, NEW e, NEW slots
    PROVE  Keeps(nd, clusterUpdateSlotsConfigWith(nd, sender, e, slots))
  <1> DEFINE moved == {s \in slots : /\ nd.owner[s] # sender
                                     /\ nd.imp[s] = NoNode
                                     /\ \/ nd.owner[s] = NoNode
                                        \/ nd.view[nd.owner[s]].ce < e}
             dirty == {s \in moved : nd.owner[s] = nd.me /\ CountKeysInSlot(nd, s) > 0}
             after == RebindSlots(nd, sender, moved)
  <1>1. Keeps(nd, after)
    BY RebindKeeps
  <1>2. Keeps(after, clusterSetMaster(after, sender)) /\ Keeps(after, DelKeysInSlots(after, dirty))
    BY <1>1, SetMasterKeeps, DelKeysKeeps DEF Keeps
  <1>3. clusterUpdateSlotsConfigWith(nd, sender, e, slots) \in
            {nd, clusterSetMaster(after, sender), DelKeysInSlots(after, dirty)}
    BY DEF clusterUpdateSlotsConfigWith
  <1> QED
    BY <1>1, <1>2, <1>3, KeepsItself DEF Keeps

\* A new epoch for the node's own configuration.
LEMMA NewEpochKeeps ==
    ASSUME NEW nd, NodeOK(nd)
    PROVE  Keeps(nd, [nd EXCEPT !.cur = @ + 1, !.view[nd.me].ce = nd.cur + 1])
  <1> DEFINE next == [nd EXCEPT !.cur = @ + 1]
  <1>1. Keeps(nd, next) /\ next.me = nd.me /\ nd.me \in Node /\ next.cur = nd.cur + 1
        /\ nd.cur + 1 \in Nat
    BY DEF Keeps, NodeOK, Knowledge
  <1>2. nd.cur + 1 <= next.cur /\ NodeOK(next)
    BY <1>1 DEF Keeps
  <1>3. Keeps(next, [next EXCEPT !.view[nd.me].ce = nd.cur + 1])
    <2> HIDE DEF next
    <2> QED
      BY <1>1, <1>2, ConfigEpochKeeps
  <1> QED
    BY <1>1, <1>3 DEF Keeps

LEMMA BumpKeeps ==
    ASSUME NEW nd, NodeOK(nd)
    PROVE  Keeps(nd, clusterBumpConfigEpochWithoutConsensus(nd))
  BY NewEpochKeeps, KeepsItself DEF clusterBumpConfigEpochWithoutConsensus

LEMMA CollisionKeeps ==
    ASSUME NEW nd, NodeOK(nd), NEW sender
    PROVE  Keeps(nd, clusterHandleConfigEpochCollision(nd, sender))
  BY NewEpochKeeps, KeepsItself DEF clusterHandleConfigEpochCollision

-----------------------------------------------------------------------------
(* Packets *)

PacketType == {"PING", "PONG", "FAIL", "AUTH_REQUEST", "AUTH_ACK", "MFSTART", "UPDATE"}

\* A packet in order: the epochs in it are not ahead of the currentEpoch in it.
PacketOK(p) ==
    /\ p.src \in Node /\ p.dst \in Node /\ p.slaveof \in Node \cup {NoNode}
    /\ p.cur \in Nat /\ p.ce \in Nat /\ p.ce <= p.cur
    /\ p.dataEpoch \in Nat /\ p.dataEpoch <= p.cur
    /\ p.slots \subseteq Slot
    /\ p.type \in PacketType
    /\ p.type \in {"FAIL", "UPDATE"} => p.about \in Node

\* Packets that are not votes.
Ordinary(out) == \A p \in out : PacketOK(p) /\ p.type # "AUTH_ACK"

\* A call that neither votes nor disorders the record.
Quiet(nd, r) == Keeps(nd, r.nd) /\ Ordinary(r.out)

HeaderFields == {"type", "src", "dst", "cur", "ce", "slots", "slaveof", "off", "paused",
                 "force", "bad", "about", "data", "dataEpoch"}

\* What clusterBuildMessageHdr fills in.
HeaderOK(h) ==
    /\ DOMAIN h = HeaderFields
    /\ h.src \in Node /\ h.dst \in Node /\ h.slaveof \in Node \cup {NoNode}
    /\ h.cur \in Nat /\ h.ce \in Nat /\ h.ce <= h.cur
    /\ h.slots \subseteq Slot
    /\ h.dataEpoch = 0
    /\ h.type \in PacketType

LEMMA HeaderBuilt ==
    ASSUME NEW nd, NodeOK(nd), NEW type \in PacketType, NEW dst \in Node
    PROVE  /\ HeaderOK(clusterBuildMessageHdr(nd, type, dst))
           /\ clusterBuildMessageHdr(nd, type, dst).type = type
           /\ clusterBuildMessageHdr(nd, type, dst).cur = nd.cur
           /\ clusterBuildMessageHdr(nd, type, dst).dst = dst
  <1> DEFINE master == IF IsSlave(nd, nd.me) THEN MyMaster(nd) ELSE nd.me
             h == clusterBuildMessageHdr(nd, type, dst)
  <1>1. nd.me \in Node /\ master \in Node /\ MyMaster(nd) \in Node \cup {NoNode}
    BY MasterOf DEF NodeOK, MyMaster
  <1>2. nd.cur \in Nat /\ nd.view[master].ce \in Nat /\ nd.view[master].ce <= nd.cur
    BY <1>1 DEF NodeOK, Knowledge
  <1>3. SlotsOf(nd, master) \subseteq Slot
    BY DEF SlotsOf
  <1>4. /\ DOMAIN h = HeaderFields
        /\ h.type = type /\ h.dst = dst /\ h.cur = nd.cur /\ h.dataEpoch = 0
        /\ h.src = nd.me /\ h.slaveof = MyMaster(nd)
        /\ h.ce = nd.view[master].ce /\ h.slots = SlotsOf(nd, master)
    BY DEF clusterBuildMessageHdr, HeaderFields
  <1> HIDE DEF h, master
  <1>5. HeaderOK(h)
    BY <1>1, <1>2, <1>3, <1>4 DEF HeaderOK
  <1> QED
    BY <1>4, <1>5 DEF h

\* A header with its gossip, its flag, or the node it is about filled in.
LEMMA PlainPacket ==
    ASSUME NEW h, HeaderOK(h), h.type \notin {"FAIL", "UPDATE"}, NEW x
    PROVE  /\ PacketOK(h)
           /\ PacketOK([h EXCEPT !.bad = x]) /\ [h EXCEPT !.bad = x].type = h.type
           /\ PacketOK([h EXCEPT !.force = x]) /\ [h EXCEPT !.force = x].type = h.type
  BY DEF HeaderOK, HeaderFields, PacketOK

LEMMA AboutPacket ==
    ASSUME NEW h, HeaderOK(h), NEW n \in Node
    PROVE  PacketOK([h EXCEPT !.about = n]) /\ [h EXCEPT !.about = n].type = h.type
  BY DEF HeaderOK, HeaderFields, PacketOK

LEMMA PingOrdinary ==
    ASSUME NEW nd, NodeOK(nd), NEW type \in {"PING", "PONG"}, NEW dst \in Node
    PROVE  Ordinary(clusterSendPing(nd, type, dst))
  <1> DEFINE h == clusterBuildMessageHdr(nd, type, dst)
             b == {m \in Node \ {nd.me, dst} : nd.view[m].fail # "none"}
  <1>1. HeaderOK(h) /\ h.type = type
    BY HeaderBuilt DEF PacketType
  <1>2. clusterSendPing(nd, type, dst) = {[h EXCEPT !.bad = b]}
    BY DEF clusterSendPing
  <1> HIDE DEF h, b
  <1> QED
    BY <1>1, <1>2, PlainPacket DEF Ordinary

LEMMA BroadcastOrdinary ==
    ASSUME NEW nd, NodeOK(nd) PROVE Ordinary(clusterBroadcastPong(nd))
  BY PingOrdinary DEF clusterBroadcastPong, Ordinary, Peers

LEMMA SendFailOrdinary ==
    ASSUME NEW nd, NodeOK(nd), NEW n \in Node PROVE Ordinary(clusterSendFail(nd, n))
  <1> SUFFICES ASSUME NEW m \in Node
               PROVE  LET p == [clusterBuildMessageHdr(nd, "FAIL", m) EXCEPT !.about = n] IN
                      PacketOK(p) /\ p.type # "AUTH_ACK"
    BY DEF clusterSendFail, Ordinary, Peers
  <1> DEFINE h == clusterBuildMessageHdr(nd, "FAIL", m)
  <1>1. HeaderOK(h) /\ h.type = "FAIL"
    BY HeaderBuilt DEF PacketType
  <1> HIDE DEF h
  <1>2. PacketOK([h EXCEPT !.about = n]) /\ [h EXCEPT !.about = n].type = "FAIL"
    BY <1>1, AboutPacket
  <1> QED
    BY <1>2 DEF h

LEMMA SendUpdateOrdinary ==
    ASSUME NEW nd, NodeOK(nd), NEW dst \in Node, NEW n \in Node
    PROVE  Ordinary(clusterSendUpdate(nd, dst, n))
  <1> DEFINE h == clusterBuildMessageHdr(nd, "UPDATE", dst)
             d == SlotsOf(nd, n)
             e == nd.view[n].ce
  <1>1. HeaderOK(h) /\ h.type = "UPDATE" /\ h.cur = nd.cur
    BY HeaderBuilt DEF PacketType
  <1>2. e \in Nat /\ e <= nd.cur
    BY DEF NodeOK, Knowledge
  <1>3. clusterSendUpdate(nd, dst, n) = {[h EXCEPT !.about = n, !.data = d, !.dataEpoch = e]}
    BY DEF clusterSendUpdate
  <1> DEFINE p == [h EXCEPT !.about = n, !.data = d, !.dataEpoch = e]
  <1> HIDE DEF h, d, e
  <1>4. PacketOK(p) /\ p.type = "UPDATE"
    <2>1. e \in Nat /\ e <= h.cur
      BY <1>1, <1>2
    <2>2. PacketOK(p) /\ p.type = h.type
      BY <1>1, <2>1 DEF HeaderOK, HeaderFields, PacketOK
    <2> QED
      BY <1>1, <2>2
  <1> HIDE DEF p
  <1> QED
    BY <1>3, <1>4 DEF Ordinary, p

LEMMA RequestOrdinary ==
    ASSUME NEW nd, NodeOK(nd) PROVE Ordinary(clusterRequestFailoverAuth(nd))
  <1> SUFFICES ASSUME NEW m \in Node
               PROVE  LET p == [clusterBuildMessageHdr(nd, "AUTH_REQUEST", m)
                                  EXCEPT !.force = nd.mf.end] IN
                      PacketOK(p) /\ p.type # "AUTH_ACK"
    BY DEF clusterRequestFailoverAuth, Ordinary, Peers
  <1> DEFINE h == clusterBuildMessageHdr(nd, "AUTH_REQUEST", m)
  <1>1. HeaderOK(h) /\ h.type = "AUTH_REQUEST"
    BY HeaderBuilt DEF PacketType
  <1> HIDE DEF h
  <1>2. \A x : PacketOK([h EXCEPT !.force = x]) /\ [h EXCEPT !.force = x].type = "AUTH_REQUEST"
    BY <1>1, PlainPacket
  <1> QED
    BY <1>2 DEF h

LEMMA MFStartOrdinary ==
    ASSUME NEW nd, NodeOK(nd), NEW dst \in Node PROVE Ordinary(clusterSendMFStart(nd, dst))
  <1> DEFINE h == clusterBuildMessageHdr(nd, "MFSTART", dst)
  <1>1. HeaderOK(h) /\ h.type = "MFSTART"
    BY HeaderBuilt DEF PacketType
  <1>2. clusterSendMFStart(nd, dst) = {h}
    BY DEF clusterSendMFStart
  <1> HIDE DEF h
  <1> QED
    BY <1>1, <1>2, PlainPacket DEF Ordinary

-----------------------------------------------------------------------------
(* The handlers *)

LEMMA KeepsTwice ==
    ASSUME NEW a, NEW b, NEW c, Keeps(a, b), Keeps(b, c) PROVE Keeps(a, c)
  BY DEF Keeps

\* A call that queues nothing.
LEMMA SilentIsQuiet ==
    ASSUME NEW nd, NEW x, Keeps(nd, x)
    PROVE  Quiet(nd, Done(x, {}))
  BY DEF Quiet, Done, Ordinary

LEMMA LoudIsQuiet ==
    ASSUME NEW nd, NEW x, NEW out, Keeps(nd, x), Ordinary(out)
    PROVE  Quiet(nd, Done(x, out))
  BY DEF Quiet, Done

LEMMA MarkQuiet ==
    ASSUME NEW nd, NodeOK(nd), NEW m \in Node
    PROVE  /\ Quiet(nd, markNodeAsFailingIfNeeded(nd, m))
           /\ markNodeAsFailingIfNeeded(nd, m).nd.cur = nd.cur
  <1> DEFINE failed == [nd EXCEPT !.view[m].fail = "fail"]
             out == IF IsMaster(nd, nd.me) THEN clusterSendFail(failed, m) ELSE {}
  <1>1. Keeps(nd, failed)
    BY FailKeeps
  <1>2. Ordinary(out)
    BY <1>1, SendFailOrdinary DEF Keeps, Ordinary
  <1>3. failed.cur = nd.cur
    BY DEF NodeOK
  <1>4. markNodeAsFailingIfNeeded(nd, m) \in {Done(nd, {}), Done(failed, out)}
    BY DEF markNodeAsFailingIfNeeded
  <1>5. Quiet(nd, Done(nd, {})) /\ Done(nd, {}).nd.cur = nd.cur
    BY KeepsItself, SilentIsQuiet DEF Done
  <1>6. Quiet(nd, Done(failed, out)) /\ Done(failed, out).nd.cur = nd.cur
    <2> HIDE DEF failed, out
    <2> QED
      BY <1>1, <1>2, <1>3, LoudIsQuiet DEF Done
  <1> QED
    BY <1>4, <1>5, <1>6

\* Another view of the same epochs.
LEMMA WholeViewKeeps ==
    ASSUME NEW nd, NodeOK(nd), NEW v \in [Node -> Knowledge], \A m \in Node : v[m].ce <= nd.cur
    PROVE  Keeps(nd, [nd EXCEPT !.view = v]) /\ [nd EXCEPT !.view = v].cur = nd.cur
  BY DEF NodeOK, Keeps

LEMMA GossipQuiet ==
    ASSUME NEW nd, NodeOK(nd), NEW hdr, PacketOK(hdr)
    PROVE  Quiet(nd, clusterProcessGossipSection(nd, hdr))
  <1> DEFINE about == Node \ {nd.me, hdr.src}
             heard == [m \in Node |->
                        IF m \notin about THEN nd.view[m]
                        ELSE IF m \in hdr.bad
                             THEN [nd.view[m] EXCEPT !.reports = @ \cup {hdr.src}]
                             ELSE [nd.view[m] EXCEPT !.reports = @ \ {hdr.src}]]
             noted == [nd EXCEPT !.view = heard]
             suspected == about \cap hdr.bad
             marked(m) == markNodeAsFailingIfNeeded(noted, m)
             seen == [m \in Node |-> IF m \in suspected THEN marked(m).nd.view[m]
                                                       ELSE noted.view[m]]
             out == UNION {marked(m).out : m \in suspected}
  <1>1. heard \in [Node -> Knowledge] /\ \A m \in Node : heard[m].ce <= nd.cur
    <2>1. SUFFICES ASSUME NEW m \in Node PROVE heard[m] \in Knowledge /\ heard[m].ce <= nd.cur
      OBVIOUS
    <2>2. nd.view[m] \in Knowledge /\ nd.view[m].ce <= nd.cur /\ hdr.src \in Node
      BY DEF NodeOK, PacketOK
    <2>3. /\ [nd.view[m] EXCEPT !.reports = @ \cup {hdr.src}] \in Knowledge
          /\ [nd.view[m] EXCEPT !.reports = @ \cup {hdr.src}].ce = nd.view[m].ce
          /\ [nd.view[m] EXCEPT !.reports = @ \ {hdr.src}] \in Knowledge
          /\ [nd.view[m] EXCEPT !.reports = @ \ {hdr.src}].ce = nd.view[m].ce
      BY <2>2 DEF Knowledge
    <2> QED
      BY <2>2, <2>3
  <1>2. Keeps(nd, noted) /\ noted.cur = nd.cur
    <2> HIDE DEF heard
    <2> QED
      BY <1>1, WholeViewKeeps
  <1>3. NodeOK(noted)
    BY <1>2 DEF Keeps
  <1> HIDE DEF noted, heard
  <1>4. \A m \in Node : /\ NodeOK(marked(m).nd) /\ Ordinary(marked(m).out)
                         /\ marked(m).nd.cur = noted.cur
    BY <1>3, MarkQuiet DEF Quiet, Keeps
  <1> HIDE DEF marked
  <1>5. seen \in [Node -> Knowledge] /\ \A m \in Node : seen[m].ce <= noted.cur
    BY <1>3, <1>4 DEF NodeOK
  <1>6. Keeps(noted, [noted EXCEPT !.view = seen])
    <2> HIDE DEF seen
    <2> QED
      BY <1>3, <1>5, WholeViewKeeps
  <1>7. Ordinary(out)
    BY <1>4 DEF Ordinary
  <1>8. clusterProcessGossipSection(nd, hdr) \in {Done(nd, {}), Done([noted EXCEPT !.view = seen], out)}
    <2>1. CASE IsSlave(nd, hdr.src)
      BY <2>1 DEF clusterProcessGossipSection
    <2>2. CASE ~IsSlave(nd, hdr.src)
      BY <2>2, Zenon DEF clusterProcessGossipSection, noted, heard, marked
    <2> QED
      BY <2>1, <2>2
  <1>9. Quiet(nd, Done([noted EXCEPT !.view = seen], out))
    <2> HIDE DEF seen, out
    <2> QED
      BY <1>2, <1>6, <1>7, KeepsTwice, LoudIsQuiet
  <1>10. Quiet(nd, Done(nd, {}))
    BY KeepsItself, SilentIsQuiet
  <1> QED
    BY <1>8, <1>9, <1>10

\* The header: nothing the packet says is ahead of the currentEpoch after it.
LEMMA HeaderKeeps ==
    ASSUME NEW nd, NodeOK(nd), NEW hdr, PacketOK(hdr)
    PROVE  Keeps(nd, ProcessHeader(nd, hdr)) /\ hdr.cur <= ProcessHeader(nd, hdr).cur
  <1> DEFINE c == Max({nd.cur, hdr.cur})
             e == Max({nd.view[hdr.src].ce, hdr.ce})
             moff == IF /\ nd.mf.end /\ MyMaster(nd) = hdr.src /\ hdr.paused /\ nd.mf.off = 0
                     THEN hdr.off ELSE nd.mf.off
             newer == [nd EXCEPT !.cur = c]
             known == [newer EXCEPT !.view[hdr.src].ce = e]
             off == [known EXCEPT !.mf.off = moff]
  <1>1. /\ hdr.src \in Node /\ nd.cur \in Nat /\ hdr.cur \in Nat /\ hdr.ce \in Nat /\ hdr.ce <= hdr.cur
        /\ nd.view[hdr.src].ce \in Nat /\ nd.view[hdr.src].ce <= nd.cur
    BY DEF NodeOK, PacketOK, Knowledge
  <1>2. c \in Nat /\ c >= nd.cur /\ c >= hdr.cur
    BY <1>1, MaxOfTwo
  <1>3. e \in Nat /\ e \in {nd.view[hdr.src].ce, hdr.ce}
    BY <1>1, MaxOfTwo
  <1> HIDE DEF c, e, moff
  <1>4. e <= c
    BY <1>1, <1>2, <1>3
  <1>5. Keeps(nd, newer) /\ newer.cur = c
    BY <1>2 DEF Keeps, NodeOK, Knowledge
  <1>6. Keeps(newer, known) /\ known.cur = c
    <2>1. known.cur = newer.cur
      BY <1>5 DEF Keeps, NodeOK
    <2> HIDE DEF newer
    <2> QED
      BY <1>1, <1>3, <1>4, <1>5, <2>1, ConfigEpochKeeps DEF Keeps
  <1>7. Keeps(known, off) /\ off.cur = c
    <2> HIDE DEF known
    <2> QED
      BY <1>6 DEF Keeps, NodeOK
  <1>8. ProcessHeader(nd, hdr) = off
    BY DEF ProcessHeader, c, e, moff, NodeOK
  <1> QED
    BY <1>2, <1>5, <1>6, <1>7, <1>8, KeepsTwice

LEMMA ClearKeeps ==
    ASSUME NEW nd, NodeOK(nd), NEW n \in Node, NEW late
    PROVE  Keeps(nd, clearNodeFailureIfNeeded(nd, n, late))
  BY FailKeeps, KeepsItself DEF clearNodeFailureIfNeeded

LEMMA RoleKeeps ==
    ASSUME NEW nd, NodeOK(nd), NEW hdr, PacketOK(hdr)
    PROVE  Keeps(nd, ProcessRole(nd, hdr))
  <1>1. hdr.src \in Node /\ hdr.slaveof \in Node \cup {NoNode}
    BY DEF PacketOK
  <1>2. Keeps(nd, clusterSetNodeAsMaster(nd, hdr.src))
    BY <1>1, SlaveOfKeeps DEF clusterSetNodeAsMaster
  <1> DEFINE x == IF IsMaster(nd, hdr.src) THEN clusterDelNodeSlots(nd, hdr.src) ELSE nd
  <1>3. Keeps(nd, x)
    BY DelNodeSlotsKeeps, KeepsItself
  <1> HIDE DEF x
  <1>4. Keeps(nd, [x EXCEPT !.view[hdr.src].slaveof = hdr.slaveof])
    BY <1>1, <1>3, SlaveOfKeeps DEF Keeps
  <1> QED
    BY <1>2, <1>4 DEF ProcessRole, x

LEMMA SlotsQuiet ==
    ASSUME NEW nd, NodeOK(nd), NEW hdr, PacketOK(hdr)
    PROVE  Quiet(nd, ProcessSlots(nd, hdr))
  <1> DEFINE master == IF IsMaster(nd, hdr.src) THEN hdr.src ELSE nd.view[hdr.src].slaveof
             dirty == SlotsOf(nd, master) # hdr.slots
             taken == IF IsMaster(nd, hdr.src) /\ dirty
                      THEN clusterUpdateSlotsConfigWith(nd, hdr.src, hdr.ce, hdr.slots)
                      ELSE nd
             stale == {s \in hdr.slots : /\ taken.owner[s] \notin {hdr.src, NoNode}
                                         /\ taken.view[taken.owner[s]].ce > hdr.ce}
             out == IF dirty /\ stale # {}
                    THEN clusterSendUpdate(taken, hdr.src, taken.owner[Min(stale)]) ELSE {}
  <1>1. hdr.src \in Node /\ hdr.slots \subseteq Slot
    BY DEF PacketOK
  <1>2. Keeps(nd, taken)
    BY <1>1, UpdateSlotsKeeps, KeepsItself
  <1>3. NodeOK(taken)
    BY <1>2 DEF Keeps
  <1>4. ProcessSlots(nd, hdr) = Done(taken, out)
    BY DEF ProcessSlots
  <1> HIDE DEF taken, dirty
  <1>5. stale # {} => taken.owner[Min(stale)] \in Node
    <2> SUFFICES ASSUME stale # {} PROVE taken.owner[Min(stale)] \in Node
      OBVIOUS
    <2>1. stale \subseteq Slot
      BY <1>1
    <2>2. Min(stale) \in stale
      <3> HIDE DEF stale
      <3> QED
        BY <2>1, MinOfSlots
    <2>3. Min(stale) \in Slot /\ taken.owner[Min(stale)] # NoNode
      BY <2>1, <2>2
    <2> QED
      BY <1>3, <2>3 DEF NodeOK
  <1> HIDE DEF stale
  <1>6. Ordinary(out)
    BY <1>1, <1>3, <1>5, SendUpdateOrdinary DEF Ordinary
  <1> HIDE DEF out
  <1> QED
    BY <1>2, <1>4, <1>6, LoudIsQuiet

LEMMA HeartbeatQuiet ==
    ASSUME NEW nd, NodeOK(nd), NEW hdr, PacketOK(hdr), NEW late
    PROVE  Quiet(nd, ProcessHeartbeat(nd, hdr, late))
  <1> DEFINE pong == IF hdr.type = "PING" THEN clusterSendPing(nd, "PONG", hdr.src) ELSE {}
             alive == CASE hdr.type = "PONG" /\ NodeTimedOut(nd, hdr.src) ->
                             [nd EXCEPT !.view[hdr.src].fail = "none"]
                        [] hdr.type = "PONG" /\ NodeFailed(nd, hdr.src) ->
                             clearNodeFailureIfNeeded(nd, hdr.src, late)
                        [] OTHER -> nd
             role == ProcessRole(alive, hdr)
             slots == ProcessSlots(role, hdr)
             epoch == IF /\ IsMaster(slots.nd, slots.nd.me) /\ IsMaster(slots.nd, hdr.src)
                         /\ hdr.ce = slots.nd.view[slots.nd.me].ce
                      THEN clusterHandleConfigEpochCollision(slots.nd, hdr.src)
                      ELSE slots.nd
             gossip == clusterProcessGossipSection(epoch, hdr)
  <1>1. hdr.src \in Node
    BY DEF PacketOK
  <1>2. Ordinary(pong)
    BY <1>1, PingOrdinary DEF Ordinary
  <1>3. Keeps(nd, alive)
    <2>1. /\ Keeps(nd, [nd EXCEPT !.view[hdr.src].fail = "none"])
          /\ Keeps(nd, clearNodeFailureIfNeeded(nd, hdr.src, late)) /\ Keeps(nd, nd)
      BY <1>1, FailKeeps, ClearKeeps, KeepsItself
    <2>2. \/ alive = [nd EXCEPT !.view[hdr.src].fail = "none"]
          \/ alive = clearNodeFailureIfNeeded(nd, hdr.src, late)
          \/ alive = nd
      BY DEF NodeTimedOut, NodeFailed
    <2> HIDE DEF alive
    <2> QED
      BY <2>1, <2>2
  <1>4. ProcessHeartbeat(nd, hdr, late) = Done(gossip.nd, pong \cup slots.out \cup gossip.out)
    BY DEF ProcessHeartbeat
  <1> HIDE DEF pong, alive
  <1>5. Keeps(alive, role)
    BY <1>3, RoleKeeps DEF Keeps
  <1> HIDE DEF role
  <1>6. Quiet(role, slots)
    BY <1>5, SlotsQuiet DEF Keeps
  <1> HIDE DEF slots
  <1>7. Keeps(slots.nd, epoch)
    BY <1>6, CollisionKeeps, KeepsItself DEF Quiet, Keeps
  <1> HIDE DEF epoch
  <1>8. Quiet(epoch, gossip)
    BY <1>7, GossipQuiet DEF Keeps
  <1> HIDE DEF gossip
  <1>9. Keeps(nd, gossip.nd)
    BY <1>3, <1>5, <1>6, <1>7, <1>8 DEF Keeps, Quiet
  <1>10. Ordinary(pong \cup slots.out \cup gossip.out)
    BY <1>2, <1>6, <1>8 DEF Quiet, Ordinary
  <1> QED
    BY <1>4, <1>9, <1>10, LoudIsQuiet

LEMMA ProcessFailKeeps ==
    ASSUME NEW nd, NodeOK(nd), NEW hdr, PacketOK(hdr), hdr.type = "FAIL"
    PROVE  Keeps(nd, ProcessFail(nd, hdr))
  <1>1. hdr.about \in Node
    BY DEF PacketOK
  <1> QED
    BY <1>1, FailKeeps, KeepsItself DEF ProcessFail

LEMMA AuthAckKeeps ==
    ASSUME NEW nd, NodeOK(nd), NEW hdr
    PROVE  Keeps(nd, ProcessFailoverAuthAck(nd, hdr))
  BY DEF ProcessFailoverAuthAck, Keeps, NodeOK

\* The manual failover is not part of what NodeOK and the vote are about.
LEMMA ManualFailoverKeeps ==
    ASSUME NEW nd, NodeOK(nd), NEW mf, NEW paused
    PROVE  Keeps(nd, [nd EXCEPT !.mf = mf]) /\ Keeps(nd, [nd EXCEPT !.mf = mf, !.paused = paused])
  BY DEF Keeps, NodeOK

LEMMA MFStartKeeps ==
    ASSUME NEW nd, NodeOK(nd), NEW hdr
    PROVE  Keeps(nd, ProcessMFStart(nd, hdr))
  <1> DEFINE x == resetManualFailover(nd)
             y == [x EXCEPT !.mf.end = TRUE, !.mf.slave = hdr.src, !.paused = TRUE]
  <1>1. Keeps(nd, x)
    BY ResetManualFailoverKeeps
  <1> HIDE DEF x
  <1>2. Keeps(x, y)
    BY <1>1 DEF Keeps, NodeOK
  <1> QED
    BY <1>1, <1>2, KeepsItself, KeepsTwice DEF ProcessMFStart, x

LEMMA UpdateKeeps ==
    ASSUME NEW nd, NodeOK(nd), NEW hdr, PacketOK(hdr), hdr.type = "UPDATE", hdr.cur <= nd.cur
    PROVE  Keeps(nd, ProcessUpdate(nd, hdr))
  <1> DEFINE master == clusterSetNodeAsMaster(nd, hdr.about)
             known == [master EXCEPT !.view[hdr.about].ce = hdr.dataEpoch]
  <1>1. hdr.about \in Node /\ hdr.dataEpoch \in Nat /\ hdr.dataEpoch <= nd.cur
    BY DEF PacketOK, NodeOK
  <1>2. Keeps(nd, master) /\ master.cur = nd.cur
    <2>1. Keeps(nd, master)
      BY <1>1, SlaveOfKeeps DEF clusterSetNodeAsMaster
    <2>2. master.cur = nd.cur
      BY DEF clusterSetNodeAsMaster, NodeOK
    <2> QED
      BY <2>1, <2>2
  <1> HIDE DEF master
  <1>3. Keeps(master, known)
    BY <1>1, <1>2, ConfigEpochKeeps DEF Keeps
  <1>4. ProcessUpdate(nd, hdr) \in
            {nd, clusterUpdateSlotsConfigWith(known, hdr.about, hdr.dataEpoch, hdr.data)}
    BY DEF ProcessUpdate, master
  <1> HIDE DEF known
  <1>5. Keeps(known, clusterUpdateSlotsConfigWith(known, hdr.about, hdr.dataEpoch, hdr.data))
    BY <1>1, <1>3, UpdateSlotsKeeps DEF Keeps
  <1> QED
    BY <1>2, <1>3, <1>4, <1>5, KeepsItself DEF Keeps

\* A vote: one packet, in an epoch after the last one voted in.
Votes(nd, r) ==
    /\ NodeOK(r.nd) /\ r.nd.me = nd.me /\ r.nd.vote > nd.vote
    /\ \E p : r.out = {p} /\ PacketOK(p) /\ p.type = "AUTH_ACK" /\ p.cur = r.nd.vote

LEMMA AuthRequestVotes ==
    ASSUME NEW nd, NodeOK(nd), NEW hdr, PacketOK(hdr), NEW recent
    PROVE  LET r == clusterSendFailoverAuthIfNeeded(nd, hdr, recent)
           IN Quiet(nd, r) \/ Votes(nd, r)
  <1> DEFINE r == clusterSendFailoverAuthIfNeeded(nd, hdr, recent)
             voted == [nd EXCEPT !.vote = nd.cur]
             h == clusterBuildMessageHdr(voted, "AUTH_ACK", hdr.src)
  <1>1. CASE r = Done(nd, {})
    BY <1>1, KeepsItself, SilentIsQuiet
  <1>2. CASE r # Done(nd, {})
    <2>1. r = Done(voted, {h}) /\ nd.vote # nd.cur
      BY <1>2 DEF clusterSendFailoverAuthIfNeeded, clusterSendFailoverAuth
    <2>2. NodeOK(voted) /\ voted.me = nd.me /\ voted.vote = nd.cur /\ voted.cur = nd.cur
      BY DEF NodeOK
    <2>3. nd.cur > nd.vote
      BY <2>1 DEF NodeOK
    <2> HIDE DEF voted
    <2>4. hdr.src \in Node
      BY DEF PacketOK
    <2>5. HeaderOK(h) /\ h.type = "AUTH_ACK" /\ h.cur = nd.cur
      BY <2>2, <2>4, HeaderBuilt DEF PacketType
    <2> HIDE DEF h
    <2>6. PacketOK(h)
      BY <2>5, PlainPacket
    <2>7. r.nd = voted /\ r.out = {h}
      BY <2>1 DEF Done
    <2> HIDE DEF r
    <2> QED
      BY <2>2, <2>3, <2>5, <2>6, <2>7 DEF Votes, r
  <1> QED
    BY <1>1, <1>2

LEMMA VotesAfterKeeps ==
    ASSUME NEW a, NEW b, NEW r, Keeps(a, b), Quiet(b, r) \/ Votes(b, r)
    PROVE  Quiet(a, r) \/ Votes(a, r)
  BY DEF Quiet, Votes, Keeps

\* Whatever the packet, at most one vote leaves, and only in a new epoch.
LEMMA PacketProcessed ==
    ASSUME NEW nd, NodeOK(nd), NEW hdr, PacketOK(hdr), NEW late, NEW recent
    PROVE  LET r == clusterProcessPacket(nd, hdr, late, recent)
           IN Quiet(nd, r) \/ Votes(nd, r)
  <1> DEFINE h == ProcessHeader(nd, hdr)
             r == clusterProcessPacket(nd, hdr, late, recent)
  <1>1. Keeps(nd, h) /\ NodeOK(h) /\ hdr.cur <= h.cur
    BY HeaderKeeps DEF Keeps
  <1>2. /\ hdr.type \in {"PING", "PONG"} => r = ProcessHeartbeat(h, hdr, late)
        /\ hdr.type = "FAIL" => r = Done(ProcessFail(h, hdr), {})
        /\ hdr.type = "AUTH_REQUEST" => r = clusterSendFailoverAuthIfNeeded(h, hdr, recent)
        /\ hdr.type = "AUTH_ACK" => r = Done(ProcessFailoverAuthAck(h, hdr), {})
        /\ hdr.type = "MFSTART" => r = Done(ProcessMFStart(h, hdr), {})
        /\ hdr.type = "UPDATE" => r = Done(ProcessUpdate(h, hdr), {})
    BY DEF clusterProcessPacket
  <1> HIDE DEF h, r
  <1>3. Quiet(h, r) \/ Votes(h, r)
    <2>1. CASE hdr.type \in {"PING", "PONG"}
      BY <1>1, <1>2, <2>1, HeartbeatQuiet
    <2>2. CASE hdr.type = "FAIL"
      BY <1>1, <1>2, <2>2, ProcessFailKeeps, SilentIsQuiet
    <2>3. CASE hdr.type = "AUTH_REQUEST"
      BY <1>1, <1>2, <2>3, AuthRequestVotes
    <2>4. CASE hdr.type = "AUTH_ACK"
      BY <1>1, <1>2, <2>4, AuthAckKeeps, SilentIsQuiet
    <2>5. CASE hdr.type = "MFSTART"
      BY <1>1, <1>2, <2>5, MFStartKeeps, SilentIsQuiet
    <2>6. CASE hdr.type = "UPDATE"
      BY <1>1, <1>2, <2>6, UpdateKeeps, SilentIsQuiet
    <2> QED
      BY <2>1, <2>2, <2>3, <2>4, <2>5, <2>6 DEF PacketOK, PacketType
  <1>4. Quiet(nd, r) \/ Votes(nd, r)
    BY <1>1, <1>3, VotesAfterKeeps
  <1> QED
    BY <1>4 DEF r

-----------------------------------------------------------------------------
(* The timers and the commands *)

LEMMA ReplaceMasterQuiet ==
    ASSUME NEW nd, NodeOK(nd)
    PROVE  Quiet(nd, clusterFailoverReplaceYourMaster(nd))
  <1> DEFINE master == clusterSetNodeAsMaster(nd, nd.me)
             new == RebindSlots(master, nd.me, SlotsOf(nd, MyMaster(nd)))
  <1>1. nd.me \in Node
    BY DEF NodeOK
  <1>2. Keeps(nd, master)
    BY <1>1, SlaveOfKeeps DEF clusterSetNodeAsMaster
  <1>3. clusterFailoverReplaceYourMaster(nd) \in
            {Done(nd, {}), Done(resetManualFailover(new), clusterBroadcastPong(new))}
    BY DEF clusterFailoverReplaceYourMaster
  <1> HIDE DEF master
  <1>4. Keeps(nd, new)
    BY <1>1, <1>2, RebindKeeps DEF Keeps
  <1> HIDE DEF new
  <1>5. Keeps(nd, resetManualFailover(new)) /\ Ordinary(clusterBroadcastPong(new))
    BY <1>4, ResetManualFailoverKeeps, BroadcastOrdinary DEF Keeps
  <1> QED
    BY <1>3, <1>5, KeepsItself, SilentIsQuiet, LoudIsQuiet

\* A slave asks for votes in a new epoch; it wins with the epoch it asked in.
LEMMA SlaveFailoverQuiet ==
    ASSUME NEW nd, NodeOK(nd)
    PROVE  Quiet(nd, clusterHandleSlaveFailover(nd))
  <1> DEFINE r == clusterHandleSlaveFailover(nd)
             start == [nd EXCEPT !.auth.phase = IF nd.mf.end THEN "open" ELSE "delay",
                                 !.auth.count = 0, !.auth.sent = FALSE]
             told == UNION {clusterSendPing(start, "PONG", m) :
                              m \in SlavesOf(nd, MyMaster(nd)) \ {nd.me}}
             asked == [nd EXCEPT !.cur = @ + 1, !.auth.epoch = nd.cur + 1, !.auth.sent = TRUE]
             elected == [nd EXCEPT !.view[nd.me].ce = Max({@, nd.auth.epoch})]
  <1>1. \/ r = Done(nd, {})
        \/ r = Done(start, told)
        \/ r = Done(asked, clusterRequestFailoverAuth(asked))
        \/ r = clusterFailoverReplaceYourMaster(elected)
    BY DEF clusterHandleSlaveFailover
  <1>2. Quiet(nd, Done(nd, {}))
    BY KeepsItself, SilentIsQuiet
  <1>3. Quiet(nd, Done(start, told))
    <2>1. Keeps(nd, start)
      BY DEF Keeps, NodeOK
    <2> HIDE DEF start
    <2>2. Ordinary(told)
      BY <2>1, PingOrdinary DEF Keeps, Ordinary, SlavesOf
    <2> HIDE DEF told
    <2> QED
      BY <2>1, <2>2, LoudIsQuiet
  <1>4. Quiet(nd, Done(asked, clusterRequestFailoverAuth(asked)))
    <2>1. Keeps(nd, asked)
      <3>1. /\ asked.cur = nd.cur + 1 /\ asked.vote = nd.vote /\ asked.me = nd.me
            /\ asked.owner = nd.owner /\ asked.view = nd.view
            /\ asked.auth.epoch = nd.cur + 1
        BY DEF NodeOK
      <3>2. DOMAIN asked = DOMAIN nd /\ DOMAIN asked.auth = DOMAIN nd.auth
        BY DEF NodeOK
      <3> HIDE DEF asked
      <3>3. \A m \in Node : nd.view[m].ce \in Nat
        BY DEF NodeOK, Knowledge
      <3> QED
        BY <3>1, <3>2, <3>3 DEF Keeps, NodeOK
    <2> HIDE DEF asked
    <2> QED
      BY <2>1, RequestOrdinary, LoudIsQuiet DEF Keeps
  <1>5. Quiet(nd, clusterFailoverReplaceYourMaster(elected))
    <2> DEFINE e == Max({nd.view[nd.me].ce, nd.auth.epoch})
    <2>1. /\ nd.me \in Node /\ nd.view[nd.me].ce \in Nat /\ nd.auth.epoch \in Nat
          /\ nd.view[nd.me].ce <= nd.cur /\ nd.auth.epoch <= nd.cur
      BY DEF NodeOK, Knowledge
    <2>2. e \in Nat /\ e \in {nd.view[nd.me].ce, nd.auth.epoch}
      BY <2>1, MaxOfTwo
    <2> HIDE DEF e
    <2>3. e <= nd.cur
      BY <2>1, <2>2
    <2>4. Keeps(nd, [nd EXCEPT !.view[nd.me].ce = e])
      BY <2>1, <2>2, <2>3, ConfigEpochKeeps
    <2>5. elected = [nd EXCEPT !.view[nd.me].ce = e]
      BY DEF e
    <2>6. Keeps(nd, elected)
      BY <2>4, <2>5
    <2> HIDE DEF elected
    <2> QED
      BY <2>6, ReplaceMasterQuiet DEF Keeps, Quiet
  <1> HIDE DEF r
  <1>6. Quiet(nd, r)
    BY <1>1, <1>2, <1>3, <1>4, <1>5
  <1> QED
    BY <1>6 DEF r

LEMMA HandleManualFailoverKeeps ==
    ASSUME NEW nd, NodeOK(nd)
    PROVE  Keeps(nd, clusterHandleManualFailover(nd))
  BY DEF Keeps, NodeOK, clusterHandleManualFailover

LEMMA FailoverCommandQuiet ==
    ASSUME NEW nd, NodeOK(nd), IsSlave(nd, nd.me), NEW how \in {"agreed", "force", "takeover"}
    PROVE  Quiet(nd, clusterFailoverCommand(nd, how))
  <1> DEFINE x == resetManualFailover(nd)
             begun == [x EXCEPT !.mf.end = TRUE]
             bumped == clusterBumpConfigEpochWithoutConsensus(begun)
             r == clusterFailoverCommand(nd, how)
  <1>1. /\ how = "takeover" => r = clusterFailoverReplaceYourMaster(bumped)
        /\ how = "force" => r = Done([begun EXCEPT !.mf.can = TRUE], {})
        /\ how = "agreed" => r = Done(begun, clusterSendMFStart(begun, MyMaster(nd)))
    BY DEF clusterFailoverCommand
  <1> HIDE DEF r
  <1>2. Keeps(nd, x)
    BY ResetManualFailoverKeeps
  <1> HIDE DEF x
  <1>3. Keeps(x, begun)
    BY <1>2 DEF Keeps, NodeOK
  <1> HIDE DEF begun
  <1>4. Keeps(nd, begun) /\ NodeOK(begun)
    BY <1>2, <1>3 DEF Keeps
  <1>5. CASE how = "takeover"
    <2>1. Keeps(begun, bumped)
      BY <1>4, BumpKeeps
    <2> HIDE DEF bumped
    <2>2. Quiet(bumped, clusterFailoverReplaceYourMaster(bumped))
      BY <2>1, ReplaceMasterQuiet DEF Keeps
    <2>3. Quiet(nd, r)
      BY <1>1, <1>4, <1>5, <2>1, <2>2 DEF Keeps, Quiet
    <2> QED
      BY <2>3 DEF r
  <1>6. CASE how = "force"
    <2>1. Keeps(begun, [begun EXCEPT !.mf.can = TRUE])
      BY <1>4 DEF Keeps, NodeOK
    <2>2. Quiet(nd, r)
      BY <1>1, <1>4, <1>6, <2>1, SilentIsQuiet, KeepsTwice
    <2> QED
      BY <2>2 DEF r
  <1>7. CASE how = "agreed"
    <2>1. MyMaster(nd) \in Node
      BY MasterOf DEF NodeOK, MyMaster
    <2>2. Ordinary(clusterSendMFStart(begun, MyMaster(nd)))
      BY <1>4, <2>1, MFStartOrdinary
    <2>3. Quiet(nd, r)
      BY <1>1, <1>4, <1>7, <2>2, LoudIsQuiet
    <2> QED
      BY <2>3 DEF r
  <1> QED
    BY <1>5, <1>6, <1>7

-----------------------------------------------------------------------------
(* The inductive invariant *)

\* Every node's record is in order, and is its own.
RecordsOK == DOMAIN node = Node /\ \A n \in Node : NodeOK(node[n]) /\ node[n].me = n

\* nodes.conf knows the last vote of the node, and its epochs are in order.
ConfOK(d) ==
    /\ d.cur \in Nat /\ d.vote \in Nat /\ d.vote <= d.cur
    /\ d.owner \in [Slot -> Node \cup {NoNode}]
    /\ d.view \in [Node -> Knowledge]
    /\ \A m \in Node : d.view[m].ce <= d.cur

SavedOK ==
    DOMAIN disk = CanCrash /\ \A n \in CanCrash : ConfOK(disk[n]) /\ disk[n].vote = node[n].vote

PacketsOK == \A p \in net : PacketOK(p)

\* No vote left a node in an epoch after its lastVoteEpoch.
VotesOK == \A v \in votes : v.by \in Node /\ v.epoch \in Nat /\ v.epoch <= node[v.by].vote

IInv == RecordsOK /\ SavedOK /\ PacketsOK /\ VotesOK /\ OneVotePerEpoch

LEMMA ConfSaved == ASSUME NEW nd, NodeOK(nd) PROVE ConfOK(NodesConf(nd)) /\ NodesConf(nd).vote = nd.vote
  <1> DEFINE w == [m \in Node |-> [nd.view[m] EXCEPT !.reports = {}]]
  <1>1. \A m \in Node : w[m] \in Knowledge /\ w[m].ce = nd.view[m].ce
    BY DEF NodeOK, Knowledge
  <1>2. w \in [Node -> Knowledge] /\ \A m \in Node : w[m].ce <= nd.cur
    <2>1. w \in [Node -> Knowledge]
      BY <1>1
    <2>2. \A m \in Node : w[m].ce <= nd.cur
      BY <1>1 DEF NodeOK
    <2> QED
      BY <2>1, <2>2
  <1>3. /\ NodesConf(nd).view = w /\ NodesConf(nd).cur = nd.cur
        /\ NodesConf(nd).vote = nd.vote /\ NodesConf(nd).owner = nd.owner
    BY DEF NodesConf
  <1> HIDE DEF w
  <1> QED
    BY <1>2, <1>3 DEF ConfOK, NodeOK

LEMMA InitIInv == Init => IInv
  <1> SUFFICES ASSUME Init PROVE IInv
    OBVIOUS
  <1>1. PICK start \in Inits : node = start.node
    BY DEF Init
  <1>2. RecordsOK
    BY <1>1, InitsAssumption DEF RecordsOK
  <1>3. SavedOK
    <2>1. DOMAIN disk = CanCrash /\ \A n \in CanCrash : disk[n] = NodesConf(node[n])
      BY DEF Init
    <2>2. \A n \in CanCrash : NodeOK(node[n])
      BY <1>2, CrashAssumption DEF RecordsOK
    <2> QED
      BY <2>1, <2>2, ConfSaved DEF SavedOK
  <1>4. PacketsOK /\ VotesOK /\ OneVotePerEpoch
    BY DEF Init, PacketsOK, VotesOK, OneVotePerEpoch
  <1> QED
    BY <1>2, <1>3, <1>4 DEF IInv

\* The end of every handler: a vote is in nodes.conf when the packets leave.
LEMMA CommitSaves ==
    ASSUME IInv, NEW n \in Node, NEW r, NEW used, Commit(n, r, used),
           NodeOK(r.nd), r.nd.me = n, \A p \in r.out : PacketOK(p)
    PROVE  /\ RecordsOK' /\ SavedOK' /\ PacketsOK'
           /\ node'[n].vote = r.nd.vote /\ \A m \in Node \ {n} : node'[m] = node[m]
  <1> DEFINE nd == clusterUpdateState(r.nd)
  <1>1. NodeOK(nd) /\ nd.me = n /\ nd.vote = r.nd.vote
    BY UpdateStateKeeps DEF Keeps
  <1>2. /\ node' = [node EXCEPT ![n] = nd]
        /\ disk' = IF n \in CanCrash /\ MustSave(node[n], nd)
                   THEN [disk EXCEPT ![n] = NodesConf(nd)] ELSE disk
    BY DEF Commit
  <1> HIDE DEF nd
  <1>3. node'[n] = nd /\ \A m \in Node \ {n} : node'[m] = node[m]
    BY <1>2 DEF IInv, RecordsOK
  <1>4. RecordsOK'
    BY <1>1, <1>2, <1>3 DEF IInv, RecordsOK
  <1>5. SavedOK'
    <2>1. SUFFICES ASSUME NEW m \in CanCrash
                   PROVE  ConfOK(disk'[m]) /\ disk'[m].vote = node'[m].vote
      BY <1>2 DEF IInv, SavedOK
    <2>2. CASE m # n
      BY <1>2, <1>3, <2>2, CrashAssumption DEF IInv, SavedOK
    <2>3. CASE m = n /\ MustSave(node[n], nd)
      BY <1>1, <1>2, <1>3, <2>3, ConfSaved DEF IInv, SavedOK
    <2>4. CASE m = n /\ ~MustSave(node[n], nd)
      <3>1. nd.vote = node[n].vote
        BY <2>4 DEF MustSave
      <3> QED
        BY <1>2, <1>3, <2>4, <3>1 DEF IInv, SavedOK
    <2> QED
      BY <2>2, <2>3, <2>4
  <1>6. PacketsOK'
    <2>1. net' \subseteq net \cup r.out
      BY DEF Commit
    <2> QED
      BY <2>1 DEF IInv, PacketsOK
  <1> QED
    BY <1>1, <1>3, <1>4, <1>5, <1>6

LEMMA QuietStep ==
    ASSUME IInv, NEW n \in Node, NEW r, NEW used, Commit(n, r, used),
           Quiet(node[n], r), votes' = votes
    PROVE  IInv'
  <1>1. NodeOK(r.nd) /\ r.nd.me = n /\ r.nd.vote = node[n].vote /\ \A p \in r.out : PacketOK(p)
    BY DEF Quiet, Keeps, Ordinary, IInv, RecordsOK
  <1>2. /\ RecordsOK' /\ SavedOK' /\ PacketsOK'
        /\ node'[n].vote = r.nd.vote /\ \A m \in Node \ {n} : node'[m] = node[m]
    BY <1>1, CommitSaves
  <1>3. VotesOK' /\ OneVotePerEpoch'
    <2>1. \A m \in Node : node'[m].vote = node[m].vote
      BY <1>1, <1>2
    <2> QED
      BY <2>1 DEF IInv, VotesOK, OneVotePerEpoch
  <1> QED
    BY <1>2, <1>3 DEF IInv

LEMMA VoteStep ==
    ASSUME IInv, NEW n \in Node, NEW r, NEW used, Commit(n, r, used), Votes(node[n], r),
           votes' = votes \cup {[by |-> n, epoch |-> m.cur, for |-> m.dst] :
                                  m \in {x \in r.out : x.type = "AUTH_ACK"}}
    PROVE  IInv'
  <1>1. PICK p : r.out = {p} /\ PacketOK(p) /\ p.type = "AUTH_ACK" /\ p.cur = r.nd.vote
    BY DEF Votes
  <1>2. NodeOK(r.nd) /\ r.nd.me = n /\ r.nd.vote > node[n].vote
    BY DEF Votes, IInv, RecordsOK
  <1>3. /\ RecordsOK' /\ SavedOK' /\ PacketsOK'
        /\ node'[n].vote = r.nd.vote /\ \A m \in Node \ {n} : node'[m] = node[m]
    BY <1>1, <1>2, CommitSaves
  <1> DEFINE new == [by |-> n, epoch |-> p.cur, for |-> p.dst]
  <1>4. votes' = votes \cup {new}
    BY <1>1
  <1>5. new.by = n /\ new.epoch = r.nd.vote
    BY <1>1
  <1> HIDE DEF new
  <1>6. r.nd.vote \in Nat /\ node[n].vote \in Nat /\ \A m \in Node : node[m].vote \in Nat
    BY <1>2 DEF IInv, RecordsOK, NodeOK
  <1>7. \A v \in votes : v.by = n => v.epoch < new.epoch
    BY <1>2, <1>5, <1>6 DEF IInv, VotesOK
  <1>8. OneVotePerEpoch'
    <2> SUFFICES ASSUME NEW v \in votes', NEW w \in votes', v.by = w.by, v.epoch = w.epoch
                 PROVE  v = w
      BY DEF OneVotePerEpoch
    <2>1. CASE v \in votes /\ w \in votes
      BY <2>1 DEF IInv, OneVotePerEpoch
    <2>2. CASE v = new /\ w \in votes
      BY <1>5, <1>6, <1>7, <2>2 DEF IInv, VotesOK
    <2>3. CASE w = new /\ v \in votes
      BY <1>5, <1>6, <1>7, <2>3 DEF IInv, VotesOK
    <2> QED
      BY <1>4, <2>1, <2>2, <2>3
  <1>9. VotesOK'
    <2> SUFFICES ASSUME NEW v \in votes'
                 PROVE  v.by \in Node /\ v.epoch \in Nat /\ v.epoch <= node'[v.by].vote
      BY DEF VotesOK
    <2>1. CASE v = new
      BY <1>3, <1>5, <1>6, <2>1
    <2>2. CASE v \in votes /\ v.by # n
      BY <1>3, <2>2 DEF IInv, VotesOK
    <2>3. CASE v \in votes /\ v.by = n
      BY <1>2, <1>3, <1>6, <2>3 DEF IInv, VotesOK
    <2> QED
      BY <1>4, <2>1, <2>2, <2>3
  <1> QED
    BY <1>3, <1>8, <1>9 DEF IInv

\* Back from nodes.conf: the vote is remembered, currentEpoch is the largest epoch known.
LEMMA RestartStep ==
    ASSUME IInv, NEW n \in Node, Restart(n)
    PROVE  IInv'
  <1> DEFINE loaded == clusterLoadConfig(n)
             fixed == verifyClusterConfigWithData(loaded)
             nd == clusterUpdateState(fixed)
  <1>1. n \in CanCrash
    BY DEF Restart
  <1>2. ConfOK(disk[n]) /\ disk[n].vote = node[n].vote
    BY <1>1 DEF IInv, SavedOK
  <1>3. /\ loaded.me = n /\ loaded.vote = node[n].vote /\ NodeOK(loaded)
    <2> DEFINE es == {disk[n].cur} \cup {disk[n].view[m].ce : m \in Node}
    <2>1. Max(es) = disk[n].cur
      <3>1. disk[n].cur \in es /\ \A x \in es : x \in Nat /\ x <= disk[n].cur
        BY <1>2 DEF ConfOK, Knowledge
      <3> HIDE DEF es
      <3>2. \A x \in es : (\A y \in es : x >= y) => x = disk[n].cur
        BY <1>2, <3>1 DEF ConfOK
      <3>3. \A y \in es : disk[n].cur >= y
        BY <1>2, <3>1 DEF ConfOK
      <3> QED
        BY <3>1, <3>2, <3>3 DEF Max
    <2>2. /\ loaded.me = n /\ loaded.vote = disk[n].vote /\ loaded.cur = disk[n].cur
          /\ loaded.owner = disk[n].owner /\ loaded.view = disk[n].view
          /\ loaded.auth = NoElection
          /\ DOMAIN loaded = {"me", "cur", "vote", "state", "owner", "imp", "mig", "db",
                              "view", "auth", "mf", "off", "paused"}
      BY <2>1 DEF clusterLoadConfig
    <2>3. DOMAIN NoElection = {"phase", "epoch", "count", "sent"} /\ NoElection.epoch = 0
      BY DEF NoElection
    <2> HIDE DEF loaded
    <2> QED
      BY <1>2, <2>2, <2>3 DEF NodeOK, ConfOK
  <1> HIDE DEF loaded
  <1>4. Keeps(loaded, fixed)
    BY <1>3 DEF verifyClusterConfigWithData, Keeps, NodeOK
  <1> HIDE DEF fixed
  <1>5. NodeOK(nd) /\ nd.me = n /\ nd.vote = node[n].vote
    BY <1>3, <1>4, UpdateStateKeeps DEF Keeps
  <1>6. /\ node' = [node EXCEPT ![n] = nd] /\ disk' = [disk EXCEPT ![n] = NodesConf(nd)]
        /\ net' = net /\ votes' = votes
    BY DEF Restart, loaded, fixed
  <1> HIDE DEF nd
  <1>7. RecordsOK' /\ \A m \in Node : node'[m].vote = node[m].vote
    BY <1>5, <1>6 DEF IInv, RecordsOK
  <1>8. SavedOK'
    BY <1>5, <1>6, <1>7, ConfSaved, CrashAssumption DEF IInv, SavedOK
  <1> QED
    BY <1>6, <1>7, <1>8 DEF IInv, PacketsOK, VotesOK, OneVotePerEpoch

LEMMA ReceiveStep ==
    ASSUME IInv, NEW p \in net, NEW late, NEW recent, Receive(p, late, recent)
    PROVE  IInv'
  <1> DEFINE n == p.dst
             r == clusterProcessPacket(node[n], p, late, recent)
  <1>1. PacketOK(p) /\ n \in Node
    BY DEF IInv, PacketsOK, PacketOK
  <1>2. NodeOK(node[n])
    BY <1>1 DEF IInv, RecordsOK
  <1>3. Quiet(node[n], r) \/ Votes(node[n], r)
    BY <1>1, <1>2, PacketProcessed
  <1>4. /\ Commit(n, r, {p})
        /\ votes' = votes \cup {[by |-> n, epoch |-> m.cur, for |-> m.dst] :
                                  m \in {x \in r.out : x.type = "AUTH_ACK"}}
    BY DEF Receive
  <1> HIDE DEF n, r
  <1>5. CASE Quiet(node[n], r)
    <2>1. {x \in r.out : x.type = "AUTH_ACK"} = {}
      BY <1>5 DEF Quiet, Ordinary
    <2>2. votes' = votes
      BY <1>4, <2>1
    <2> QED
      BY <1>1, <1>4, <1>5, <2>2, QuietStep
  <1>6. CASE Votes(node[n], r)
    BY <1>1, <1>4, <1>6, VoteStep
  <1> QED
    BY <1>3, <1>5, <1>6

LEMMA CronStep ==
    ASSUME IInv, NEW n \in Node,
           \/ SlaveCron(n) \/ ElectionClock(n) \/ manualFailoverCheckTimeout(n)
           \/ Write(n) \/ Replicate(n)
    PROVE  IInv'
  <1>1. NodeOK(node[n]) /\ node[n].me = n
    BY DEF IInv, RecordsOK
  <1>2. CASE SlaveCron(n)
    <2> DEFINE nd == clusterHandleManualFailover(node[n])
               r == clusterHandleSlaveFailover(nd)
    <2>1. Keeps(node[n], nd)
      BY <1>1, HandleManualFailoverKeeps
    <2>2. Commit(n, r, {}) /\ votes' = votes
      BY <1>2 DEF SlaveCron
    <2> HIDE DEF nd
    <2>3. Quiet(nd, r)
      BY <2>1, SlaveFailoverQuiet DEF Keeps
    <2>4. Quiet(node[n], r)
      BY <2>1, <2>3 DEF Keeps, Quiet
    <2> HIDE DEF r
    <2> QED
      BY <2>2, <2>4, QuietStep
  <1>3. CASE ElectionClock(n)
    <2> DEFINE next == [delay |-> "open", open |-> "expired", expired |-> "idle"]
               late == {p \in net : \/ p.dst = n /\ p.type = "AUTH_ACK"
                                    \/ p.src = n /\ p.type = "AUTH_REQUEST"}
               nd == [node[n] EXCEPT !.auth.phase = next[@]]
               used == IF node[n].auth.phase = "expired" THEN late ELSE {}
    <2>1. Commit(n, Done(nd, {}), used) /\ votes' = votes
      BY <1>3 DEF ElectionClock
    <2>2. Keeps(node[n], nd)
      <3> HIDE DEF next
      <3> QED
        BY <1>1 DEF Keeps, NodeOK
    <2> HIDE DEF nd, used
    <2> QED
      BY <2>1, <2>2, SilentIsQuiet, QuietStep
  <1>4. CASE manualFailoverCheckTimeout(n)
    <2> DEFINE used == {p \in net : p.paused \/ p.type = "MFSTART"}
    <2>1. Commit(n, Done(resetManualFailover(node[n]), {}), used) /\ votes' = votes
      BY <1>4 DEF manualFailoverCheckTimeout
    <2> HIDE DEF used
    <2> QED
      BY <1>1, <2>1, ResetManualFailoverKeeps, SilentIsQuiet, QuietStep
  <1>5. CASE Write(n) \/ Replicate(n)
    <2> DEFINE nd == [node[n] EXCEPT !.off = @ + 1]
    <2>1. Commit(n, Done(nd, {}), {}) /\ votes' = votes
      BY <1>5 DEF Write, Replicate
    <2>2. Keeps(node[n], nd)
      BY <1>1 DEF Keeps, NodeOK
    <2> HIDE DEF nd
    <2> QED
      BY <2>1, <2>2, SilentIsQuiet, QuietStep
  <1> QED
    BY <1>2, <1>3, <1>4, <1>5

LEMMA PeerStep ==
    ASSUME IInv, NEW n \in Node, NEW m \in Node, NEW by,
           SendPing(n, m) \/ NodeTimeout(n, m) \/ ReportExpires(n, m, by)
    PROVE  IInv'
  <1>1. NodeOK(node[n]) /\ node[n].me = n
    BY DEF IInv, RecordsOK
  <1>2. CASE SendPing(n, m)
    <2>1. Ordinary(clusterSendPing(node[n], "PING", m))
      BY <1>1, PingOrdinary
    <2>2. Commit(n, Done(node[n], clusterSendPing(node[n], "PING", m)), {}) /\ votes' = votes
      BY <1>2 DEF SendPing
    <2> QED
      BY <1>1, <2>1, <2>2, KeepsItself, LoudIsQuiet, QuietStep
  <1>3. CASE NodeTimeout(n, m)
    <2> DEFINE nd == [node[n] EXCEPT !.view[m].fail = "pfail"]
    <2>1. Commit(n, Done(nd, {}), {}) /\ votes' = votes
      BY <1>3 DEF NodeTimeout
    <2>2. Keeps(node[n], nd)
      BY <1>1, FailKeeps
    <2> HIDE DEF nd
    <2> QED
      BY <2>1, <2>2, SilentIsQuiet, QuietStep
  <1>4. CASE ReportExpires(n, m, by)
    <2>1. Commit(n, Done(clusterNodeDelFailureReport(node[n], m, by), {}), {}) /\ votes' = votes
      BY <1>4 DEF ReportExpires
    <2> QED
      BY <1>1, <2>1, DelReportKeeps, SilentIsQuiet, QuietStep
  <1> QED
    BY <1>2, <1>3, <1>4

LEMMA CommandStep ==
    ASSUME IInv, NEW n \in Node, NEW how \in {"agreed", "force", "takeover"}, FailoverCommand(n, how)
    PROVE  IInv'
  <1> DEFINE r == clusterFailoverCommand(node[n], how)
  <1>1. NodeOK(node[n]) /\ node[n].me = n
    BY DEF IInv, RecordsOK
  <1>2. IsSlave(node[n], n) /\ Commit(n, r, {}) /\ votes' = votes
    BY DEF FailoverCommand
  <1>3. Quiet(node[n], r)
    BY <1>1, <1>2, FailoverCommandQuiet
  <1> HIDE DEF r
  <1> QED
    BY <1>2, <1>3, QuietStep

LEMMA CrashStep ==
    ASSUME IInv, NEW n \in Node, Crash(n)
    PROVE  IInv'
  BY DEF Crash, IInv, RecordsOK, SavedOK, PacketsOK, VotesOK, OneVotePerEpoch

LEMMA NextIInv == IInv /\ [Next]_vars => IInv'
  <1> SUFFICES ASSUME IInv, [Next]_vars PROVE IInv'
    OBVIOUS
  <1>1. CASE UNCHANGED vars
    BY <1>1 DEF vars, IInv, RecordsOK, SavedOK, PacketsOK, VotesOK, OneVotePerEpoch
  <1>2. ASSUME NEW n \in Node, NEW m \in Node, SendPing(n, m) \/ NodeTimeout(n, m) PROVE IInv'
    BY <1>2, PeerStep
  <1>3. ASSUME NEW n \in Node, NEW m \in Node, NEW by \in Node, ReportExpires(n, m, by) PROVE IInv'
    BY <1>3, PeerStep
  <1>4. ASSUME NEW p \in net, NEW late, NEW recent, Receive(p, late, recent) PROVE IInv'
    BY <1>4, ReceiveStep
  <1>5. ASSUME NEW n \in Node, \/ SlaveCron(n) \/ ElectionClock(n) \/ manualFailoverCheckTimeout(n)
                               \/ Write(n) \/ Replicate(n)
        PROVE  IInv'
    BY <1>5, CronStep
  <1>6. ASSUME NEW n \in Node, NEW how \in {"agreed", "force", "takeover"}, FailoverCommand(n, how)
        PROVE  IInv'
    BY <1>6, CommandStep
  <1>7. ASSUME NEW n \in Node, Crash(n) \/ Restart(n) PROVE IInv'
    BY <1>7, CrashStep, RestartStep
  <1> QED
    BY <1>1, <1>2, <1>3, <1>4, <1>5, <1>6, <1>7 DEF Next

(* The records, nodes.conf, the packets and the votes stay in order. *)
THEOREM Invariant == Spec => []IInv
  BY InitIInv, NextIInv, PTL DEF Spec

(* Whatever is lost, late or repeated and however often it crashes, a master gives
   one vote per epoch (clusterSendFailoverAuthIfNeeded, clusterSaveConfig), and no
   node knows a configEpoch after its currentEpoch, in memory or in nodes.conf
   (clusterProcessPacket, clusterLoadConfig). *)
THEOREM VotesStaySafe == Spec => []VotesAreSafe
  <1>1. IInv => OneVotePerEpoch
    BY DEF IInv
  <1>2. IInv => CurrentEpochIsMax
    BY DEF IInv, RecordsOK, SavedOK, NodeOK, ConfOK, CurrentEpochIsMax
  <1>3. IInv => VotesAreSafe
    BY <1>1, <1>2 DEF VotesAreSafe
  <1> QED
    BY <1>3, Invariant, PTL
=============================================================================
