--------------------------- MODULE MigrationProofs ---------------------------
(***************************************************************************)
(* For any number of masters, slaves, slots, keys and clients: moving a    *)
(* slot loses no value, shows no client an old one, and leaves nothing     *)
(* behind.                                                                 *)
(*                                                                         *)
(* The invariant IInv has four parts.  ConfigOK: nodes and packets know    *)
(* one configEpoch of every master but the target, which gets a new one,   *)
(* above all others, as it takes the slot; so whoever learns of the target *)
(* never gives the slot back to the source.  CliOK: what redis-cli has     *)
(* reached; the slot is given away after the source was emptied and while  *)
(* it passes clients on.  ClientOK: who comes with ASKING was sent by the  *)
(* source, for a key it did not hold.  DataOK: on which side the latest    *)
(* value of a key is.                                                      *)
(*                                                                         *)
(* First what each function of a node does to its record (Goes), then one  *)
(* lemma per action.                                                       *)
(***************************************************************************)
EXTENDS ClusterMigration, FiniteSetTheorems, WellFoundedInduction, TLAPS

Master(m) == Role(m) = NoNode

\* The target has taken the slot, its configEpoch, what the two sides hold.
Taken == node[Target].owner[TheSlot] = Target
TargetEpoch == node[Target].view[Target].ce
Mine == {k \in Key : KeySlot[k] = TheSlot}
Here(k) == node[Source].db[k]
There(k) == node[Target].db[k]
Emptied == \A k \in Mine : Here(k) = 0

\* The source answers with ASK or MOVED for a key it does not hold.
Passing == node[Source].owner[TheSlot] = Source => node[Source].mig[TheSlot] = Target

\* A configEpoch that is told of a master.
EpochOf(m, e, te) == IF m = Target THEN e \in {Epoch(Target), te} ELSE e = Epoch(m)

\* A node: its record is in order, roles and epochs are those of the cluster, only
\* TheSlot is open or moves.
MemberOK(nd, n, te, taken) ==
    /\ NodeOK(nd) /\ nd.me = n
    /\ nd.db \in [Key -> Nat]
    /\ nd.imp \in [Slot -> Node \cup {NoNode}] /\ nd.mig \in [Slot -> Node \cup {NoNode}]
    /\ \A m \in Node : nd.view[m].slaveof = Role(m)
    /\ \A m \in Node : Master(m) => EpochOf(m, nd.view[m].ce, te)
    /\ \A s \in Slot \ {TheSlot} : nd.owner[s] = Home(s) /\ nd.imp[s] = NoNode /\ nd.mig[s] = NoNode
    /\ nd.owner[TheSlot] \in {Source, Target}
    /\ nd.imp[TheSlot] \in {NoNode, Source} /\ (n # Target => nd.imp[TheSlot] = NoNode)
    /\ nd.mig[TheSlot] \in {NoNode, Target} /\ (n # Source => nd.mig[TheSlot] = NoNode)
    /\ n = Target => nd.view[Target].ce = te /\ (taken <=> nd.owner[TheSlot] = Target)
    /\ ~Master(n) /\ nd.owner[TheSlot] = Target => taken /\ nd.view[Target].ce = te

\* A heartbeat or an UPDATE speaks of the slots of its sender, or of the node it is about.
PacketOK(p, te, taken) ==
    /\ p.type \in {"PING", "UPDATE"}
    /\ p.src \in Node /\ p.dst \in Node /\ p.src # p.dst
    /\ p.cur \in Nat /\ p.ce \in Nat /\ p.ce <= p.cur
    /\ p.slaveof = Role(p.src)
    /\ Master(p.src) => EpochOf(p.src, p.ce, te)
    /\ p.slots \subseteq Slot
    /\ p.type = "PING" /\ Master(p.src) => \A s \in p.slots :
          IF s = TheSlot THEN p.src = Source \/ (p.src = Target /\ taken /\ p.ce = te)
          ELSE Home(s) = p.src
    /\ p.type = "UPDATE" =>
          /\ p.about \in Node /\ Master(p.about) /\ EpochOf(p.about, p.dataEpoch, te) /\ p.data \subseteq Slot
          /\ p.dataEpoch \in Nat /\ p.dataEpoch <= p.cur
          /\ \A s \in p.data : IF s = TheSlot THEN p.about \in {Source, Target} ELSE Home(s) = p.about

\* The configEpoch of the target: a new one once it has the slot.
EpochsOK(te, taken) ==
    /\ te \in Nat /\ te >= Epoch(Target) /\ taken \in BOOLEAN
    /\ te = Epoch(Target) \/ taken
    /\ taken => \A m \in Node \ {Target} : Master(m) => Epoch(m) < te

\* The configuration.
ConfigOK ==
    /\ DOMAIN node = Node
    /\ EpochsOK(TargetEpoch, Taken)
    /\ \A n \in Node : MemberOK(node[n], n, TargetEpoch, Taken)
    /\ \A p \in net : PacketOK(p, TargetEpoch, Taken)
    /\ Taken => node[Target].imp[TheSlot] = NoNode

\* redis-cli.
CliOK ==
    /\ DOMAIN cli = {"pc", "keys", "tell"} /\ \A n \in cli.tell : n \in Node /\ Master(n)
    /\ cli.pc \in {"importing", "migrating", "keys", "migrate", "setnode", "done", "failed"}
    /\ cli.pc = "migrate" => \E k \in Mine : cli.keys = {k}
    /\ cli.pc \in {"migrating", "keys", "migrate", "setnode"} => Taken \/ node[Target].imp[TheSlot] = Source
    /\ cli.pc \in {"keys", "migrate", "setnode"} => Passing
    /\ cli.pc = "setnode" => Emptied
    /\ Taken => cli.pc \in {"setnode", "done", "failed"}
    /\ Taken /\ "disowned" \notin unsure => Passing /\ Emptied
    /\ node[Source].owner[TheSlot] = Target => Emptied /\ cli.pc \in {"setnode", "done", "failed"}
    /\ Target \notin cli.tell => Taken
    /\ Source \notin cli.tell /\ cli.pc # "failed" =>
          node[Source].owner[TheSlot] = Target /\ node[Source].mig[TheSlot] = NoNode
    /\ cli.pc = "done" => cli.tell = {}

\* Clients.
ClientOK ==
    /\ DOMAIN client = Client
    /\ \A c \in Client : client[c] # Idle =>
         /\ DOMAIN client[c] = {"op", "keys", "at", "asking"}
         /\ client[c].op \in {"get", "set", "del"} /\ client[c].keys \in (SUBSET Key) \ {{}}
         /\ client[c].at \in Node /\ client[c].asking \in BOOLEAN
         /\ client[c].asking => client[c].at = Target /\ client[c].keys \subseteq Mine
                /\ (unsure = {} => Passing /\ \E k \in client[c].keys : Here(k) = 0)

\* The keys.
DataOK ==
    /\ version \in Nat /\ latest \in [Key -> Nat]
    /\ \A k \in Key \ Mine : \A n \in Node :
          node[n].db[k] = IF n = Home(KeySlot[k]) THEN latest[k] ELSE 0
    /\ \A k \in Mine : \A n \in Node \ {Source, Target} : node[n].db[k] = 0
    /\ "disowned" \notin unsure => \A k \in Mine : latest[k] \in {0, Here(k), There(k)}
    /\ unsure = {} =>
          /\ ~stale
          /\ \A k \in Mine : latest[k] = IF Here(k) # 0 THEN Here(k) ELSE There(k)
          /\ \A k \in Mine : Here(k) = 0 \/ There(k) = 0
          /\ ~Passing => \A k \in Mine : There(k) = 0

IInv == ConfigOK /\ CliOK /\ ClientOK /\ DataOK

-----------------------------------------------------------------------------
(* Numbers *)

\* The larger of two epochs.
LEMMA MaxOfTwo ==
    ASSUME NEW a \in Nat, NEW b \in Nat
    PROVE  Max({a, b}) \in {a, b} /\ Max({a, b}) >= a /\ Max({a, b}) >= b
  <1>1. \E x \in {a, b} : \A y \in {a, b} : x >= y
    OBVIOUS
  <1> QED
    BY <1>1 DEF Max

\* The first slot of a set.
LEMMA MinOfSlots ==
    ASSUME NEW S \in SUBSET Slot, S # {}
    PROVE  Min(S) \in S
  <1>1. S \subseteq Nat
    BY SlotAssumption
  <1> DEFINE R == {ss \in Nat \X Nat : ss[1] < ss[2]}
  <1>2. IsWellFoundedOn(R, Nat)
    BY NatLessThanWellFounded DEF OpToRel
  <1>3. PICK n \in S : \A m \in S : ~(<<m, n>> \in R)
    BY <1>1, <1>2, WFMin
  <1>4. \A m \in S : ~(m < n)
    BY <1>1, <1>3
  <1>5. \A m \in S : n <= m
    BY <1>1, <1>4
  <1> QED
    BY <1>5 DEF Min

\* countKeysInSlot is 0 when the node holds no key of the slot.
LEMMA NoKeys ==
    ASSUME NEW nd, NEW s
    PROVE  /\ CountKeysInSlot(nd, s) = 0 <=> \A k \in Key : KeySlot[k] = s => nd.db[k] = 0
           /\ CountKeysInSlot(nd, s) \in Nat
  <1> DEFINE S == {k \in Key : nd.db[k] # 0 /\ KeySlot[k] = s}
  <1>1. IsFiniteSet(S)
    BY MoveAssumption, FS_Subset
  <1>2. Cardinality(S) \in Nat /\ (Cardinality(S) = 0 <=> S = {})
    BY <1>1, FS_CardinalityType, FS_EmptySet
  <1>3. S = {} <=> \A k \in Key : KeySlot[k] = s => nd.db[k] = 0
    OBVIOUS
  <1> QED
    BY <1>2, <1>3 DEF CountKeysInSlot

-----------------------------------------------------------------------------
(* What the functions of a node do to its record *)

\* The same but for failure reports, the state and epochs of slaves.
Steady(a, b) ==
    /\ NodeOK(b) /\ b.me = a.me /\ b.db = a.db /\ b.imp = a.imp /\ b.mig = a.mig
    /\ b.owner = a.owner
    /\ \A m \in Node : b.view[m].slaveof = a.view[m].slaveof /\ b.view[m].ce = a.view[m].ce

\* What a packet may do to the record of node n: only the source loses the slot, when
\* the target has it, and its keys with it.
Goes(a, b, n, te, taken) ==
    /\ MemberOK(b, n, te, taken)
    /\ b.imp = a.imp /\ b.mig = a.mig
    /\ n # Source => b.db = a.db
    /\ n = Source => \/ b.owner[TheSlot] = a.owner[TheSlot] /\ b.db = a.db
                     \/ /\ taken /\ b.owner[TheSlot] = Target
                        /\ \A k \in Key : b.db[k] = IF KeySlot[k] = TheSlot THEN 0 ELSE a.db[k]

\* One handler after the other.
LEMMA GoesTwice ==
    ASSUME NEW a, NEW b, NEW c, NEW n, NEW te, NEW taken,
           Goes(a, b, n, te, taken), Goes(b, c, n, te, taken), a.db \in [Key -> Nat]
    PROVE  Goes(a, c, n, te, taken)
  <1>1. CASE n # Source
    BY <1>1 DEF Goes
  <1>2. CASE n = Source
    BY <1>2 DEF Goes
  <1> QED
    BY <1>1, <1>2

\* A handler that changes reports and flags only is one of those.
LEMMA SteadyGoes ==
    ASSUME NEW a, NEW b, NEW n \in Node, NEW te, NEW taken, MemberOK(a, n, te, taken), Steady(a, b)
    PROVE  Goes(a, b, n, te, taken)
  <1>1. MemberOK(b, n, te, taken)
    BY MoveAssumption DEF MemberOK, Steady
  <1> QED
    BY <1>1 DEF Goes, Steady

\* Nothing happens.
LEMMA SteadyItself == \A a : NodeOK(a) => Steady(a, a)
  BY DEF Steady

\* One after the other.
LEMMA SteadyTwice ==
    ASSUME NEW a, NEW b, NEW c, Steady(a, b), Steady(b, c) PROVE Steady(a, c)
  BY DEF Steady

\* clusterUpdateState changes the state only.
LEMMA StateSteady ==
    ASSUME NEW nd, NodeOK(nd) PROVE Steady(nd, clusterUpdateState(nd))
  BY DEF NodeOK, Steady, clusterUpdateState

\* Another view with the same roles and epochs.
LEMMA ViewSteady ==
    ASSUME NEW nd, NodeOK(nd), NEW v \in [Node -> Knowledge],
           \A m \in Node : v[m].slaveof = nd.view[m].slaveof /\ v[m].ce = nd.view[m].ce
    PROVE  Steady(nd, [nd EXCEPT !.view = v])
  BY DEF NodeOK, Steady

\* markNodeAsFailingIfNeeded touches the failure flag only.
LEMMA MarkSteady ==
    ASSUME NEW nd, NodeOK(nd), NEW m \in Node
    PROVE  Steady(nd, markNodeAsFailingIfNeeded(nd, m).nd)
  <1> DEFINE k == [nd.view[m] EXCEPT !.fail = "fail"]
             v == [nd.view EXCEPT ![m] = k]
             failed == [nd EXCEPT !.view[m].fail = "fail"]
  <1>1. k \in Knowledge /\ k.slaveof = nd.view[m].slaveof /\ k.ce = nd.view[m].ce
    BY DEF NodeOK, Knowledge
  <1>2. failed = [nd EXCEPT !.view = v]
    BY DEF NodeOK
  <1>3. v \in [Node -> Knowledge] /\ \A x \in Node : v[x].slaveof = nd.view[x].slaveof /\ v[x].ce = nd.view[x].ce
    <2> HIDE DEF k
    <2> QED
      BY <1>1 DEF NodeOK
  <1> HIDE DEF v
  <1>4. Steady(nd, failed)
    BY <1>2, <1>3, ViewSteady
  <1>5. markNodeAsFailingIfNeeded(nd, m).nd \in {nd, failed}
    BY DEF markNodeAsFailingIfNeeded, Done
  <1> HIDE DEF failed
  <1> QED
    BY <1>4, <1>5, SteadyItself

\* Packets other than UPDATEs are lost (Receive).
NoUpdates(out) == \A p \in out : p.type # "UPDATE"

\* The packets markNodeAsFailingIfNeeded sends are FAIL packets.
LEMMA MarkSends ==
    ASSUME NEW nd, NEW m
    PROVE  NoUpdates(markNodeAsFailingIfNeeded(nd, m).out)
  <1> DEFINE failed == [nd EXCEPT !.view[m].fail = "fail"]
  <1>1. markNodeAsFailingIfNeeded(nd, m).out \in {{}, clusterSendFail(failed, m)}
    BY DEF markNodeAsFailingIfNeeded, Done
  <1> HIDE DEF failed
  <1>2. NoUpdates(clusterSendFail(failed, m))
    BY DEF NoUpdates, clusterSendFail, clusterBuildMessageHdr
  <1> QED
    BY <1>1, <1>2 DEF NoUpdates

\* The gossip section changes reports and failure flags only.
LEMMA GossipSteady ==
    ASSUME NEW nd, NodeOK(nd), NEW hdr, hdr.src \in Node
    PROVE  /\ Steady(nd, clusterProcessGossipSection(nd, hdr).nd)
           /\ NoUpdates(clusterProcessGossipSection(nd, hdr).out)
  <1> DEFINE about == Node \ {nd.me, hdr.src}
             heard == [m \in Node |->
                        IF m \notin about THEN nd.view[m]
                        ELSE IF m \in hdr.bad
                             THEN [nd.view[m] EXCEPT !.reports = @ \cup {hdr.src}]
                             ELSE [nd.view[m] EXCEPT !.reports = @ \ {hdr.src}]]
             noted == [nd EXCEPT !.view = heard]
             suspected == about \cap hdr.bad
             marked(m) == markNodeAsFailingIfNeeded(noted, m)
             seen == [m \in Node |-> IF m \in suspected THEN marked(m).nd.view[m]
                                                       ELSE noted.view[m]]
             out == UNION {marked(m).out : m \in suspected}
  <1>1. /\ heard \in [Node -> Knowledge]
        /\ \A m \in Node : heard[m].slaveof = nd.view[m].slaveof /\ heard[m].ce = nd.view[m].ce
    <2>1. SUFFICES ASSUME NEW m \in Node
                   PROVE  /\ heard[m] \in Knowledge /\ heard[m].ce = nd.view[m].ce
                          /\ heard[m].slaveof = nd.view[m].slaveof
      OBVIOUS
    <2>2. nd.view[m] \in Knowledge
      BY DEF NodeOK
    <2> DEFINE more == [nd.view[m] EXCEPT !.reports = @ \cup {hdr.src}]
               less == [nd.view[m] EXCEPT !.reports = @ \ {hdr.src}]
    <2>3. /\ more \in Knowledge /\ more.ce = nd.view[m].ce /\ more.slaveof = nd.view[m].slaveof
          /\ less \in Knowledge /\ less.ce = nd.view[m].ce /\ less.slaveof = nd.view[m].slaveof
      BY <2>2 DEF Knowledge
    <2>4. heard[m] \in {nd.view[m], more, less}
      OBVIOUS
    <2> HIDE DEF more, less, heard
    <2> QED
      BY <2>2, <2>3, <2>4
  <1>2. Steady(nd, noted)
    <2> HIDE DEF heard
    <2> QED
      BY <1>1, ViewSteady
  <1>3. NodeOK(noted)
    BY <1>2 DEF Steady
  <1> HIDE DEF noted, heard
  <1>4. \A m \in Node : Steady(noted, marked(m).nd) /\ NoUpdates(marked(m).out)
    BY <1>3, MarkSteady, MarkSends
  <1> HIDE DEF marked
  <1>5. /\ seen \in [Node -> Knowledge]
        /\ \A m \in Node : seen[m].slaveof = noted.view[m].slaveof /\ seen[m].ce = noted.view[m].ce
    BY <1>3, <1>4 DEF NodeOK, Steady
  <1>6. Steady(noted, [noted EXCEPT !.view = seen])
    <2> HIDE DEF seen
    <2> QED
      BY <1>3, <1>5, ViewSteady
  <1>7. NoUpdates(out)
    BY <1>4 DEF NoUpdates
  <1>8. clusterProcessGossipSection(nd, hdr) \in {Done(nd, {}), Done([noted EXCEPT !.view = seen], out)}
    <2>1. CASE IsSlave(nd, hdr.src)
      BY <2>1 DEF clusterProcessGossipSection
    <2>2. CASE ~IsSlave(nd, hdr.src)
      BY <2>2, Zenon DEF clusterProcessGossipSection, noted, heard, marked
    <2> QED
      BY <2>1, <2>2
  <1>9. Steady(nd, [noted EXCEPT !.view = seen])
    <2> HIDE DEF seen
    <2> QED
      BY <1>2, <1>6, SteadyTwice
  <1>10. /\ Done([noted EXCEPT !.view = seen], out).nd = [noted EXCEPT !.view = seen]
         /\ Done([noted EXCEPT !.view = seen], out).out = out
         /\ Done(nd, {}).nd = nd /\ Done(nd, {}).out = {}
    <2> HIDE DEF seen, out
    <2> QED
      BY DEF Done
  <1>11. Steady(nd, nd) /\ NoUpdates({})
    BY SteadyItself DEF NoUpdates
  <1> HIDE DEF seen, out
  <1> QED
    BY <1>7, <1>8, <1>9, <1>10, <1>11

\* The header of a packet: epochs.
LEMMA HeaderGoes ==
    ASSUME NEW nd, NEW n \in Node, NEW te, NEW taken, EpochsOK(te, taken), MemberOK(nd, n, te, taken),
           NEW hdr, PacketOK(hdr, te, taken), hdr.dst = n
    PROVE  LET x == ProcessHeader(nd, hdr)
           IN /\ Goes(nd, x, n, te, taken) /\ x.owner = nd.owner /\ hdr.cur <= x.cur
              /\ hdr.src = Target /\ hdr.ce = te => x.view[Target].ce = te
  <1> DEFINE c == Max({nd.cur, hdr.cur})
             e == Max({nd.view[hdr.src].ce, hdr.ce})
             moff == IF /\ nd.mf.end /\ MyMaster(nd) = hdr.src /\ hdr.paused /\ nd.mf.off = 0
                     THEN hdr.off ELSE nd.mf.off
             k == [nd.view[hdr.src] EXCEPT !.ce = e]
             v == [nd.view EXCEPT ![hdr.src] = k]
             f == [nd.mf EXCEPT !.off = moff]
             x == ProcessHeader(nd, hdr)
  <1>1. /\ hdr.src \in Node /\ hdr.src # n /\ nd.cur \in Nat /\ hdr.cur \in Nat /\ hdr.ce \in Nat /\ hdr.ce <= hdr.cur
        /\ nd.view[hdr.src] \in Knowledge
        /\ nd.view[hdr.src].ce \in Nat /\ nd.view[hdr.src].ce <= nd.cur
    BY DEF MemberOK, NodeOK, PacketOK, Knowledge
  <1>2. c \in Nat /\ c >= nd.cur /\ c >= hdr.cur
    BY <1>1, MaxOfTwo
  <1>3. e \in Nat /\ e \in {nd.view[hdr.src].ce, hdr.ce} /\ e >= hdr.ce /\ e >= nd.view[hdr.src].ce
    BY <1>1, MaxOfTwo
  <1>4. x = [nd EXCEPT !.cur = c, !.view = v, !.mf = f]
    BY <1>1 DEF ProcessHeader, MemberOK, NodeOK
  <1>5. k \in Knowledge /\ k.ce = e /\ k.slaveof = nd.view[hdr.src].slaveof
    <2> HIDE DEF e
    <2> QED
      BY <1>1, <1>3 DEF Knowledge
  <1> HIDE DEF c, e, moff, k, f
  <1>6. e <= c
    BY <1>1, <1>2, <1>3
  <1>7. /\ v \in [Node -> Knowledge]
        /\ \A m \in Node : /\ v[m].slaveof = nd.view[m].slaveof
                           /\ v[m].ce <= c /\ (m # hdr.src => v[m].ce = nd.view[m].ce)
        /\ v[hdr.src].ce = e
    <2>1. nd.view \in [Node -> Knowledge] /\ \A m \in Node : nd.view[m].ce <= c /\ nd.view[m].ce \in Nat
      BY <1>2 DEF MemberOK, NodeOK, Knowledge
    <2> QED
      BY <2>1, <1>1, <1>5, <1>6
  <1> HIDE DEF v
  <1>8. NodeOK(x) /\ x.view = v /\ x.cur = c /\ x.owner = nd.owner
        /\ x.me = nd.me /\ x.db = nd.db /\ x.imp = nd.imp /\ x.mig = nd.mig
    BY <1>2, <1>4, <1>7 DEF MemberOK, NodeOK
  <1> HIDE DEF x
  <1>9. \A m \in Node : Master(m) => EpochOf(m, v[m].ce, te)
    <2> SUFFICES ASSUME NEW m \in Node, Master(m) PROVE EpochOf(m, v[m].ce, te)
      OBVIOUS
    <2>1. EpochOf(m, nd.view[m].ce, te)
      BY DEF MemberOK
    <2>2. CASE m = hdr.src
      <3>1. EpochOf(m, hdr.ce, te)
        BY <2>2 DEF PacketOK
      <3> QED
        BY <1>3, <1>7, <2>1, <2>2, <3>1 DEF EpochOf
    <2>3. CASE m # hdr.src
      BY <1>7, <2>1, <2>3
    <2> QED
      BY <2>2, <2>3
  <1>10. ((hdr.src = Target /\ hdr.ce = te) \/ nd.view[Target].ce = te) => v[Target].ce = te
    <2>1. EpochOf(Target, nd.view[Target].ce, te) /\ te \in Nat /\ te >= Epoch(Target) /\ Epoch(Target) \in Nat
          /\ nd.view[Target].ce \in Nat
      BY MoveAssumption, InitAssumption DEF MemberOK, EpochsOK, Master, Epoch, NodeOK, Knowledge
    <2>2. CASE hdr.src = Target
      <3>1. hdr.ce \in {Epoch(Target), te}
        BY <2>2, MoveAssumption DEF PacketOK, EpochOf, Master
      <3> QED
        BY <1>1, <1>3, <1>7, <2>1, <2>2, <3>1 DEF EpochOf
    <2>3. CASE hdr.src # Target
      BY <1>7, <2>3, MoveAssumption
    <2> QED
      BY <2>2, <2>3
  <1>11. MemberOK(x, n, te, taken)
    BY <1>7, <1>8, <1>9, <1>10 DEF MemberOK
  <1> QED
    BY <1>2, <1>8, <1>10, <1>11 DEF Goes, x

\* The sender says what its role was before.
LEMMA RoleSteady ==
    ASSUME NEW nd, NEW n \in Node, NEW te, NEW taken, MemberOK(nd, n, te, taken),
           NEW hdr, hdr.src \in Node, hdr.slaveof = Role(hdr.src)
    PROVE  Steady(nd, ProcessRole(nd, hdr))
  <1> DEFINE k == [nd.view[hdr.src] EXCEPT !.slaveof = Role(hdr.src)]
             v == [nd.view EXCEPT ![hdr.src] = k]
  <1>1. nd.view \in [Node -> Knowledge] /\ nd.view[hdr.src].slaveof = Role(hdr.src) /\ NodeOK(nd)
    BY DEF MemberOK, NodeOK
  <1>2. k \in Knowledge /\ k.ce = nd.view[hdr.src].ce /\ k.slaveof = nd.view[hdr.src].slaveof
    BY <1>1 DEF Knowledge
  <1>3. ProcessRole(nd, hdr) = [nd EXCEPT !.view = v]
    BY <1>1 DEF ProcessRole, clusterSetNodeAsMaster, IsMaster, NodeOK
  <1> HIDE DEF k
  <1>4. v \in [Node -> Knowledge] /\ \A m \in Node : v[m].slaveof = nd.view[m].slaveof /\ v[m].ce = nd.view[m].ce
    BY <1>1, <1>2
  <1> HIDE DEF v
  <1> QED
    BY <1>1, <1>3, <1>4, ViewSteady

\* What a node may claim: its own slots, and TheSlot while it is the source, or once
\* the target has it, with its new epoch.
Claims(sender, e, slots, te, taken) ==
    \A s \in slots : IF s = TheSlot THEN \/ sender = Source /\ e = Epoch(Source)
                                         \/ sender = Target /\ taken /\ e = te
                     ELSE Home(s) = sender

\* RebindSlots of TheSlot, or of nothing.
LEMMA Rebound ==
    ASSUME NEW nd, NodeOK(nd), NEW sender \in Node, NEW moved \in SUBSET {TheSlot}
    PROVE  LET x == RebindSlots(nd, sender, moved)
           IN /\ NodeOK(x) /\ x.me = nd.me /\ x.db = nd.db /\ x.imp = nd.imp /\ x.mig = nd.mig
              /\ x.view = nd.view
              /\ \A s \in Slot : x.owner[s] = IF s \in moved THEN sender ELSE nd.owner[s]
  BY MoveAssumption DEF RebindSlots, NodeOK

\* clusterUpdateSlotsConfigWith: only TheSlot moves, and never back from the target.
LEMMA UpdateSlotsGoes ==
    ASSUME NEW nd, NEW n \in Node, NEW te, NEW taken, EpochsOK(te, taken), MemberOK(nd, n, te, taken),
           NEW sender \in Node, Master(sender), NEW e \in Nat, NEW slots \in SUBSET Slot,
           Claims(sender, e, slots, te, taken),
           sender = Target /\ TheSlot \in slots => nd.view[Target].ce = te
    PROVE  Goes(nd, clusterUpdateSlotsConfigWith(nd, sender, e, slots), n, te, taken)
  <1> DEFINE curmaster == IF IsMaster(nd, nd.me) THEN nd.me ELSE MyMaster(nd)
             moved == {s \in slots : /\ nd.owner[s] # sender
                                     /\ nd.imp[s] = NoNode
                                     /\ \/ nd.owner[s] = NoNode
                                        \/ nd.view[nd.owner[s]].ce < e}
             dirty == {s \in moved : nd.owner[s] = nd.me /\ CountKeysInSlot(nd, s) > 0}
             newmaster == \E s \in moved : nd.owner[s] = curmaster
             after == RebindSlots(nd, sender, moved)
             x == clusterUpdateSlotsConfigWith(nd, sender, e, slots)
  <1>1. x = IF sender = nd.me THEN nd
            ELSE IF newmaster /\ SlotsOf(after, curmaster) = {} THEN clusterSetMaster(after, sender)
            ELSE DelKeysInSlots(after, dirty)
    BY DEF clusterUpdateSlotsConfigWith
  <1>2. moved \subseteq {TheSlot} /\ NodeOK(nd) /\ nd.me = n
    BY DEF Claims, MemberOK
  <1>3. TheSlot \in moved => \/ sender = Source /\ e = Epoch(Source) /\ nd.owner[TheSlot] = Target
                             \/ sender = Target /\ taken /\ e = te /\ nd.owner[TheSlot] = Source
    BY DEF Claims, MemberOK
  <1>4. TheSlot \in moved /\ nd.owner[TheSlot] = Target => n # Target /\ Master(n)
    <2> SUFFICES ASSUME TheSlot \in moved, nd.owner[TheSlot] = Target, n = Target \/ ~Master(n)
                 PROVE FALSE
      OBVIOUS
    <2>1. taken /\ nd.view[Target].ce = te
      BY DEF MemberOK
    <2>2. e = Epoch(Source)
      BY <1>3, MoveAssumption DEF MemberOK
    <2>3. Target # NoNode /\ nd.view[nd.owner[TheSlot]].ce < e
      BY MoveAssumption, NodeAssumption DEF NoNode
    <2>4. Epoch(Source) < te /\ te \in Nat /\ Epoch(Source) \in Nat
      BY <2>1, MoveAssumption, InitAssumption DEF EpochsOK, Master, Epoch, NodeOK, Knowledge
    <2> QED
      BY <2>1, <2>2, <2>3, <2>4
  <1>5. CASE sender = n
    <2>1. x = nd
      BY <1>1, <1>2, <1>5
    <2> HIDE DEF x
    <2> QED
      BY <1>2, <2>1, SteadyItself, SteadyGoes DEF x
  <1>6. CASE sender # n
    <2>1. ~(newmaster /\ SlotsOf(after, curmaster) = {})
      <3> SUFFICES ASSUME newmaster PROVE SlotsOf(after, curmaster) # {}
        OBVIOUS
      <3>1. TheSlot \in moved /\ nd.owner[TheSlot] = curmaster
        BY <1>2
      <3>2. curmaster = (IF Master(n) THEN n ELSE Role(n))
        BY <1>2 DEF MemberOK, IsMaster, MyMaster, Master
      <3>3. curmaster = Source
        BY <1>3, <1>4, <3>1, <3>2, <1>6, MoveAssumption
      <3>4. PICK s \in Slot \ {TheSlot} : Home(s) = Source
        BY MoveAssumption
      <3>5. after.owner[s] = Source
        <4> HIDE DEF moved
        <4> QED
          BY <1>2, <3>4, Rebound DEF MemberOK
      <3> QED
        BY <3>3, <3>4, <3>5 DEF SlotsOf
    <2>2. x = DelKeysInSlots(after, dirty)
      BY <1>1, <1>2, <1>6, <2>1
    <2>3. /\ NodeOK(after) /\ after.me = n /\ after.db = nd.db /\ after.imp = nd.imp /\ after.mig = nd.mig
          /\ after.view = nd.view
          /\ \A s \in Slot : after.owner[s] = IF s \in moved THEN sender ELSE nd.owner[s]
      <3> HIDE DEF moved
      <3> QED
        BY <1>2, Rebound
    <2>4. dirty \subseteq moved
      OBVIOUS
    <2>5. TheSlot \in dirty <=> TheSlot \in moved /\ nd.owner[TheSlot] = n /\ CountKeysInSlot(nd, TheSlot) # 0
      <3>1. CountKeysInSlot(nd, TheSlot) \in Nat
        BY NoKeys
      <3> QED
        BY <1>2, <3>1
    <2> HIDE DEF moved, dirty, after
    <2>6. /\ NodeOK(x) /\ x.me = n /\ x.imp = nd.imp /\ x.mig = nd.mig /\ x.view = nd.view
          /\ x.owner = after.owner
          /\ x.db = [k \in Key |-> IF KeySlot[k] \in dirty THEN 0 ELSE nd.db[k]]
      BY <2>2, <2>3 DEF DelKeysInSlots, NodeOK
    <2> HIDE DEF x
    <2>7. nd.db \in [Key -> Nat] /\ \A s \in Slot \ {TheSlot} : nd.owner[s] = Home(s)
      BY DEF MemberOK
    <2>8. x.db \in [Key -> Nat]
      BY <2>6, <2>7
    <2>9. \A s \in Slot \ {TheSlot} : x.owner[s] = Home(s)
      BY <1>2, <2>3, <2>6, <2>7
    <2>10. x.owner[TheSlot] = IF TheSlot \in moved THEN sender ELSE nd.owner[TheSlot]
      BY <2>3, <2>6, MoveAssumption
    <2>11. n = Target => TheSlot \notin moved
      BY <1>3, <1>4, <1>6, MoveAssumption
    <2>12. ~Master(n) /\ x.owner[TheSlot] = Target => taken /\ nd.view[Target].ce = te
      <3>1. CASE TheSlot \in moved
        BY <1>3, <2>10, <3>1, MoveAssumption DEF moved
      <3>2. CASE TheSlot \notin moved
        BY <2>10, <3>2 DEF MemberOK
      <3> QED
        BY <3>1, <3>2
    <2>13. x.owner[TheSlot] \in {Source, Target}
      BY <1>3, <2>10 DEF MemberOK
    <2>14. MemberOK(x, n, te, taken)
      BY <2>6, <2>8, <2>9, <2>10, <2>11, <2>12, <2>13 DEF MemberOK
    <2>15. n # Source => x.db = nd.db
      <3> SUFFICES ASSUME n # Source PROVE dirty = {}
        BY <2>6, <2>7
      <3>1. TheSlot \notin dirty
        BY <1>3, <2>5, <2>11
      <3> QED
        BY <1>2, <2>4, <3>1
    <2>16. ASSUME n = Source
           PROVE  \/ x.owner[TheSlot] = nd.owner[TheSlot] /\ x.db = nd.db
                  \/ /\ taken /\ x.owner[TheSlot] = Target
                     /\ \A k \in Key : x.db[k] = IF KeySlot[k] = TheSlot THEN 0 ELSE nd.db[k]
      <3>1. CASE TheSlot \notin moved
        <4>1. dirty = {}
          BY <1>2, <2>4, <3>1
        <4> QED
          BY <2>6, <2>7, <2>10, <3>1, <4>1
      <3>2. CASE TheSlot \in moved
        <4>1. sender = Target /\ taken /\ nd.owner[TheSlot] = Source
          BY <1>3, <1>6, <2>16, <3>2
        <4>2. ASSUME NEW k \in Key PROVE x.db[k] = IF KeySlot[k] = TheSlot THEN 0 ELSE nd.db[k]
          <5>1. CASE CountKeysInSlot(nd, TheSlot) = 0
            <6>1. KeySlot[k] = TheSlot => nd.db[k] = 0
              BY <5>1, NoKeys
            <6> QED
              BY <1>2, <2>4, <2>6, <6>1
          <5>2. CASE CountKeysInSlot(nd, TheSlot) # 0
            BY <1>2, <2>4, <2>5, <2>6, <2>16, <3>2, <4>1, <5>2
          <5> QED
            BY <5>1, <5>2
        <4> QED
          BY <2>10, <3>2, <4>1, <4>2
      <3> QED
        BY <3>1, <3>2
    <2> QED
      BY <2>6, <2>14, <2>15, <2>16 DEF Goes, x
  <1> QED
    BY <1>5, <1>6

-----------------------------------------------------------------------------
(* Packets *)

HeaderFields == {"type", "src", "dst", "cur", "ce", "slots", "slaveof", "off", "paused",
                 "force", "bad", "about", "data", "dataEpoch"}

HeaderOK(h, nd, n, type, dst) ==
    /\ DOMAIN h = HeaderFields
    /\ h.type = type /\ h.src = n /\ h.dst = dst /\ h.slaveof = Role(n)
    /\ h.cur = nd.cur /\ h.cur \in Nat /\ h.ce \in Nat /\ h.ce <= h.cur
    /\ h.slots \subseteq Slot
    /\ Master(n) => h.ce = nd.view[n].ce /\ h.slots = SlotsOf(nd, n)

\* What clusterBuildMessageHdr says of a node.
LEMMA HeaderBuilt ==
    ASSUME NEW nd, NEW n \in Node, NEW te, NEW taken, MemberOK(nd, n, te, taken), NEW type, NEW dst
    PROVE  HeaderOK(clusterBuildMessageHdr(nd, type, dst), nd, n, type, dst)
  <1> DEFINE master == IF IsSlave(nd, nd.me) THEN MyMaster(nd) ELSE nd.me
             h == clusterBuildMessageHdr(nd, type, dst)
  <1>1. /\ nd.me = n /\ MyMaster(nd) = Role(n) /\ master \in Node /\ (Master(n) => master = n)
        /\ nd.view \in [Node -> Knowledge]
    BY DEF MemberOK, MyMaster, IsSlave, IsMaster, NodeOK, Knowledge, Master
  <1>2. nd.cur \in Nat /\ nd.view[master].ce \in Nat /\ nd.view[master].ce <= nd.cur
    BY <1>1 DEF MemberOK, NodeOK, Knowledge
  <1>3. SlotsOf(nd, master) \subseteq Slot
    BY DEF SlotsOf
  <1>4. /\ DOMAIN h = HeaderFields
        /\ h.type = type /\ h.dst = dst /\ h.cur = nd.cur
        /\ h.src = nd.me /\ h.slaveof = MyMaster(nd)
        /\ h.ce = nd.view[master].ce /\ h.slots = SlotsOf(nd, master)
    BY DEF clusterBuildMessageHdr, HeaderFields
  <1> HIDE DEF h, master
  <1> QED
    BY <1>1, <1>2, <1>3, <1>4 DEF h, HeaderOK

\* The slots a node knows of a master.
LEMMA KnownSlots ==
    ASSUME NEW nd, NEW n \in Node, NEW te, NEW taken, MemberOK(nd, n, te, taken), NEW m
    PROVE  \A s \in SlotsOf(nd, m) : IF s = TheSlot THEN m \in {Source, Target} /\ nd.owner[TheSlot] = m
                                     ELSE Home(s) = m
  BY DEF SlotsOf, MemberOK

\* A PING speaks of the slots of its sender.
LEMMA PingOK ==
    ASSUME NEW nd, NEW n \in Node, NEW te, NEW taken, MemberOK(nd, n, te, taken), NEW dst \in Node, dst # n
    PROVE  \A p \in clusterSendPing(nd, "PING", dst) : PacketOK(p, te, taken)
  <1> DEFINE h == clusterBuildMessageHdr(nd, "PING", dst)
             b == {m \in Node \ {nd.me, dst} : nd.view[m].fail # "none"}
             p == [h EXCEPT !.bad = b]
  <1>1. clusterSendPing(nd, "PING", dst) = {p}
    BY DEF clusterSendPing
  <1>2. HeaderOK(h, nd, n, "PING", dst)
    BY HeaderBuilt
  <1>claims. \A s \in SlotsOf(nd, n) : IF s = TheSlot THEN n \in {Source, Target} /\ nd.owner[TheSlot] = n
                                     ELSE Home(s) = n
    BY KnownSlots
  <1> HIDE DEF h, b
  <1>3. /\ p.type = "PING" /\ p.src = n /\ p.dst = dst /\ p.slaveof = Role(n)
        /\ p.cur \in Nat /\ p.ce \in Nat /\ p.ce <= p.cur
        /\ p.slots \subseteq Slot
        /\ Master(n) => p.ce = nd.view[n].ce /\ p.slots = SlotsOf(nd, n)
    BY <1>2 DEF HeaderFields, HeaderOK
  <1> HIDE DEF p
  <1>4. Master(n) => EpochOf(n, p.ce, te)
    BY <1>3 DEF MemberOK
  <1>5. Master(n) => \A s \in p.slots :
            IF s = TheSlot THEN n = Source \/ (n = Target /\ taken /\ p.ce = te) ELSE Home(s) = n
    <2> SUFFICES ASSUME Master(n), NEW s \in p.slots
                 PROVE  IF s = TheSlot THEN n = Source \/ (n = Target /\ taken /\ p.ce = te) ELSE Home(s) = n
      OBVIOUS
    <2>1. IF s = TheSlot THEN n \in {Source, Target} /\ nd.owner[TheSlot] = n ELSE Home(s) = n
      BY <1>3, <1>claims
    <2>2. n = Target /\ nd.owner[TheSlot] = Target => taken /\ nd.view[Target].ce = te
      BY DEF MemberOK
    <2> QED
      BY <1>3, <2>1, <2>2
  <1>6. PacketOK(p, te, taken)
    BY <1>3, <1>4, <1>5 DEF PacketOK
  <1> QED
    BY <1>1, <1>6

\* An UPDATE speaks of what its sender knows of a master.
LEMMA UpdateOK ==
    ASSUME NEW nd, NEW n \in Node, NEW te, NEW taken, MemberOK(nd, n, te, taken), NEW dst \in Node, dst # n,
           NEW m \in Node, Master(m)
    PROVE  \A p \in clusterSendUpdate(nd, dst, m) : PacketOK(p, te, taken)
  <1> DEFINE h == clusterBuildMessageHdr(nd, "UPDATE", dst)
             d == SlotsOf(nd, m)
             e == nd.view[m].ce
             p == [h EXCEPT !.about = m, !.data = d, !.dataEpoch = e]
  <1>1. clusterSendUpdate(nd, dst, m) = {p}
    BY DEF clusterSendUpdate
  <1>2. HeaderOK(h, nd, n, "UPDATE", dst)
    BY HeaderBuilt
  <1>3. e \in Nat /\ e <= nd.cur /\ EpochOf(m, e, te) /\ d \subseteq Slot
    BY DEF MemberOK, NodeOK, Knowledge, SlotsOf
  <1>4. \A s \in d : IF s = TheSlot THEN m \in {Source, Target} ELSE Home(s) = m
    BY KnownSlots
  <1> HIDE DEF h, d, e
  <1>5. /\ p.type = "UPDATE" /\ p.src = n /\ p.dst = dst /\ p.slaveof = Role(n)
        /\ p.cur = nd.cur /\ p.cur \in Nat /\ p.ce \in Nat /\ p.ce <= p.cur
        /\ p.slots \subseteq Slot
        /\ Master(n) => p.ce = nd.view[n].ce /\ p.slots = SlotsOf(nd, n)
        /\ p.about = m /\ p.data = d /\ p.dataEpoch = e
    BY <1>2 DEF HeaderFields, HeaderOK
  <1> HIDE DEF p
  <1>6. Master(n) => EpochOf(n, p.ce, te)
    BY <1>5 DEF MemberOK
  <1>7. PacketOK(p, te, taken)
    BY <1>3, <1>4, <1>5, <1>6 DEF PacketOK
  <1> QED
    BY <1>1, <1>7

\* The UPDATEs among the packets a handler queued.
UpdatesOK(out, te, taken) == \A q \in out : q.type = "UPDATE" => PacketOK(q, te, taken)

\* An owner is a master.
LEMMA OwnersAreMasters ==
    ASSUME NEW nd, NEW n \in Node, NEW te, NEW taken, MemberOK(nd, n, te, taken), NEW s \in Slot
    PROVE  nd.owner[s] \in Node /\ Master(nd.owner[s])
  <1>1. CASE s = TheSlot
    BY <1>1, MoveAssumption DEF MemberOK, Master
  <1>2. CASE s # TheSlot
    BY <1>2, InitAssumption DEF MemberOK, Master
  <1> QED
    BY <1>1, <1>2

\* ProcessSlots takes over newer claims and answers stale ones.
LEMMA SlotsGoes ==
    ASSUME NEW nd, NEW n \in Node, NEW te, NEW taken, EpochsOK(te, taken), MemberOK(nd, n, te, taken),
           NEW hdr, PacketOK(hdr, te, taken), hdr.dst = n, hdr.type = "PING",
           hdr.src = Target /\ hdr.ce = te => nd.view[Target].ce = te
    PROVE  /\ Goes(nd, ProcessSlots(nd, hdr).nd, n, te, taken)
           /\ UpdatesOK(ProcessSlots(nd, hdr).out, te, taken)
  <1> DEFINE master == IF IsMaster(nd, hdr.src) THEN hdr.src ELSE nd.view[hdr.src].slaveof
             dirty == SlotsOf(nd, master) # hdr.slots
             x == IF IsMaster(nd, hdr.src) /\ dirty
                  THEN clusterUpdateSlotsConfigWith(nd, hdr.src, hdr.ce, hdr.slots)
                  ELSE nd
             stl == {s \in hdr.slots : /\ x.owner[s] \notin {hdr.src, NoNode}
                                       /\ x.view[x.owner[s]].ce > hdr.ce}
             out == IF dirty /\ stl # {} THEN clusterSendUpdate(x, hdr.src, x.owner[Min(stl)]) ELSE {}
  <1>1. hdr.src \in Node /\ hdr.src # n /\ hdr.slots \in SUBSET Slot /\ hdr.ce \in Nat
    BY DEF PacketOK
  <1>2. ProcessSlots(nd, hdr) = Done(x, out)
    BY DEF ProcessSlots
  <1>3. Goes(nd, x, n, te, taken)
    <2>1. CASE IsMaster(nd, hdr.src) /\ dirty
      <3>1. Master(hdr.src)
        BY <1>1, <2>1 DEF MemberOK, IsMaster, Master
      <3>2. Claims(hdr.src, hdr.ce, hdr.slots, te, taken)
        BY <3>1, MoveAssumption DEF PacketOK, Claims, EpochOf
      <3>3. hdr.src = Target /\ TheSlot \in hdr.slots => nd.view[Target].ce = te
        BY <3>1, MoveAssumption DEF PacketOK
      <3>4. Goes(nd, clusterUpdateSlotsConfigWith(nd, hdr.src, hdr.ce, hdr.slots), n, te, taken)
        BY <1>1, <3>1, <3>2, <3>3, UpdateSlotsGoes
      <3> QED
        BY <2>1, <3>4
    <2>2. CASE ~(IsMaster(nd, hdr.src) /\ dirty)
      <3>1. x = nd
        BY <2>2
      <3> QED
        BY <3>1, SteadyItself, SteadyGoes DEF MemberOK
    <2> QED
      BY <2>1, <2>2
  <1> HIDE DEF x, dirty
  <1>4. MemberOK(x, n, te, taken)
    BY <1>3 DEF Goes
  <1>5. stl # {} => x.owner[Min(stl)] \in Node /\ Master(x.owner[Min(stl)])
    <2> SUFFICES ASSUME stl # {} PROVE x.owner[Min(stl)] \in Node /\ Master(x.owner[Min(stl)])
      OBVIOUS
    <2>1. stl \in SUBSET Slot
      BY <1>1
    <2> HIDE DEF stl
    <2>2. Min(stl) \in Slot
      BY <2>1, MinOfSlots
    <2> QED
      BY <1>4, <2>2, OwnersAreMasters
  <1> HIDE DEF stl
  <1>6. UpdatesOK(out, te, taken)
    BY <1>1, <1>4, <1>5, UpdateOK DEF UpdatesOK
  <1> HIDE DEF out
  <1>7. Done(x, out).nd = x /\ Done(x, out).out = out
    BY DEF Done
  <1> QED
    BY <1>2, <1>3, <1>6, <1>7

\* No two masters have one configEpoch, so none takes a new one
\* (clusterHandleConfigEpochCollision).
LEMMA DistinctEpochs ==
    ASSUME NEW te, NEW taken, EpochsOK(te, taken), NEW a \in Node, NEW b \in Node, a # b,
           Master(a), Master(b), NEW e, NEW f, EpochOf(a, e, te), EpochOf(b, f, te)
    PROVE  e # f
  <1>1. \A m \in Node : Epoch(m) \in Nat
    BY InitAssumption DEF Epoch, NodeOK, Knowledge
  <1>2. Epoch(a) # Epoch(b)
    BY InitAssumption DEF Master
  <1>3. te \in Nat /\ (te = Epoch(Target) \/ taken) /\ (taken => \A m \in Node \ {Target} : Master(m) => Epoch(m) < te)
    BY DEF EpochsOK
  <1>4. CASE a = Target
    <2>1. e \in {Epoch(a), te} /\ f = Epoch(b) /\ b # Target
      BY <1>4 DEF EpochOf
    <2>2. taken => Epoch(b) < te
      BY <1>3, <2>1
    <2> QED
      BY <1>1, <1>2, <1>3, <1>4, <2>1, <2>2
  <1>5. CASE b = Target
    <2>1. f \in {Epoch(b), te} /\ e = Epoch(a) /\ a # Target
      BY <1>5 DEF EpochOf
    <2>2. taken => Epoch(a) < te
      BY <1>3, <2>1
    <2> QED
      BY <1>1, <1>2, <1>3, <1>5, <2>1, <2>2
  <1>6. CASE a # Target /\ b # Target
    BY <1>2, <1>6 DEF EpochOf
  <1> QED
    BY <1>4, <1>5, <1>6

\* A PONG is no UPDATE.
LEMMA PongSends ==
    ASSUME NEW nd, NEW dst PROVE NoUpdates(clusterSendPing(nd, "PONG", dst))
  <1> DEFINE h == clusterBuildMessageHdr(nd, "PONG", dst)
             b == {m \in Node \ {nd.me, dst} : nd.view[m].fail # "none"}
             p == [h EXCEPT !.bad = b]
  <1>1. clusterSendPing(nd, "PONG", dst) = {p}
    BY DEF clusterSendPing
  <1>2. DOMAIN h = HeaderFields /\ h.type = "PONG"
    BY DEF clusterBuildMessageHdr, HeaderFields
  <1> HIDE DEF h, b
  <1>3. p.type = "PONG"
    BY <1>2 DEF HeaderFields
  <1> HIDE DEF p
  <1> QED
    BY <1>1, <1>3 DEF NoUpdates

\* A PING: role, slots, epochs and gossip.
LEMMA HeartbeatGoes ==
    ASSUME NEW nd, NEW n \in Node, NEW te, NEW taken, EpochsOK(te, taken), MemberOK(nd, n, te, taken),
           NEW hdr, PacketOK(hdr, te, taken), hdr.dst = n, hdr.type = "PING",
           hdr.src = Target /\ hdr.ce = te => nd.view[Target].ce = te
    PROVE  /\ Goes(nd, ProcessHeartbeat(nd, hdr, FALSE).nd, n, te, taken)
           /\ UpdatesOK(ProcessHeartbeat(nd, hdr, FALSE).out, te, taken)
  <1> DEFINE pong == clusterSendPing(nd, "PONG", hdr.src)
             role == ProcessRole(nd, hdr)
             slots == ProcessSlots(role, hdr)
             x == slots.nd
             gossip == clusterProcessGossipSection(x, hdr)
  <1>1. hdr.src \in Node /\ hdr.src # n /\ hdr.slaveof = Role(hdr.src) /\ nd.db \in [Key -> Nat]
    BY DEF PacketOK, MemberOK
  <1>2. Steady(nd, role)
    BY <1>1, RoleSteady
  <1>3. Goes(nd, role, n, te, taken)
    BY <1>2, SteadyGoes
  <1>4. MemberOK(role, n, te, taken) /\ role.view[Target].ce = nd.view[Target].ce
    BY <1>2, <1>3, MoveAssumption DEF Goes, Steady
  <1> HIDE DEF role
  <1>5. Goes(role, x, n, te, taken) /\ UpdatesOK(slots.out, te, taken)
    BY <1>4, SlotsGoes
  <1>6. MemberOK(x, n, te, taken)
    BY <1>5 DEF Goes
  <1>7. ~(IsMaster(x, x.me) /\ IsMaster(x, hdr.src) /\ hdr.ce = x.view[x.me].ce)
    <2> SUFFICES ASSUME IsMaster(x, x.me), IsMaster(x, hdr.src), hdr.ce = x.view[x.me].ce PROVE FALSE
      OBVIOUS
    <2> HIDE DEF x
    <2>1. x.me = n /\ Master(n) /\ Master(hdr.src) /\ EpochOf(n, x.view[n].ce, te)
      BY <1>1, <1>6 DEF IsMaster, Master, MemberOK
    <2>2. EpochOf(hdr.src, hdr.ce, te)
      BY <2>1 DEF PacketOK
    <2> QED
      BY <1>1, <2>1, <2>2, DistinctEpochs
  <1>8. ProcessHeartbeat(nd, hdr, FALSE) = Done(gossip.nd, pong \cup slots.out \cup gossip.out)
    BY <1>7, Zenon DEF ProcessHeartbeat, role
  <1> HIDE DEF slots
  <1>9. Steady(x, gossip.nd) /\ NoUpdates(gossip.out)
    <2>1. NodeOK(x)
      BY <1>6 DEF MemberOK
    <2> HIDE DEF x
    <2> QED
      BY <1>1, <2>1, GossipSteady
  <1> HIDE DEF gossip
  <1>10. Goes(x, gossip.nd, n, te, taken)
    BY <1>6, <1>9, SteadyGoes
  <1> HIDE DEF x
  <1>11. Goes(nd, gossip.nd, n, te, taken)
    <2>1. Goes(nd, x, n, te, taken)
      BY <1>1, <1>3, <1>5, GoesTwice
    <2> QED
      BY <1>1, <1>10, <2>1, GoesTwice
  <1>12. NoUpdates(pong)
    BY PongSends
  <1> HIDE DEF pong
  <1>13. UpdatesOK(pong \cup slots.out \cup gossip.out, te, taken)
    BY <1>5, <1>9, <1>12 DEF UpdatesOK, NoUpdates
  <1>14. /\ Done(gossip.nd, pong \cup slots.out \cup gossip.out).nd = gossip.nd
         /\ Done(gossip.nd, pong \cup slots.out \cup gossip.out).out = pong \cup slots.out \cup gossip.out
    BY DEF Done
  <1> QED
    BY <1>8, <1>11, <1>13, <1>14

\* An UPDATE brings news only of the target, after it took the slot.
LEMMA UpdateGoes ==
    ASSUME NEW nd, NEW n \in Node, NEW te, NEW taken, EpochsOK(te, taken), MemberOK(nd, n, te, taken),
           NEW hdr, PacketOK(hdr, te, taken), hdr.dst = n, hdr.type = "UPDATE", hdr.cur <= nd.cur
    PROVE  Goes(nd, ProcessUpdate(nd, hdr), n, te, taken)
  <1> DEFINE m == hdr.about
             k == [nd.view[m] EXCEPT !.slaveof = NoNode, !.ce = hdr.dataEpoch]
             v == [nd.view EXCEPT ![m] = k]
             known == [clusterSetNodeAsMaster(nd, hdr.about) EXCEPT !.view[hdr.about].ce = hdr.dataEpoch]
  <1>1. /\ m \in Node /\ Master(m) /\ EpochOf(m, hdr.dataEpoch, te) /\ hdr.data \in SUBSET Slot
        /\ hdr.dataEpoch \in Nat /\ hdr.dataEpoch <= hdr.cur /\ hdr.cur \in Nat
        /\ \A s \in hdr.data : IF s = TheSlot THEN m \in {Source, Target} ELSE Home(s) = m
    BY DEF PacketOK
  <1>2. /\ nd.view \in [Node -> Knowledge] /\ nd.view[m] \in Knowledge /\ nd.view[m].slaveof = NoNode
        /\ nd.cur \in Nat /\ NodeOK(nd) /\ nd.db \in [Key -> Nat]
        /\ EpochOf(m, nd.view[m].ce, te) /\ nd.view[m].ce \in Nat
    BY <1>1 DEF MemberOK, NodeOK, Master, Knowledge
  <1>3. CASE nd.view[m].ce >= hdr.dataEpoch
    <2>1. ProcessUpdate(nd, hdr) = nd
      BY <1>3 DEF ProcessUpdate
    <2> QED
      BY <1>2, <2>1, SteadyItself, SteadyGoes
  <1>4. CASE ~(nd.view[m].ce >= hdr.dataEpoch)
    <2>1. ProcessUpdate(nd, hdr) = clusterUpdateSlotsConfigWith(known, hdr.about, hdr.dataEpoch, hdr.data)
      BY <1>4, Zenon DEF ProcessUpdate
    <2>2. m = Target /\ hdr.dataEpoch = te /\ nd.view[m].ce # te /\ taken
      <3>1. te \in Nat /\ Epoch(Target) \in Nat /\ te >= Epoch(Target) /\ (te = Epoch(Target) \/ taken) /\ taken \in BOOLEAN
        BY InitAssumption, MoveAssumption DEF EpochsOK, Epoch, NodeOK, Knowledge
      <3>2. m = Target
        BY <1>1, <1>2, <1>4 DEF EpochOf
      <3> QED
        BY <1>1, <1>2, <1>4, <3>1, <3>2 DEF EpochOf
    <2>3. n # Target
      BY <2>2 DEF MemberOK
    <2>4. known = [nd EXCEPT !.view = v]
      BY <1>1, <1>2 DEF clusterSetNodeAsMaster, NodeOK, Knowledge
    <2>5. k \in Knowledge /\ k.slaveof = NoNode /\ k.ce = hdr.dataEpoch
      BY <1>1, <1>2 DEF Knowledge
    <2> HIDE DEF k
    <2>6. /\ v \in [Node -> Knowledge] /\ v[Target].ce = te
          /\ \A x \in Node : /\ v[x].slaveof = Role(x) /\ v[x].ce <= nd.cur
                             /\ Master(x) => EpochOf(x, v[x].ce, te)
      <3>1. \A x \in Node : v[x] = IF x = m THEN k ELSE nd.view[x]
        BY <1>1, <1>2
      <3>2. v \in [Node -> Knowledge]
        BY <1>1, <1>2, <2>5
      <3>3. v[Target].ce = te
        BY <1>1, <2>2, <2>5, <3>1
      <3>4. hdr.dataEpoch <= nd.cur
        BY <1>1, <1>2
      <3>5. \A x \in Node : nd.view[x].slaveof = Role(x) /\ nd.view[x].ce <= nd.cur
                            /\ (Master(x) => EpochOf(x, nd.view[x].ce, te))
        BY DEF MemberOK, NodeOK
      <3>6. Role(m) = NoNode
        BY <1>1 DEF Master
      <3> HIDE DEF v, m
      <3> QED
        BY <1>1, <2>5, <3>1, <3>2, <3>3, <3>4, <3>5, <3>6
    <2> HIDE DEF v
    <2>7. /\ NodeOK(known) /\ known.me = nd.me /\ known.db = nd.db /\ known.imp = nd.imp /\ known.mig = nd.mig
          /\ known.owner = nd.owner /\ known.view = v
      BY <1>2, <2>4, <2>6 DEF NodeOK
    <2> HIDE DEF known
    <2>8. MemberOK(known, n, te, taken)
      BY <2>2, <2>3, <2>6, <2>7 DEF MemberOK
    <2>9. Goes(nd, known, n, te, taken)
      BY <2>7, <2>8 DEF Goes
    <2>10. Claims(Target, te, hdr.data, te, taken)
      BY <1>1, <2>2 DEF Claims
    <2>11. Goes(known, clusterUpdateSlotsConfigWith(known, Target, te, hdr.data), n, te, taken)
      <3>1. te \in Nat /\ Master(Target) /\ Target \in Node /\ known.view[Target].ce = te
        BY <2>6, <2>7, MoveAssumption DEF EpochsOK, Master
      <3> QED
        BY <1>1, <2>8, <2>10, <3>1, UpdateSlotsGoes
    <2> QED
      BY <1>2, <2>1, <2>2, <2>9, <2>11, GoesTwice
  <1> QED
    BY <1>3, <1>4

\* clusterProcessPacket and clusterUpdateState.
LEMMA ReceiveGoes ==
    ASSUME NEW nd, NEW n \in Node, NEW te, NEW taken, EpochsOK(te, taken), MemberOK(nd, n, te, taken),
           NEW p, PacketOK(p, te, taken), p.dst = n
    PROVE  LET r == clusterProcessPacket(nd, p, FALSE, FALSE)
           IN Goes(nd, clusterUpdateState(r.nd), n, te, taken) /\ UpdatesOK(r.out, te, taken)
  <1> DEFINE h == ProcessHeader(nd, p)
             r == clusterProcessPacket(nd, p, FALSE, FALSE)
  <1>1. /\ Goes(nd, h, n, te, taken) /\ p.cur <= h.cur
        /\ p.src = Target /\ p.ce = te => h.view[Target].ce = te
    BY HeaderGoes
  <1>2. MemberOK(h, n, te, taken) /\ nd.db \in [Key -> Nat]
    BY <1>1 DEF Goes, MemberOK
  <1>3. Goes(h, r.nd, n, te, taken) /\ UpdatesOK(r.out, te, taken)
    <2>1. CASE p.type = "PING"
      <3>1. r = ProcessHeartbeat(h, p, FALSE)
        BY <2>1, Zenon DEF clusterProcessPacket
      <3> HIDE DEF h, r
      <3> QED
        BY <1>1, <1>2, <2>1, <3>1, HeartbeatGoes
    <2>2. CASE p.type = "UPDATE"
      <3>1. r = Done(ProcessUpdate(h, p), {})
        <4> HIDE DEF h
        <4> QED
          BY <2>2 DEF clusterProcessPacket, h
      <3> HIDE DEF h, r
      <3>2. r.nd = ProcessUpdate(h, p) /\ r.out = {}
        BY <3>1 DEF Done
      <3>3. Goes(h, ProcessUpdate(h, p), n, te, taken)
        BY <1>1, <1>2, <2>2, UpdateGoes
      <3> QED
        BY <3>2, <3>3 DEF UpdatesOK
    <2> QED
      BY <2>1, <2>2 DEF PacketOK
  <1> HIDE DEF h, r
  <1>4. Goes(nd, r.nd, n, te, taken)
    BY <1>1, <1>2, <1>3, GoesTwice
  <1>5. Goes(r.nd, clusterUpdateState(r.nd), n, te, taken)
    <2>1. MemberOK(r.nd, n, te, taken) /\ NodeOK(r.nd)
      BY <1>4 DEF Goes, MemberOK
    <2> QED
      BY <2>1, StateSteady, SteadyGoes
  <1>6. Goes(nd, clusterUpdateState(r.nd), n, te, taken)
    BY <1>2, <1>4, <1>5, GoesTwice
  <1> QED
    BY <1>3, <1>6 DEF r

-----------------------------------------------------------------------------
(* What a step leaves alone *)

\* Nodes and packets stay as they are.
LEMMA ConfigKept ==
    ASSUME ConfigOK, UNCHANGED <<node, net>> PROVE ConfigOK'
  BY DEF ConfigOK, Taken, TargetEpoch

\* Clients and nodes stay as they are.
LEMMA ClientsKept ==
    ASSUME ClientOK, UNCHANGED <<node, client, unsure>> PROVE ClientOK'
  BY DEF ClientOK, Passing, Here

\* Keys and what was written stay as they are.
LEMMA DataKept ==
    ASSUME DataOK, UNCHANGED <<node, version, latest, unsure, stale>> PROVE DataOK'
  BY DEF DataOK, Passing, Here, There

\* redis-cli and nodes stay as they are.
LEMMA CliKept ==
    ASSUME CliOK, UNCHANGED <<node, cli, unsure>> PROVE CliOK'
  BY DEF CliOK, Passing, Here, Taken, Emptied

\* A step that changes no variable.
LEMMA Stutter ==
    ASSUME IInv, UNCHANGED vars PROVE IInv'
  BY ConfigKept, ClientsKept, DataKept, CliKept DEF IInv, vars

-----------------------------------------------------------------------------
(* The steps of redis-cli that change no node *)

\* redis-cli is killed.
LEMMA GiveUpStep ==
    ASSUME IInv, GiveUp PROVE IInv'
  <1>1. ConfigOK' /\ ClientOK' /\ DataOK'
    BY ConfigKept, ClientsKept, DataKept DEF IInv, GiveUp
  <1>2. CliOK'
    BY DEF IInv, CliOK, GiveUp, Passing, Here, Taken, Emptied
  <1> QED
    BY <1>1, <1>2 DEF IInv

\* CLUSTER GETKEYSINSLOT: no key left, or one to move.
LEMMA GetKeysStep ==
    ASSUME IInv, GetKeysInSlot PROVE IInv'
  <1>1. ConfigOK' /\ ClientOK' /\ DataOK'
    BY ConfigKept, ClientsKept, DataKept DEF IInv, GetKeysInSlot
  <1> DEFINE held == {k \in Key : KeySlot[k] = TheSlot /\ node[Source].db[k] # 0}
  <1>2. held \subseteq Mine /\ (held = {} => Emptied)
    BY DEF Mine, Emptied, Here
  <1>3. \/ held = {} /\ cli' = [cli EXCEPT !.pc = "setnode"]
        \/ \E k \in held : cli' = [cli EXCEPT !.pc = "migrate", !.keys = {k}]
    BY DEF GetKeysInSlot
  <1> HIDE DEF held
  <1>4. cli.pc = "keys" /\ UNCHANGED <<node, unsure>>
    BY DEF GetKeysInSlot
  <1>7. CliOK'
    <2>1. CASE held = {} /\ cli' = [cli EXCEPT !.pc = "setnode"]
      BY <1>2, <1>4, <2>1 DEF IInv, CliOK, Passing, Here, Taken, Emptied
    <2>2. CASE \E k \in held : cli' = [cli EXCEPT !.pc = "migrate", !.keys = {k}]
      BY <1>2, <1>4, <2>2 DEF IInv, CliOK, Passing, Here, Taken, Emptied
    <2> QED
      BY <1>3, <2>1, <2>2
  <1> QED
    BY <1>1, <1>7 DEF IInv

\* A client picks a command.
LEMMA SendStep ==
    ASSUME IInv, NEW c \in Client, NEW op \in {"get", "set", "del"}, NEW keys \in (SUBSET Key) \ {{}},
           NEW n \in Node, SendCommand(c, op, keys, n)
    PROVE  IInv'
  <1>1. ConfigOK' /\ CliOK' /\ DataOK'
    BY ConfigKept, CliKept, DataKept DEF IInv, SendCommand
  <1> DEFINE new == [op |-> op, keys |-> keys, at |-> n, asking |-> FALSE]
  <1>2. client' = [client EXCEPT ![c] = new] /\ UNCHANGED <<node, unsure>>
    BY DEF SendCommand
  <1>3. /\ DOMAIN new = {"op", "keys", "at", "asking"} /\ new.op = op /\ new.keys = keys
        /\ new.at = n /\ new.asking = FALSE
    OBVIOUS
  <1> HIDE DEF new
  <1>4. DOMAIN client' = Client /\ \A d \in Client : client'[d] = IF d = c THEN new ELSE client[d]
    BY <1>2 DEF IInv, ClientOK
  <1>5. ClientOK'
    BY <1>2, <1>3, <1>4 DEF IInv, ClientOK, Passing, Here
  <1> QED
    BY <1>1, <1>5 DEF IInv

-----------------------------------------------------------------------------
(* The steps that open and close the slot *)

\* One node changes, and neither whether the target has the slot nor its epoch.
LEMMA NodeChanges ==
    ASSUME ConfigOK, NEW n \in Node, NEW x, MemberOK(x, n, TargetEpoch, Taken),
           node' = [node EXCEPT ![n] = x], \A p \in net' : PacketOK(p, TargetEpoch, Taken),
           n = Target /\ Taken => x.imp[TheSlot] = NoNode
    PROVE  /\ ConfigOK' /\ Taken' = Taken /\ TargetEpoch' = TargetEpoch /\ node'[n] = x
           /\ \A m \in Node : m # n => node'[m] = node[m]
  <1>1. /\ DOMAIN node' = Node /\ node'[n] = x
        /\ \A m \in Node : m # n => node'[m] = node[m]
    BY DEF ConfigOK
  <1>2. Taken' = Taken /\ TargetEpoch' = TargetEpoch
    <2>1. CASE n = Target
      <3>1. x.view[Target].ce = TargetEpoch /\ (Taken <=> x.owner[TheSlot] = Target)
        BY <2>1 DEF MemberOK
      <3> QED
        BY <1>1, <2>1, <3>1 DEF Taken, TargetEpoch
    <2>2. CASE n # Target
      BY <1>1, <2>2, MoveAssumption DEF Taken, TargetEpoch
    <2> QED
      BY <2>1, <2>2
  <1>3. \A m \in Node : MemberOK(node'[m], m, TargetEpoch, Taken)
    BY <1>1 DEF ConfigOK
  <1>4. Taken => node'[Target].imp[TheSlot] = NoNode
    BY <1>1, MoveAssumption DEF ConfigOK
  <1>5. ConfigOK'
    <2> HIDE DEF Taken, TargetEpoch
    <2> QED
      BY <1>1, <1>2, <1>3, <1>4 DEF ConfigOK
  <1> QED
    BY <1>1, <1>2, <1>5

\* The marks of TheSlot change.
Marked(nd, x, i, g) ==
    /\ NodeOK(x) /\ x.me = nd.me /\ x.db = nd.db /\ x.owner = nd.owner /\ x.view = nd.view
    /\ x.imp \in [Slot -> Node \cup {NoNode}] /\ x.mig \in [Slot -> Node \cup {NoNode}]
    /\ \A s \in Slot : /\ x.imp[s] = IF s = TheSlot THEN i ELSE nd.imp[s]
                       /\ x.mig[s] = IF s = TheSlot THEN g ELSE nd.mig[s]

\* Such a record is still in order.
LEMMA MarksChange ==
    ASSUME NEW nd, NEW n \in Node, NEW te, NEW taken, MemberOK(nd, n, te, taken),
           NEW i \in {NoNode, Source}, NEW g \in {NoNode, Target},
           n # Target => i = NoNode, n # Source => g = NoNode,
           NEW x, Marked(nd, x, i, g)
    PROVE  /\ MemberOK(x, n, te, taken) /\ x.owner = nd.owner /\ x.db = nd.db
           /\ x.imp[TheSlot] = i /\ x.mig[TheSlot] = g
  BY MoveAssumption DEF MemberOK, Marked

\* The records of the two sides.
LEMMA Sides ==
    ASSUME ConfigOK
    PROVE  /\ MemberOK(node[Source], Source, TargetEpoch, Taken) /\ MemberOK(node[Target], Target, TargetEpoch, Taken)
           /\ IsMaster(node[Source], node[Source].me) /\ IsMaster(node[Target], node[Target].me)
           /\ Source \in Node /\ Target \in Node /\ Source # Target
  BY MoveAssumption DEF ConfigOK, MemberOK, IsMaster

\* SETSLOT IMPORTING.
LEMMA OpenTargetStep ==
    ASSUME IInv, OpenTarget PROVE IInv'
  <1> DEFINE old == node[Target]
             nd == SetSlotImporting(old, TheSlot, Source)
  <1>1. /\ cli.pc = "importing" /\ node' = [node EXCEPT ![Target] = nd]
        /\ cli' = Reply(nd, old, "migrating")
        /\ UNCHANGED <<net, client, version, latest, unsure, stale>>
    BY DEF OpenTarget
  <1>2. ~Taken /\ node[Source].owner[TheSlot] # Target
    BY <1>1 DEF IInv, CliOK
  <1>3. MemberOK(old, Target, TargetEpoch, Taken) /\ IsMaster(old, old.me) /\ old.me = Target /\ Source # Target
    BY Sides DEF IInv, MemberOK
  <1>4. nd = [old EXCEPT !.imp[TheSlot] = Source]
    BY <1>2, <1>3 DEF SetSlotImporting, Taken
  <1> HIDE DEF nd, old
  <1>5. Marked(old, nd, Source, NoNode)
    BY <1>3, <1>4, MoveAssumption DEF Marked, MemberOK, NodeOK
  <1>6. MemberOK(nd, Target, TargetEpoch, Taken) /\ nd.owner = old.owner /\ nd.db = old.db
        /\ nd.imp[TheSlot] = Source
    BY <1>3, <1>5, MarksChange, MoveAssumption
  <1>7. /\ ConfigOK' /\ Taken' = Taken /\ node'[Target] = nd
        /\ \A m \in Node : m # Target => node'[m] = node[m]
    BY <1>1, <1>2, <1>6, NodeChanges, MoveAssumption DEF IInv, ConfigOK
  <1>8. node'[Source] = node[Source] /\ \A m \in Node : node'[m].db = node[m].db
    BY <1>6, <1>7, MoveAssumption DEF old
  <1>9. CliOK'
    <2>1. cli' = [cli EXCEPT !.pc = IF nd = old THEN "failed" ELSE "migrating"]
      BY <1>1 DEF Reply
    <2>2. node'[Target].imp[TheSlot] = Source
      BY <1>6, <1>7
    <2> QED
      BY <1>1, <1>2, <1>7, <1>8, <2>1, <2>2 DEF IInv, CliOK, Passing, Here, Emptied
  <1>10. ClientOK'
    BY <1>1, <1>8 DEF IInv, ClientOK, Passing, Here
  <1>11. DataOK'
    BY <1>1, <1>8, MoveAssumption DEF IInv, DataOK, Passing, Here, There
  <1> QED
    BY <1>7, <1>9, <1>10, <1>11 DEF IInv

\* SETSLOT MIGRATING.
LEMMA OpenSourceStep ==
    ASSUME IInv, OpenSource PROVE IInv'
  <1> DEFINE old == node[Source]
             nd == SetSlotMigrating(old, TheSlot, Target)
  <1>1. /\ cli.pc = "migrating" /\ node' = [node EXCEPT ![Source] = nd]
        /\ cli' = Reply(nd, old, "keys")
        /\ UNCHANGED <<net, client, version, latest, unsure, stale>>
    BY DEF OpenSource
  <1>2. ~Taken /\ old.owner[TheSlot] # Target
    BY <1>1 DEF IInv, CliOK
  <1>3. MemberOK(old, Source, TargetEpoch, Taken) /\ IsMaster(old, old.me) /\ old.me = Source /\ Source # Target
        /\ old.owner[TheSlot] = Source
    BY <1>2, Sides DEF IInv, MemberOK
  <1>4. nd = [old EXCEPT !.mig[TheSlot] = Target]
    BY <1>3 DEF SetSlotMigrating
  <1> HIDE DEF nd, old
  <1>5. Marked(old, nd, NoNode, Target)
    BY <1>3, <1>4, MoveAssumption DEF Marked, MemberOK, NodeOK
  <1>6. MemberOK(nd, Source, TargetEpoch, Taken) /\ nd.owner = old.owner /\ nd.db = old.db
        /\ nd.mig[TheSlot] = Target
    BY <1>3, <1>5, MarksChange, MoveAssumption
  <1>7. /\ ConfigOK' /\ Taken' = Taken /\ node'[Source] = nd
        /\ \A m \in Node : m # Source => node'[m] = node[m]
    BY <1>1, <1>2, <1>3, <1>6, NodeChanges, MoveAssumption DEF IInv, ConfigOK
  <1>8. node'[Target] = node[Target] /\ \A m \in Node : node'[m].db = node[m].db
    BY <1>6, <1>7, MoveAssumption DEF old
  <1>9. Passing' /\ node'[Source].owner[TheSlot] # Target
    BY <1>2, <1>6, <1>7 DEF Passing
  <1>10. CliOK'
    <2>1. cli' = [cli EXCEPT !.pc = IF nd = old THEN "failed" ELSE "keys"]
      BY <1>1 DEF Reply
    <2>2. Source \in cli.tell
      BY <1>1, <1>2 DEF IInv, CliOK, old
    <2> QED
      BY <1>1, <1>2, <1>7, <1>8, <1>9, <2>1, <2>2 DEF IInv, CliOK, Here, Emptied
  <1>11. ClientOK'
    BY <1>1, <1>8, <1>9, MoveAssumption DEF IInv, ClientOK, Here
  <1>12. DataOK'
    BY <1>1, <1>8, <1>9, MoveAssumption DEF IInv, DataOK, Here, There
  <1> QED
    BY <1>7, <1>10, <1>11, <1>12 DEF IInv

\* The operator closes the slot on one side.
LEMMA StableStep ==
    ASSUME IInv, NEW n \in Node, Stable(n) PROVE IInv'
  <1> DEFINE old == node[n]
             nd == SetSlotStable(old, TheSlot)
  <1>1. /\ cli.pc = "failed" /\ n \in {Source, Target} /\ node' = [node EXCEPT ![n] = nd]
        /\ "closed" \in unsure' /\ unsure \subseteq unsure'
        /\ n = Source /\ Taken => "disowned" \in unsure'
        /\ UNCHANGED <<net, cli, client, version, latest, stale>>
    BY DEF Stable, Taken, IInv, ConfigOK
  <1>2. MemberOK(old, n, TargetEpoch, Taken) /\ IsMaster(old, old.me)
    BY <1>1, Sides DEF IInv
  <1>3. nd = [old EXCEPT !.imp[TheSlot] = NoNode, !.mig[TheSlot] = NoNode]
    BY <1>2 DEF SetSlotStable
  <1> HIDE DEF nd, old
  <1>marked. Marked(old, nd, NoNode, NoNode)
    BY <1>2, <1>3, MoveAssumption DEF Marked, MemberOK, NodeOK
  <1>4. MemberOK(nd, n, TargetEpoch, Taken) /\ nd.owner = old.owner /\ nd.db = old.db
        /\ nd.imp[TheSlot] = NoNode
    BY <1>2, <1>marked, MarksChange
  <1>5. /\ ConfigOK' /\ Taken' = Taken /\ node'[n] = nd
        /\ \A m \in Node : m # n => node'[m] = node[m]
    BY <1>1, <1>4, NodeChanges DEF IInv, ConfigOK
  <1>6. \A m \in Node : node'[m].db = node[m].db /\ node'[m].owner = node[m].owner
    BY <1>4, <1>5 DEF old
  <1>7. CliOK'
    <2>1. Taken' /\ "disowned" \notin unsure' => node'[Source] = node[Source]
      BY <1>1, <1>5, MoveAssumption
    <2> QED
      BY <1>1, <1>5, <1>6, <2>1, MoveAssumption DEF IInv, CliOK, Passing, Here, Emptied
  <1>8. ClientOK'
    BY <1>1 DEF IInv, ClientOK
  <1>9. DataOK'
    BY <1>1, <1>6, MoveAssumption DEF IInv, DataOK, Here, There
  <1> QED
    BY <1>5, <1>7, <1>8, <1>9 DEF IInv

-----------------------------------------------------------------------------
(* The cluster bus *)

\* A heartbeat is sent.
LEMMA PingStep ==
    ASSUME IInv, NEW n \in Node, NEW m \in Node, Ping(n, m) PROVE IInv'
  <1>1. n # m /\ net' = clusterSendPing(node[n], "PING", m)
        /\ UNCHANGED <<node, cli, client, version, latest, unsure, stale>>
    BY MoveAssumption DEF Ping
  <1>2. MemberOK(node[n], n, TargetEpoch, Taken)
    BY DEF IInv, ConfigOK
  <1>3. \A p \in net' : PacketOK(p, TargetEpoch, Taken)
    BY <1>1, <1>2, PingOK
  <1>4. ConfigOK'
    BY <1>1, <1>3 DEF IInv, ConfigOK, Taken, TargetEpoch
  <1>5. ClientOK' /\ CliOK' /\ DataOK'
    BY <1>1, CliKept, ClientsKept, DataKept DEF IInv
  <1> QED
    BY <1>4, <1>5 DEF IInv

\* What a packet does to the two sides: the source may lose the slot the target took.
LEMMA ReceiveStep ==
    ASSUME IInv, NEW p \in net, Receive(p) PROVE IInv'
  <1> DEFINE n == p.dst
             r == clusterProcessPacket(node[n], p, FALSE, FALSE)
             x == clusterUpdateState(r.nd)
  <1>1. /\ node' = [node EXCEPT ![n] = x] /\ net' = {q \in r.out : q.type = "UPDATE"}
        /\ UNCHANGED <<cli, client, version, latest, unsure, stale>>
    BY DEF Receive
  <1>2. PacketOK(p, TargetEpoch, Taken) /\ n \in Node
    BY DEF IInv, ConfigOK, PacketOK
  <1>3. MemberOK(node[n], n, TargetEpoch, Taken) /\ EpochsOK(TargetEpoch, Taken)
    BY <1>2 DEF IInv, ConfigOK
  <1>4. Goes(node[n], x, n, TargetEpoch, Taken) /\ UpdatesOK(r.out, TargetEpoch, Taken)
    BY <1>2, <1>3, ReceiveGoes
  <1> HIDE DEF n, r, x
  <1>5. \A q \in net' : PacketOK(q, TargetEpoch, Taken)
    BY <1>1, <1>4 DEF UpdatesOK
  <1>6. MemberOK(x, n, TargetEpoch, Taken) /\ x.imp = node[n].imp /\ x.mig = node[n].mig
    BY <1>4 DEF Goes
  <1>7. n = Target /\ Taken => x.imp[TheSlot] = NoNode
    BY <1>6 DEF IInv, ConfigOK
  <1>8. /\ ConfigOK' /\ Taken' = Taken /\ TargetEpoch' = TargetEpoch /\ node'[n] = x
        /\ \A m \in Node : m # n => node'[m] = node[m]
    BY <1>1, <1>2, <1>5, <1>6, <1>7, NodeChanges DEF IInv
  <1>9. \A m \in Node : /\ node'[m].imp = node[m].imp /\ node'[m].mig = node[m].mig
                        /\ m # Source => node'[m].db = node[m].db
    BY <1>4, <1>6, <1>8 DEF Goes
  <1>10. \/ node'[Source].owner[TheSlot] = node[Source].owner[TheSlot] /\ node'[Source].db = node[Source].db
         \/ /\ Taken /\ node'[Source].owner[TheSlot] = Target
            /\ \A k \in Key : node'[Source].db[k] = IF KeySlot[k] = TheSlot THEN 0 ELSE node[Source].db[k]
    <2>1. CASE n = Source
      BY <1>4, <1>8, <2>1 DEF Goes
    <2>2. CASE n # Source
      BY <1>8, <2>2, MoveAssumption
    <2> QED
      BY <2>1, <2>2
  <1>11. CASE node'[Source].owner[TheSlot] = node[Source].owner[TheSlot] /\ node'[Source].db = node[Source].db
    <2>1. \A m \in Node : node'[m].db = node[m].db
      BY <1>9, <1>11
    <2>2. (Passing' <=> Passing) /\ (Emptied' <=> Emptied)
      BY <1>9, <1>11, MoveAssumption DEF Passing, Emptied, Here
    <2>3. CliOK'
      BY <1>1, <1>8, <1>9, <1>11, <2>2, MoveAssumption DEF IInv, CliOK
    <2>4. ClientOK'
      BY <1>1, <2>1, <2>2, MoveAssumption DEF IInv, ClientOK, Here
    <2>5. DataOK'
      BY <1>1, <2>1, <2>2, MoveAssumption DEF IInv, DataOK, Here, There
    <2> QED
      BY <1>8, <2>3, <2>4, <2>5 DEF IInv
  <1>12. CASE /\ Taken /\ node'[Source].owner[TheSlot] = Target
              /\ \A k \in Key : node'[Source].db[k] = IF KeySlot[k] = TheSlot THEN 0 ELSE node[Source].db[k]
    <2>1. Passing' /\ Emptied'
      BY <1>12, MoveAssumption DEF Passing, Emptied, Here, Mine
    <2>2. \A k \in Key \ Mine : \A m \in Node : node'[m].db[k] = node[m].db[k]
      BY <1>9, <1>12, MoveAssumption DEF Mine
    <2>3. "disowned" \notin unsure => \A k \in Mine : \A m \in Node : node'[m].db[k] = node[m].db[k]
      <3> SUFFICES ASSUME "disowned" \notin unsure, NEW k \in Mine, NEW m \in Node
                   PROVE  node'[m].db[k] = node[m].db[k]
        OBVIOUS
      <3>1. Here(k) = 0
        BY <1>12 DEF IInv, CliOK, Emptied
      <3>2. node'[Source].db[k] = 0
        BY <2>1 DEF Emptied, Here
      <3> QED
        BY <1>9, <3>1, <3>2 DEF Here
    <2>4. \A m \in Node \ {Source} : node'[m].db = node[m].db
      BY <1>9
    <2>5. CliOK'
      BY <1>1, <1>8, <1>9, <1>12, <2>1, MoveAssumption DEF IInv, CliOK
    <2>6. ClientOK'
      <3>1. \A k \in Mine : Here(k)' = 0
        BY <2>1 DEF Emptied
      <3> QED
        BY <1>1, <2>1, <3>1 DEF IInv, ClientOK
    <2>7. DataOK'
      BY <1>1, <2>1, <2>2, <2>3, <2>4, MoveAssumption DEF IInv, DataOK, Here, There
    <2> QED
      BY <1>8, <2>5, <2>6, <2>7 DEF IInv
  <1> QED
    BY <1>10, <1>11, <1>12

-----------------------------------------------------------------------------
(* Commands *)

\* What the answer of getNodeByQuery to a client says.
Serves(nd, keys, asking) ==
    \E s \in Slot :
      /\ \A k \in keys : KeySlot[k] = s
      /\ \/ nd.owner[s] = nd.me /\ (nd.mig[s] # NoNode => \A k \in keys : nd.db[k] # 0)
         \/ /\ nd.imp[s] # NoNode /\ asking
            /\ Cardinality(keys) > 1 => \A k \in keys : nd.db[k] # 0

QueryOK(nd, keys, asking, a) ==
    /\ a.err = "none" => Serves(nd, keys, asking)
    /\ a.err = "ASK" => \E s \in Slot : /\ \A k \in keys : KeySlot[k] = s
                                        /\ nd.owner[s] = nd.me /\ a.to = nd.mig[s] /\ a.to # NoNode
                                        /\ \E k \in keys : nd.db[k] = 0
    /\ a.err = "MOVED" => \E s \in Slot : a.to = nd.owner[s]

\* getNodeByQuery answers so.
LEMMA QueryAnswers ==
    ASSUME NEW nd, NEW keys \in (SUBSET Key) \ {{}}, NEW asking \in BOOLEAN
    PROVE  QueryOK(nd, keys, asking, getNodeByQuery(nd, keys, asking, FALSE))
  <1> DEFINE ch == CHOOSE k \in keys : TRUE
             s == KeySlot[ch]
             n == nd.owner[s]
             migrating == n = nd.me /\ nd.mig[s] # NoNode
             importing == ~migrating /\ nd.imp[s] # NoNode
             missing == \E k \in keys : nd.db[k] = 0
             a == getNodeByQuery(nd, keys, asking, FALSE)
  <1>1. ch \in keys
    <2>1. keys # {}
      BY Zenon
    <2>2. \E k : k \in keys
      BY <2>1, Zenon
    <2> QED
      BY <2>2, Zenon
  <1>2. s \in Slot
    BY <1>1, SlotAssumption
  <1>3. a = (IF n = NoNode THEN Answer("CLUSTERDOWN", NoNode)
             ELSE IF \E k \in keys : KeySlot[k] # s THEN Answer("CROSSSLOT", NoNode)
             ELSE IF ~nd.state THEN Answer("CLUSTERDOWN", NoNode)
             ELSE IF (migrating \/ importing) /\ FALSE THEN Answer("none", nd.me)
             ELSE IF migrating /\ missing THEN Answer("ASK", nd.mig[s])
             ELSE IF importing /\ asking /\ Cardinality(keys) > 1 /\ missing
                  THEN Answer("TRYAGAIN", NoNode)
             ELSE IF importing /\ asking THEN Answer("none", nd.me)
             ELSE Answer(IF n = nd.me THEN "none" ELSE "MOVED", n))
    BY Zenon DEF getNodeByQuery
  <1> HIDE DEF ch, s, a
  <1>4. CASE n = NoNode \/ (\E k \in keys : KeySlot[k] # s) \/ ~nd.state
    <2>1. a.err \in {"CLUSTERDOWN", "CROSSSLOT"}
      BY <1>3, <1>4 DEF Answer
    <2> HIDE DEF n, migrating, importing, missing
    <2> QED
      BY <2>1 DEF a, QueryOK
  <1>5. CASE ~(n = NoNode \/ (\E k \in keys : KeySlot[k] # s) \/ ~nd.state)
    <2>1. \A k \in keys : KeySlot[k] = s
      BY <1>5
    <2>2. CASE migrating /\ missing
      <3>1. a.err = "ASK" /\ a.to = nd.mig[s]
        BY <1>3, <1>5, <2>2 DEF Answer
      <3> QED
        BY <1>2, <2>1, <2>2, <3>1 DEF a, QueryOK
    <2>3. CASE importing /\ asking
      <3>1. \/ a.err = "TRYAGAIN"
            \/ a.err = "none" /\ ~(Cardinality(keys) > 1 /\ missing)
        BY <1>3, <1>5, <2>3 DEF Answer
      <3>2. a.err = "none" => Serves(nd, keys, asking)
        BY <1>2, <2>1, <2>3, <3>1 DEF Serves
      <3> QED
        BY <3>1, <3>2 DEF a, QueryOK
    <2>4. CASE ~(migrating /\ missing) /\ ~(importing /\ asking)
      <3>1. a = Answer(IF n = nd.me THEN "none" ELSE "MOVED", n)
        BY <1>3, <1>5, <2>4
      <3>2. a.err = (IF n = nd.me THEN "none" ELSE "MOVED") /\ a.to = n
        BY <3>1 DEF Answer
      <3>3. a.err = "none" => Serves(nd, keys, asking)
        BY <1>2, <2>1, <2>4, <3>2 DEF Serves
      <3> QED
        BY <1>2, <3>2, <3>3 DEF a, QueryOK
    <2> QED
      BY <2>2, <2>3, <2>4
  <1> QED
    BY <1>4, <1>5

\* Only the owner of another slot serves it.
Elsewhere(n, keys) == \E s \in Slot \ {TheSlot} : n = Home(s) /\ \A k \in keys : KeySlot[k] = s

\* TheSlot is served by the source as long as it owns it, then by the target, and before
\* by the target for clients the source sent there.
LEMMA ServedBy ==
    ASSUME NEW n \in Node, NEW te, NEW taken, NEW nd, MemberOK(nd, n, te, taken), NEW keys \in (SUBSET Key) \ {{}},
           NEW asking \in BOOLEAN, Serves(nd, keys, asking)
    PROVE  \/ Elsewhere(n, keys)
           \/ /\ keys \subseteq Mine /\ n = Source /\ nd.owner[TheSlot] = Source
              /\ nd.mig[TheSlot] # NoNode => \A k \in keys : nd.db[k] # 0
           \/ /\ keys \subseteq Mine /\ n = Target
              /\ \/ nd.owner[TheSlot] = Target
                 \/ asking /\ (Cardinality(keys) > 1 => \A k \in keys : nd.db[k] # 0)
  <1>1. PICK s \in Slot :
          /\ \A k \in keys : KeySlot[k] = s
          /\ \/ nd.owner[s] = nd.me /\ (nd.mig[s] # NoNode => \A k \in keys : nd.db[k] # 0)
             \/ /\ nd.imp[s] # NoNode /\ asking
                /\ Cardinality(keys) > 1 => \A k \in keys : nd.db[k] # 0
    BY DEF Serves
  <1>2. nd.me = n
    BY DEF MemberOK
  <1>3. CASE s # TheSlot
    <2>1. nd.imp[s] = NoNode /\ nd.owner[s] = Home(s)
      BY <1>3 DEF MemberOK
    <2>2. n = Home(s)
      BY <1>1, <1>2, <2>1
    <2>3. Elsewhere(n, keys)
      BY <1>1, <1>3, <2>2 DEF Elsewhere
    <2> QED
      BY <2>3
  <1>4. CASE s = TheSlot
    <2>1. keys \subseteq Mine
      BY <1>1, <1>4 DEF Mine
    <2>2. nd.owner[TheSlot] \in {Source, Target} /\ (n # Target => nd.imp[TheSlot] = NoNode)
      BY DEF MemberOK
    <2> QED
      BY <1>1, <1>2, <1>4, <2>1, <2>2
  <1> QED
    BY <1>3, <1>4

\* A client that is redirected.
LEMMA ClientMoves ==
    ASSUME ClientOK, NEW c \in Client, NEW new, client' = [client EXCEPT ![c] = new],
           UNCHANGED <<node, unsure>>,
           new = Idle \/
             (/\ DOMAIN new = {"op", "keys", "at", "asking"}
              /\ new.op \in {"get", "set", "del"} /\ new.keys \in (SUBSET Key) \ {{}} /\ new.at \in Node
              /\ new.asking \in BOOLEAN
              /\ new.asking => new.at = Target /\ new.keys \subseteq Mine
                    /\ (unsure = {} => Passing /\ \E k \in new.keys : Here(k) = 0))
    PROVE  ClientOK'
  <1>1. DOMAIN client' = Client /\ \A d \in Client : client'[d] = IF d = c THEN new ELSE client[d]
    BY DEF ClientOK
  <1> QED
    BY <1>1 DEF ClientOK, Passing, Here

\* Who serves the keys K, and what the sides hold of them.
Served(n, K) ==
    \/ Elsewhere(n, K)
    \/ /\ K \subseteq Mine /\ n = Source /\ node[Source].owner[TheSlot] = Source
       /\ Passing => \A k \in K : Here(k) # 0
    \/ /\ K \subseteq Mine /\ n = Target
       /\ unsure = {} => Passing /\ \A k \in K : Here(k) = 0

\* Who serves a command: by the answer of getNodeByQuery, what the client was told and what the sides hold.
LEMMA ServedKeys ==
    ASSUME IInv, NEW c \in Client, client[c] # Idle,
           getNodeByQuery(node[client[c].at], client[c].keys, client[c].asking, FALSE).err = "none"
    PROVE  Served(client[c].at, client[c].keys)
  <1> DEFINE n == client[c].at
             K == client[c].keys
             nd == node[n]
             asking == client[c].asking
  <1>1. /\ n \in Node /\ K \in (SUBSET Key) \ {{}} /\ asking \in BOOLEAN
        /\ asking => n = Target /\ K \subseteq Mine
                     /\ (unsure = {} => Passing /\ \E k \in K : Here(k) = 0)
    BY DEF IInv, ClientOK
  <1>2. MemberOK(nd, n, TargetEpoch, Taken)
    BY <1>1 DEF IInv, ConfigOK
  <1>3. getNodeByQuery(nd, K, asking, FALSE).err = "none"
    OBVIOUS
  <1> HIDE DEF nd, n, K, asking
  <1>4. Serves(nd, K, asking)
    BY <1>1, <1>3, QueryAnswers DEF QueryOK
  <1>5. \/ Elsewhere(n, K)
        \/ /\ K \subseteq Mine /\ n = Source /\ nd.owner[TheSlot] = Source
           /\ nd.mig[TheSlot] # NoNode => \A k \in K : nd.db[k] # 0
        \/ /\ K \subseteq Mine /\ n = Target
           /\ \/ nd.owner[TheSlot] = Target
              \/ asking /\ (Cardinality(K) > 1 => \A k \in K : nd.db[k] # 0)
    BY <1>1, <1>2, <1>4, ServedBy
  <1>6. CASE Elsewhere(n, K)
    BY <1>6 DEF Served, n, K
  <1>7. CASE /\ K \subseteq Mine /\ n = Source /\ nd.owner[TheSlot] = Source
             /\ nd.mig[TheSlot] # NoNode => \A k \in K : nd.db[k] # 0
    <2>1. nd = node[Source]
      BY <1>7 DEF nd
    <2>2. Passing => \A k \in K : Here(k) # 0
      BY <1>7, <2>1, MoveAssumption, NodeAssumption DEF Passing, Here, NoNode
    <2>3. Served(n, K)
      BY <1>7, <2>1, <2>2 DEF Served
    <2> QED
      BY <2>3 DEF n, K
  <1>8. CASE /\ K \subseteq Mine /\ n = Target
             /\ \/ nd.owner[TheSlot] = Target
                \/ asking /\ (Cardinality(K) > 1 => \A k \in K : nd.db[k] # 0)
    <2>1. nd = node[Target]
      BY <1>8 DEF nd
    <2>2. ASSUME unsure = {}, nd.owner[TheSlot] = Target
          PROVE  Passing /\ \A k \in K : Here(k) = 0
      <3>1. Taken /\ "disowned" \notin unsure
        BY <2>1, <2>2 DEF Taken
      <3>2. Passing /\ Emptied
        BY <3>1 DEF IInv, CliOK
      <3> QED
        BY <1>8, <3>2 DEF Emptied
    <2>3. ASSUME unsure = {}, asking, Cardinality(K) > 1 => \A k \in K : nd.db[k] # 0
          PROVE  Passing /\ \A k \in K : Here(k) = 0
      <3>1. PICK k0 \in K : Here(k0) = 0
        BY <1>1, <2>3
      <3>2. CASE Cardinality(K) > 1
        <4>1. \A k \in K : There(k) # 0
          BY <2>1, <2>3, <3>2 DEF There
        <4>2. \A k \in Mine : Here(k) = 0 \/ There(k) = 0
          BY <2>3 DEF IInv, DataOK
        <4> QED
          BY <1>1, <1>8, <2>3, <4>1, <4>2
      <3>3. CASE ~(Cardinality(K) > 1)
        <4>1. IsFiniteSet(K)
          BY <1>1, MoveAssumption, FS_Subset
        <4>2. Cardinality(K) \in Nat /\ Cardinality(K) # 0
          BY <1>1, <4>1, FS_CardinalityType, FS_EmptySet
        <4>3. Cardinality(K) = 1
          BY <3>3, <4>2
        <4>4. \E x : K = {x}
          BY <4>1, <4>3, FS_Singleton
        <4>5. K = {k0}
          BY <4>4
        <4> QED
          BY <1>1, <2>3, <3>1, <4>5
      <3> QED
        BY <3>2, <3>3
    <2>4. Served(n, K)
      BY <1>8, <2>2, <2>3 DEF Served
    <2> QED
      BY <2>4 DEF n, K
  <1> QED
    BY <1>5, <1>6, <1>7, <1>8

\* What is read is the latest.
LEMMA ServedIsLatest ==
    ASSUME IInv, unsure = {}, NEW n, NEW K \in SUBSET Key, Served(n, K), NEW k \in K
    PROVE  node[n].db[k] = latest[k]
  <1>1. /\ \A x \in Key \ Mine : \A m \in Node :
             node[m].db[x] = IF m = Home(KeySlot[x]) THEN latest[x] ELSE 0
        /\ \A x \in Mine : latest[x] = IF Here(x) # 0 THEN Here(x) ELSE There(x)
        /\ ~Passing => \A x \in Mine : There(x) = 0
    BY DEF IInv, DataOK
  <1>2. CASE Elsewhere(n, K)
    <2>1. k \in Key \ Mine /\ n = Home(KeySlot[k]) /\ n \in Node
      BY <1>2, InitAssumption DEF Elsewhere, Mine
    <2> QED
      BY <1>1, <2>1
  <1>3. CASE /\ K \subseteq Mine /\ n = Source /\ node[Source].owner[TheSlot] = Source
             /\ Passing => \A x \in K : Here(x) # 0
    BY <1>1, <1>3 DEF Here
  <1>4. CASE /\ K \subseteq Mine /\ n = Target
             /\ unsure = {} => Passing /\ \A x \in K : Here(x) = 0
    BY <1>1, <1>4 DEF Here, There
  <1> QED
    BY <1>2, <1>3, <1>4 DEF Served

\* A command that is redirected or refused.
LEMMA RedirectStep ==
    ASSUME IInv, NEW c \in Client, Execute(c),
           getNodeByQuery(node[client[c].at], client[c].keys, client[c].asking, FALSE).err # "none"
    PROVE  IInv'
  <1> DEFINE old == client[c]
             nd == node[old.at]
             a == getNodeByQuery(nd, old.keys, old.asking, FALSE)
             new == IF a.err \in {"ASK", "MOVED"}
                    THEN [old EXCEPT !.at = a.to, !.asking = a.err = "ASK"] ELSE Idle
  <1>1. /\ UNCHANGED <<node, version, latest, stale, net, cli, unsure>>
        /\ client' = [client EXCEPT ![c] = new] /\ old # Idle
    BY DEF Execute, IInv, ClientOK
  <1>2. /\ old.at \in Node /\ old.keys \in (SUBSET Key) \ {{}} /\ old.asking \in BOOLEAN
        /\ DOMAIN old = {"op", "keys", "at", "asking"} /\ old.op \in {"get", "set", "del"}
    BY <1>1 DEF IInv, ClientOK
  <1>3. MemberOK(nd, old.at, TargetEpoch, Taken) /\ nd.me = old.at
    BY <1>2 DEF IInv, ConfigOK, MemberOK
  <1> HIDE DEF nd
  <1>4. /\ a.err = "ASK" => \E s \in Slot : /\ \A k \in old.keys : KeySlot[k] = s
                                            /\ nd.owner[s] = nd.me /\ a.to = nd.mig[s] /\ a.to # NoNode
                                            /\ \E k \in old.keys : nd.db[k] = 0
        /\ a.err = "MOVED" => \E s \in Slot : a.to = nd.owner[s]
    <2>1. QueryOK(nd, old.keys, old.asking, a)
      BY <1>2, QueryAnswers
    <2> HIDE DEF old, a
    <2> QED
      BY <2>1 DEF QueryOK
  <1> HIDE DEF a, old
  <1>5. CASE a.err = "ASK"
    <2>1. PICK s \in Slot : /\ \A k \in old.keys : KeySlot[k] = s
                            /\ nd.owner[s] = nd.me /\ a.to = nd.mig[s] /\ a.to # NoNode
                            /\ \E k \in old.keys : nd.db[k] = 0
      BY <1>4, <1>5
    <2>2. s = TheSlot /\ old.at = Source /\ a.to = Target
      BY <1>3, <2>1 DEF MemberOK
    <2>3. nd = node[Source]
      BY <2>2 DEF nd
    <2>4. Passing /\ \E k \in old.keys : Here(k) = 0
      BY <2>1, <2>2, <2>3 DEF Passing, Here
    <2>5. old.keys \subseteq Mine
      BY <1>2, <2>1, <2>2 DEF Mine
    <2>6. new = [old EXCEPT !.at = Target, !.asking = TRUE]
      BY <1>5, <2>2
    <2>7. /\ DOMAIN new = {"op", "keys", "at", "asking"} /\ new.op = old.op /\ new.keys = old.keys
          /\ new.at = Target /\ new.asking = TRUE
      BY <1>2, <2>6
    <2> HIDE DEF new
    <2>8. ClientOK'
      BY <1>1, <1>2, <2>4, <2>5, <2>7, MoveAssumption, ClientMoves DEF IInv
    <2> QED
      BY <1>1, <2>8, ConfigKept, CliKept, DataKept DEF IInv
  <1>6. CASE a.err = "MOVED"
    <2>1. a.to \in Node
      BY <1>3, <1>4, <1>6, OwnersAreMasters, <1>2
    <2>2. new = [old EXCEPT !.at = a.to, !.asking = FALSE]
      BY <1>6
    <2>3. /\ DOMAIN new = {"op", "keys", "at", "asking"} /\ new.op = old.op /\ new.keys = old.keys
          /\ new.at = a.to /\ new.asking = FALSE
      BY <1>2, <2>2
    <2> HIDE DEF new
    <2>4. ClientOK'
      BY <1>1, <1>2, <2>1, <2>3, ClientMoves DEF IInv
    <2> QED
      BY <1>1, <2>4, ConfigKept, CliKept, DataKept DEF IInv
  <1>7. CASE a.err \notin {"ASK", "MOVED"}
    <2>1. new = Idle
      BY <1>7
    <2> HIDE DEF new
    <2>2. ClientOK'
      BY <1>1, <2>1, ClientMoves DEF IInv
    <2> QED
      BY <1>1, <2>2, ConfigKept, CliKept, DataKept DEF IInv
  <1> QED
    BY <1>5, <1>6, <1>7

\* GET.
LEMMA ReadStep ==
    ASSUME IInv, NEW c \in Client, Execute(c), client[c].op = "get",
           getNodeByQuery(node[client[c].at], client[c].keys, client[c].asking, FALSE).err = "none"
    PROVE  IInv'
  <1> DEFINE n == client[c].at
             K == client[c].keys
  <1>1. /\ client[c] # Idle /\ client' = [client EXCEPT ![c] = Idle]
        /\ stale' = (stale \/ \E k \in K : node[n].db[k] # latest[k])
        /\ UNCHANGED <<node, version, latest, net, cli, unsure>>
    BY DEF Execute, Serve, IInv, ClientOK
  <1>2. Served(n, K) /\ K \in SUBSET Key
    BY <1>1, ServedKeys DEF IInv, ClientOK
  <1> HIDE DEF n, K
  <1>3. unsure = {} => \A k \in K : node[n].db[k] = latest[k]
    BY <1>2, ServedIsLatest
  <1>4. ConfigOK' /\ CliOK' /\ ClientOK'
    BY <1>1, ConfigKept, CliKept, ClientMoves DEF IInv
  <1>5. unsure' = {} => ~stale'
    BY <1>1, <1>3 DEF IInv, DataOK
  <1>6. DataOK'
    BY <1>1, <1>5 DEF IInv, DataOK, Passing, Here, There
  <1> QED
    BY <1>4, <1>6 DEF IInv

\* SET and DEL: the new value v of the keys K at the node n.
LEMMA ValuesChange ==
    ASSUME NEW nd, NEW n \in Node, NEW te, NEW taken, MemberOK(nd, n, te, taken), NEW d \in [Key -> Nat]
    PROVE  LET x == [nd EXCEPT !.db = d]
           IN /\ MemberOK(x, n, te, taken) /\ x.owner = nd.owner /\ x.db = d /\ x.imp = nd.imp /\ x.mig = nd.mig
  <1> DEFINE x == [nd EXCEPT !.db = d]
  <1>1. NodeOK(nd)
    BY DEF MemberOK
  <1>2. /\ NodeOK(x) /\ x.me = nd.me /\ x.db = d /\ x.owner = nd.owner /\ x.view = nd.view
        /\ x.imp = nd.imp /\ x.mig = nd.mig
    BY <1>1 DEF NodeOK
  <1> HIDE DEF x
  <1>3. MemberOK(x, n, te, taken)
    BY <1>2 DEF MemberOK
  <1> QED
    BY <1>2, <1>3 DEF x

\* A write changes the latest value where it is looked for.
LEMMA WriteStep ==
    ASSUME IInv, NEW c \in Client, Execute(c), client[c].op # "get",
           getNodeByQuery(node[client[c].at], client[c].keys, client[c].asking, FALSE).err = "none"
    PROVE  IInv'
  <1> DEFINE n == client[c].at
             K == client[c].keys
             new == CASE client[c].op = "get" -> 0 [] client[c].op = "del" -> 0
                      [] client[c].op = "set" -> version + 1
             d == [k \in Key |-> IF k \in K THEN new ELSE node[n].db[k]]
             x == [node[n] EXCEPT !.db = d]
  <1>1. client[c] # Idle
    BY DEF Execute
  <1>2. /\ n \in Node /\ K \in (SUBSET Key) \ {{}} /\ client[c].op \in {"set", "del"}
        /\ version \in Nat /\ latest \in [Key -> Nat] /\ DOMAIN node = Node
    BY <1>1 DEF IInv, ClientOK, DataOK, ConfigOK
  <1>3. new \in Nat
    BY <1>2
  <1>4. /\ client' = [client EXCEPT ![c] = Idle]
        /\ version' = version + 1
        /\ latest' = [k \in Key |-> IF k \in K THEN new ELSE latest[k]]
        /\ UNCHANGED <<net, cli, unsure, stale>>
    BY DEF Execute, Serve, IInv, ClientOK
  <1>5. MemberOK(node[n], n, TargetEpoch, Taken) /\ node[n].db \in [Key -> Nat] /\ NodeOK(node[n])
    BY <1>2 DEF IInv, ConfigOK, MemberOK
  <1>6. node' = [node EXCEPT ![n] = x]
    <2>1. node' = [node EXCEPT ![n].db = [k \in Key |-> IF k \in K THEN new ELSE @[k]]]
      BY DEF Execute, Serve
    <2> HIDE DEF new, K, n
    <2> QED
      BY <1>2, <1>5, <2>1 DEF NodeOK
  <1>7. Served(n, K)
    BY <1>1, ServedKeys
  <1> HIDE DEF n, K, new
  <1>8. d \in [Key -> Nat]
    BY <1>3, <1>5
  <1> HIDE DEF d
  <1>9. MemberOK(x, n, TargetEpoch, Taken) /\ x.owner = node[n].owner /\ x.db = d
        /\ x.imp = node[n].imp /\ x.mig = node[n].mig
    BY <1>2, <1>5, <1>8, ValuesChange
  <1> HIDE DEF x
  <1>10. /\ ConfigOK' /\ Taken' = Taken /\ node'[n] = x
         /\ \A m \in Node : m # n => node'[m] = node[m]
    BY <1>2, <1>4, <1>6, <1>9, NodeChanges DEF IInv, ConfigOK
  <1>11. /\ \A m \in Node : /\ node'[m].owner = node[m].owner /\ node'[m].imp = node[m].imp
                            /\ node'[m].mig = node[m].mig /\ (m # n => node'[m].db = node[m].db)
         /\ \A k \in Key : node'[n].db[k] = IF k \in K THEN new ELSE node[n].db[k]
    BY <1>9, <1>10 DEF d
  <1>12. Passing' <=> Passing
    BY <1>11, MoveAssumption DEF Passing
  <1>13. \A k \in Key : latest'[k] = (IF k \in K THEN new ELSE latest[k]) /\ latest' \in [Key -> Nat]
    BY <1>2, <1>3, <1>4
  <1>14. Mine \subseteq Key /\ Source \in Node /\ Target \in Node /\ Source # Target
    BY MoveAssumption DEF Mine
  <1>15. n = Source => \A k \in Mine : /\ There(k)' = There(k)
                                       /\ Here(k)' = IF k \in K THEN new ELSE Here(k)
    BY <1>11, <1>14 DEF Here, There
  <1>16. n # Source => \A k \in Mine : Here(k)' = Here(k)
    BY <1>11, <1>14 DEF Here
  <1>17. n = Target => \A k \in Mine : There(k)' = IF k \in K THEN new ELSE There(k)
    BY <1>11, <1>14 DEF There
  <1>18. n # Target => \A k \in Mine : There(k)' = There(k)
    BY <1>11, <1>14 DEF There
  <1>19. Elsewhere(n, K) => K \cap Mine = {}
    BY <1>2 DEF Elsewhere, Mine
  \* A source that sends clients away writes no key it does not hold.
  <1>20. Passing => \A k \in Mine : Here(k) = 0 => Here(k)' = 0
    <2> SUFFICES ASSUME Passing, NEW k \in Mine, Here(k) = 0 PROVE Here(k)' = 0
      OBVIOUS
    <2>1. CASE n = Source /\ k \in K
      BY <1>7, <1>14, <1>19, <2>1 DEF Served
    <2>2. CASE ~(n = Source /\ k \in K)
      BY <1>15, <1>16, <2>2
    <2> QED
      BY <2>1, <2>2
  <1>21. Passing /\ Emptied => Emptied'
    BY <1>20 DEF Emptied
  <1>22. CliOK'
    <2>1. node[Source].owner[TheSlot] = Target => Passing
      BY <1>14 DEF Passing
    <2> QED
      BY <1>4, <1>10, <1>11, <1>12, <1>14, <1>21, <2>1 DEF IInv, CliOK
  <1>23. ClientOK'
    <2>1. DOMAIN client' = Client /\ \A e \in Client : client'[e] = IF e = c THEN Idle ELSE client[e]
      BY <1>4 DEF IInv, ClientOK
    <2> QED
      BY <1>4, <1>12, <1>20, <2>1 DEF IInv, ClientOK
  <1>24. \A k \in Key \ Mine : \A m \in Node :
            node'[m].db[k] = IF m = Home(KeySlot[k]) THEN latest'[k] ELSE 0
    <2> SUFFICES ASSUME NEW k \in Key \ Mine, NEW m \in Node
                 PROVE  node'[m].db[k] = IF m = Home(KeySlot[k]) THEN latest'[k] ELSE 0
      OBVIOUS
    <2>1. node[m].db[k] = IF m = Home(KeySlot[k]) THEN latest[k] ELSE 0
      BY DEF IInv, DataOK
    <2>2. CASE k \notin K
      BY <1>11, <1>13, <2>1, <2>2
    <2>3. CASE k \in K
      <3>1. n = Home(KeySlot[k])
        BY <1>7, <2>3 DEF Served, Elsewhere
      <3> QED
        BY <1>11, <1>13, <2>1, <2>3, <3>1
    <2> QED
      BY <2>2, <2>3
  <1>25. \A k \in Mine : \A m \in Node \ {Source, Target} : node'[m].db[k] = 0
    <2> SUFFICES ASSUME NEW k \in Mine, NEW m \in Node \ {Source, Target} PROVE node'[m].db[k] = 0
      OBVIOUS
    <2>1. node[m].db[k] = 0
      BY DEF IInv, DataOK
    <2>2. CASE m = n
      <3>1. k \notin K
        BY <1>7, <1>19, <2>2 DEF Served
      <3> QED
        BY <1>11, <1>14, <2>1, <2>2, <3>1
    <2>3. CASE m # n
      BY <1>11, <2>1, <2>3
    <2> QED
      BY <2>2, <2>3
  <1>26. \A k \in Mine : k \in K => n \in {Source, Target}
    BY <1>7, <1>19 DEF Served
  <1>27. "disowned" \notin unsure => \A k \in Mine : latest'[k] \in {0, Here(k)', There(k)'}
    <2> SUFFICES ASSUME "disowned" \notin unsure, NEW k \in Mine PROVE latest'[k] \in {0, Here(k)', There(k)'}
      OBVIOUS
    <2>1. latest[k] \in {0, Here(k), There(k)}
      BY DEF IInv, DataOK
    <2>2. CASE k \in K
      BY <1>13, <1>14, <1>15, <1>17, <1>26, <2>2
    <2>3. CASE k \notin K
      BY <1>13, <1>14, <1>15, <1>16, <1>17, <1>18, <2>1, <2>3
    <2> QED
      BY <2>2, <2>3
  <1>28. ASSUME unsure = {}, NEW k \in Mine
         PROVE  /\ latest'[k] = IF Here(k)' # 0 THEN Here(k)' ELSE There(k)'
                /\ Here(k)' = 0 \/ There(k)' = 0
                /\ ~Passing => There(k)' = 0
    <2>1. /\ latest[k] = IF Here(k) # 0 THEN Here(k) ELSE There(k)
          /\ Here(k) = 0 \/ There(k) = 0
          /\ ~Passing => There(k) = 0
      BY <1>28 DEF IInv, DataOK
    <2>2. CASE k \notin K
      BY <1>13, <1>14, <1>15, <1>16, <1>17, <1>18, <2>1, <2>2
    <2>3. CASE k \in K /\ n = Source
      <3>1. There(k) = 0
        BY <1>7, <1>14, <1>19, <2>1, <2>3 DEF Served
      <3> QED
        BY <1>13, <1>14, <1>15, <2>3, <3>1
    <2>4. CASE k \in K /\ n = Target
      <3>1. Passing /\ Here(k) = 0
        BY <1>7, <1>14, <1>19, <1>28, <2>4 DEF Served
      <3> QED
        BY <1>13, <1>14, <1>16, <1>17, <2>4, <3>1
    <2> QED
      BY <1>26, <2>2, <2>3, <2>4
  <1>29. DataOK'
    <2>1. version' \in Nat /\ (unsure' = {} => ~stale')
      BY <1>2, <1>4 DEF IInv, DataOK
    <2>2. latest' \in [Key -> Nat]
      BY <1>2, <1>3, <1>4
    <2> QED
      BY <1>4, <1>12, <1>24, <1>25, <1>27, <1>28, <2>1, <2>2 DEF DataOK
  <1> QED
    BY <1>10, <1>22, <1>23, <1>29 DEF IInv

\* A command is redirected, refused, read or written.
LEMMA ExecuteStep ==
    ASSUME IInv, NEW c \in Client, Execute(c) PROVE IInv'
  BY RedirectStep, ReadStep, WriteStep

-----------------------------------------------------------------------------
(* MIGRATE *)

\* RESTORE-ASKING stores a key the target does not have, or changes nothing.
LEMMA RestoreStores ==
    ASSUME NEW nd, NEW k, NEW v
    PROVE  \/ restoreCommand(nd, k, v) = nd
           \/ restoreCommand(nd, k, v) = [nd EXCEPT !.db[k] = v] /\ nd.db[k] = 0
  BY DEF restoreCommand

\* A key moves, or is on both sides when the answer is lost.
LEMMA MigrateStep ==
    ASSUME IInv, NEW lost \in BOOLEAN, migrateCommand(lost) PROVE IInv'
  <1> DEFINE Run(k) ==
              LET v == node[Source].db[k]
                  there == restoreCommand(node[Target], k, v)
                  served == getNodeByQuery(node[Source], {k}, FALSE, TRUE).err = "none"
                  stored == there # node[Target]
              IN /\ cli.pc = "migrate"
                 /\ IF ~served \/ v = 0
                    THEN /\ cli' = [cli EXCEPT !.pc = IF served THEN "keys" ELSE "failed"]
                         /\ UNCHANGED <<node, unsure>>
                    ELSE /\ node' = [node EXCEPT ![Target] = there,
                                                 ![Source].db[k] = IF stored /\ ~lost THEN 0 ELSE v]
                         /\ unsure' = unsure \cup {x \in {"lost"} : stored /\ lost}
                         /\ cli' = [cli EXCEPT !.pc = IF stored /\ ~lost THEN "keys" ELSE "failed"]
                 /\ UNCHANGED <<net, client, version, latest, stale>>
  <1>0. PICK k \in cli.keys : Run(k)
    BY Zenon DEF migrateCommand
  <1>1. k \in Mine
    BY <1>0 DEF IInv, CliOK
  <1> DEFINE v == node[Source].db[k]
             there == restoreCommand(node[Target], k, v)
             served == getNodeByQuery(node[Source], {k}, FALSE, TRUE).err = "none"
             stored == there # node[Target]
  <1>3. /\ cli.pc = "migrate"
        /\ IF ~served \/ v = 0
           THEN /\ cli' = [cli EXCEPT !.pc = IF served THEN "keys" ELSE "failed"]
                /\ UNCHANGED <<node, unsure>>
           ELSE /\ node' = [node EXCEPT ![Target] = there,
                                        ![Source].db[k] = IF stored /\ ~lost THEN 0 ELSE v]
                /\ unsure' = unsure \cup {x \in {"lost"} : stored /\ lost}
                /\ cli' = [cli EXCEPT !.pc = IF stored /\ ~lost THEN "keys" ELSE "failed"]
        /\ UNCHANGED <<net, client, version, latest, stale>>
    BY <1>0, Zenon
  <1> HIDE DEF Run
  <1>4. /\ ~Taken /\ Passing /\ Source \in Node /\ Target \in Node /\ Source # Target /\ k \in Key
        /\ DOMAIN node = Node
    BY <1>3, MoveAssumption DEF IInv, CliOK, ConfigOK, Mine
  <1>5. /\ MemberOK(node[Source], Source, TargetEpoch, Taken) /\ MemberOK(node[Target], Target, TargetEpoch, Taken)
    BY <1>4 DEF IInv, ConfigOK
  <1>6. /\ node[Source].db \in [Key -> Nat] /\ node[Target].db \in [Key -> Nat]
        /\ NodeOK(node[Source]) /\ NodeOK(node[Target]) /\ v \in Nat
    BY <1>4, <1>5 DEF MemberOK
  <1> HIDE DEF v
  <1>7. \/ ~stored
        \/ stored /\ there = [node[Target] EXCEPT !.db[k] = v] /\ node[Target].db[k] = 0
    BY RestoreStores
  <1> HIDE DEF there, served, stored
  <1>8. ASSUME UNCHANGED <<node, unsure>>, cli' = [cli EXCEPT !.pc = "keys"] \/ cli' = [cli EXCEPT !.pc = "failed"]
        PROVE  IInv'
    <2>1. CliOK'
      BY <1>3, <1>8 DEF IInv, CliOK, Passing, Here, Taken, Emptied
    <2> QED
      BY <1>3, <1>8, <2>1, ConfigKept, ClientsKept, DataKept DEF IInv
  <1>9. CASE ~served \/ v = 0
    <2>1. UNCHANGED <<node, unsure>> /\ cli' = [cli EXCEPT !.pc = IF served THEN "keys" ELSE "failed"]
      BY <1>3, <1>9
    <2> QED
      BY <1>8, <2>1
  <1>10. CASE ~(~served \/ v = 0) /\ ~stored
    <2>1. there = node[Target]
      BY <1>10 DEF stored
    <2>2. /\ node' = [node EXCEPT ![Target] = there, ![Source].db[k] = v]
          /\ unsure' = unsure /\ cli' = [cli EXCEPT !.pc = "failed"]
      BY <1>3, <1>10
    <2> DEFINE ds == [node[Source].db EXCEPT ![k] = v]
               x == [node[Source] EXCEPT !.db = ds]
    <2>3. ds = node[Source].db
      BY <1>4, <1>6 DEF v
    <2>4. [node[Source] EXCEPT !.db[k] = v] = x
      BY <1>6 DEF NodeOK
    <2> HIDE DEF ds
    <2>5. node' = [node EXCEPT ![Source] = x]
      BY <1>4, <2>1, <2>2, <2>4
    <2>6. /\ MemberOK(x, Source, TargetEpoch, Taken) /\ x.owner = node[Source].owner /\ x.db = node[Source].db
          /\ x.imp = node[Source].imp /\ x.mig = node[Source].mig
      BY <1>4, <1>5, <1>6, <2>3, ValuesChange
    <2> HIDE DEF x
    <2>7. /\ ConfigOK' /\ Taken' = Taken /\ node'[Source] = x
          /\ \A m \in Node : m # Source => node'[m] = node[m]
      BY <1>3, <1>4, <2>5, <2>6, NodeChanges DEF IInv, ConfigOK
    <2>8. \A m \in Node : /\ node'[m].owner = node[m].owner /\ node'[m].imp = node[m].imp
                          /\ node'[m].mig = node[m].mig /\ node'[m].db = node[m].db
      BY <2>6, <2>7
    <2>9. /\ Passing' <=> Passing
          /\ Emptied' <=> Emptied
          /\ \A j : Here(j)' = Here(j) /\ There(j)' = There(j)
      BY <1>4, <2>8 DEF Passing, Emptied, Here, There
    <2>10. CliOK'
      BY <1>3, <1>4, <2>2, <2>7, <2>8, <2>9 DEF IInv, CliOK
    <2>11. ClientOK'
      BY <1>3, <2>2, <2>9 DEF IInv, ClientOK
    <2>12. DataOK'
      <3>1. UNCHANGED <<version, latest, stale, unsure>>
        BY <1>3, <2>2
      <3> QED
        BY <1>4, <2>8, <2>9, <3>1 DEF IInv, DataOK, Here, There
    <2> QED
      BY <2>7, <2>10, <2>11, <2>12 DEF IInv
  <1>11. CASE ~(~served \/ v = 0) /\ stored
    <2> DEFINE w == IF lost THEN v ELSE 0
               ds == [node[Source].db EXCEPT ![k] = w]
               dt == [node[Target].db EXCEPT ![k] = v]
               x == [node[Source] EXCEPT !.db = ds]
               y == [node[Target] EXCEPT !.db = dt]
    <2>1. /\ node' = [node EXCEPT ![Target] = there, ![Source].db[k] = w]
          /\ unsure' = unsure \cup {z \in {"lost"} : lost}
          /\ cli' = [cli EXCEPT !.pc = IF lost THEN "failed" ELSE "keys"]
          /\ there = [node[Target] EXCEPT !.db[k] = v] /\ node[Target].db[k] = 0 /\ v # 0 /\ w \in Nat
      BY <1>3, <1>6, <1>7, <1>11
    <2>2. there = y /\ [node[Source] EXCEPT !.db[k] = w] = x
      BY <1>6, <2>1 DEF NodeOK
    <2>3. ds \in [Key -> Nat] /\ dt \in [Key -> Nat]
      <3> HIDE DEF w
      <3> QED
        BY <1>4, <1>6, <2>1
    <2>4. /\ \A j \in Key : ds[j] = (IF j = k THEN w ELSE node[Source].db[j])
                            /\ dt[j] = (IF j = k THEN v ELSE node[Target].db[j])
      BY <1>4, <1>6
    <2> HIDE DEF w, ds, dt
    <2>5. /\ MemberOK(x, Source, TargetEpoch, Taken) /\ x.owner = node[Source].owner /\ x.db = ds
          /\ x.imp = node[Source].imp /\ x.mig = node[Source].mig
          /\ MemberOK(y, Target, TargetEpoch, Taken) /\ y.owner = node[Target].owner /\ y.db = dt
          /\ y.imp = node[Target].imp /\ y.mig = node[Target].mig
      BY <1>4, <1>5, <2>3, ValuesChange
    <2>6. /\ DOMAIN node' = Node /\ node'[Source] = x /\ node'[Target] = y
          /\ \A m \in Node \ {Source, Target} : node'[m] = node[m]
      BY <1>4, <2>1, <2>2
    <2> HIDE DEF x, y
    <2>7. /\ \A m \in Node : node'[m].owner = node[m].owner /\ node'[m].imp = node[m].imp /\ node'[m].mig = node[m].mig
      BY <1>4, <2>5, <2>6
    <2>8. ~Taken' /\ TargetEpoch' = TargetEpoch /\ Passing'
      <3>1. y.view[Target].ce = TargetEpoch
        BY <2>5 DEF MemberOK
      <3> QED
        BY <1>4, <2>6, <2>7, <3>1 DEF Taken, TargetEpoch, Passing
    <2>9. ConfigOK'
      <3>1. \A m \in Node : MemberOK(node'[m], m, TargetEpoch, Taken)
        BY <1>4, <2>5, <2>6 DEF IInv, ConfigOK
      <3>2. \A p \in net' : PacketOK(p, TargetEpoch, Taken)
        BY <1>3 DEF IInv, ConfigOK
      <3>3. EpochsOK(TargetEpoch, Taken) /\ Taken' = Taken
        BY <1>4, <2>8 DEF IInv, ConfigOK, Taken
      <3> HIDE DEF Taken, TargetEpoch
      <3> QED
        BY <2>6, <2>8, <3>1, <3>2, <3>3 DEF ConfigOK
    <2>10. /\ Here(k) = v /\ There(k) = 0 /\ Here(k)' = w /\ There(k)' = v
           /\ \A j \in Mine : j # k => Here(j)' = Here(j) /\ There(j)' = There(j)
      <3>1. Here(k) = v /\ There(k) = 0
        BY <2>1 DEF Here, There, v
      <3>2. Here(k)' = w /\ There(k)' = v
        BY <1>4, <2>4, <2>5, <2>6 DEF Here, There
      <3>3. \A j \in Mine : j # k => Here(j)' = Here(j) /\ There(j)' = There(j)
        BY <2>4, <2>5, <2>6 DEF Here, There, Mine
      <3> QED
        BY <3>1, <3>2, <3>3
    <2>11. (lost => w = v /\ "lost" \in unsure') /\ (~lost => w = 0 /\ unsure' = unsure)
           /\ unsure \subseteq unsure' /\ ("disowned" \in unsure' => "disowned" \in unsure)
      BY <2>1 DEF w
    <2>12. Source \in cli.tell /\ node[Source].owner[TheSlot] # Target
      <3>1. ~Emptied
        BY <1>1, <2>1, <2>10 DEF Emptied
      <3> QED
        BY <1>3, <3>1 DEF IInv, CliOK
    <2>13. CliOK'
      BY <1>3, <1>4, <2>1, <2>7, <2>8, <2>12 DEF IInv, CliOK
    <2>14. ClientOK'
      <3>1. \A j \in Mine : unsure' = {} /\ Here(j) = 0 => Here(j)' = 0
        BY <2>10, <2>11
      <3> QED
        BY <1>3, <2>8, <2>11, <3>1 DEF IInv, ClientOK
    <2>15. DataOK'
      <3>1. \A j \in Key \ Mine : \A m \in Node : node'[m].db[j] = node[m].db[j]
        BY <1>1, <2>4, <2>5, <2>6
      <3>2. \A j \in Mine : \A m \in Node \ {Source, Target} : node'[m].db[j] = 0
        BY <2>6 DEF IInv, DataOK
      <3>3. "disowned" \notin unsure' => \A j \in Mine : latest[j] \in {0, Here(j)', There(j)'}
        <4> SUFFICES ASSUME "disowned" \notin unsure', NEW j \in Mine PROVE latest[j] \in {0, Here(j)', There(j)'}
          OBVIOUS
        <4>1. latest[j] \in {0, Here(j), There(j)}
          BY <2>11 DEF IInv, DataOK
        <4> QED
          BY <2>10, <4>1
      <3>4. ASSUME unsure' = {}, NEW j \in Mine
            PROVE  /\ latest[j] = IF Here(j)' # 0 THEN Here(j)' ELSE There(j)'
                   /\ Here(j)' = 0 \/ There(j)' = 0
        <4>1. ~lost /\ unsure = {} /\ w = 0
          BY <2>11, <3>4
        <4>2. /\ latest[j] = IF Here(j) # 0 THEN Here(j) ELSE There(j)
              /\ Here(j) = 0 \/ There(j) = 0
          BY <4>1 DEF IInv, DataOK
        <4> QED
          BY <2>1, <2>10, <4>1, <4>2
      <3>5. unsure' = {} => ~stale'
        BY <1>3, <2>11 DEF IInv, DataOK
      <3> QED
        BY <1>3, <2>8, <3>1, <3>2, <3>3, <3>4, <3>5 DEF IInv, DataOK
    <2> QED
      BY <2>9, <2>13, <2>14, <2>15 DEF IInv
  <1> QED
    BY <1>9, <1>10, <1>11

-----------------------------------------------------------------------------
(* SETSLOT NODE *)

\* No configEpoch a node knows is above its currentEpoch.
LEMMA MaxEpochIsCurrent ==
    ASSUME NEW nd, NodeOK(nd) PROVE clusterGetMaxEpoch(nd) = nd.cur
  <1> DEFINE S == {nd.cur} \cup {nd.view[m].ce : m \in Node}
  <1>1. nd.cur \in S /\ (\A y \in S : y \in Nat /\ y <= nd.cur) /\ nd.cur \in Nat
    BY DEF NodeOK, Knowledge
  <1> HIDE DEF S
  <1>2. \A z \in S : (\A y \in S : z >= y) <=> z = nd.cur
    BY <1>1
  <1>3. Max(S) = nd.cur
    BY <1>1, <1>2 DEF Max
  <1> QED
    BY <1>3 DEF clusterGetMaxEpoch, S

\* An epoch above all the node knows, or the one it has already.
NewEpoch(e, nd) == e \in Nat /\ (e > nd.cur \/ (e = nd.cur /\ nd.view[nd.me].ce = nd.cur))

\* A new configEpoch for the node itself.
LEMMA Bumped ==
    ASSUME NEW nd, NodeOK(nd)
    PROVE  LET x == clusterBumpConfigEpochWithoutConsensus(nd)
           IN /\ NodeOK(x) /\ x.me = nd.me /\ x.db = nd.db /\ x.owner = nd.owner /\ x.imp = nd.imp /\ x.mig = nd.mig
              /\ \A m \in Node : x.view[m].slaveof = nd.view[m].slaveof
              /\ \A m \in Node \ {nd.me} : x.view[m].ce = nd.view[m].ce
              /\ NewEpoch(x.view[nd.me].ce, nd)
  <1> DEFINE x == clusterBumpConfigEpochWithoutConsensus(nd)
             k == [nd.view[nd.me] EXCEPT !.ce = nd.cur + 1]
             v == [nd.view EXCEPT ![nd.me] = k]
  <1>1. nd.me \in Node /\ nd.cur \in Nat /\ nd.view \in [Node -> Knowledge] /\ nd.view[nd.me] \in Knowledge
        /\ nd.view[nd.me].ce \in Nat
    BY DEF NodeOK, Knowledge
  <1>2. CASE nd.view[nd.me].ce = 0 \/ nd.view[nd.me].ce # nd.cur
    <2>1. x = [nd EXCEPT !.cur = nd.cur + 1, !.view = v]
      BY <1>1, <1>2, MaxEpochIsCurrent DEF clusterBumpConfigEpochWithoutConsensus, NodeOK
    <2>2. k \in Knowledge /\ k.ce = nd.cur + 1 /\ k.slaveof = nd.view[nd.me].slaveof
      BY <1>1 DEF Knowledge
    <2> HIDE DEF k
    <2>3. /\ v \in [Node -> Knowledge] /\ v[nd.me] = k
          /\ \A m \in Node : m # nd.me => v[m] = nd.view[m]
      BY <1>1, <2>2
    <2>4. \A m \in Node : v[m].ce \in Nat /\ v[m].ce <= nd.cur + 1 /\ v[m].slaveof = nd.view[m].slaveof
      <3>1. \A m \in Node : nd.view[m].ce \in Nat /\ nd.view[m].ce <= nd.cur
        BY DEF NodeOK, Knowledge
      <3> QED
        BY <1>1, <2>2, <2>3, <3>1
    <2> HIDE DEF v
    <2>5. /\ x.cur = nd.cur + 1 /\ x.view = v /\ x.me = nd.me /\ x.db = nd.db /\ x.owner = nd.owner
          /\ x.imp = nd.imp /\ x.mig = nd.mig /\ x.vote = nd.vote /\ x.auth = nd.auth /\ DOMAIN x = DOMAIN nd
      BY <2>1 DEF NodeOK
    <2> HIDE DEF x
    <2>6. NodeOK(x)
      BY <1>1, <2>3, <2>4, <2>5 DEF NodeOK
    <2> QED
      BY <1>1, <2>2, <2>3, <2>4, <2>5, <2>6 DEF x, NewEpoch
  <1>3. CASE ~(nd.view[nd.me].ce = 0 \/ nd.view[nd.me].ce # nd.cur)
    <2>1. x = nd
      BY <1>3, MaxEpochIsCurrent DEF clusterBumpConfigEpochWithoutConsensus
    <2> HIDE DEF x
    <2> QED
      BY <1>1, <1>3, <2>1 DEF x, NewEpoch
  <1> QED
    BY <1>2, <1>3

\* The slot is closed and bound to the target, which has a new epoch when it imported it.
Closed(nd, x, n) ==
    /\ NodeOK(x) /\ x.me = n /\ x.db = nd.db
    /\ x.imp \in [Slot -> Node \cup {NoNode}] /\ x.mig \in [Slot -> Node \cup {NoNode}]
    /\ \A s \in Slot \ {TheSlot} : x.owner[s] = nd.owner[s] /\ x.imp[s] = nd.imp[s] /\ x.mig[s] = nd.mig[s]
    /\ x.owner[TheSlot] = Target /\ x.imp[TheSlot] = NoNode /\ x.mig[TheSlot] = NoNode
    /\ \A m \in Node : x.view[m].slaveof = nd.view[m].slaveof
    /\ \A m \in Node : ~(n = Target /\ nd.imp[TheSlot] # NoNode /\ m = n) => x.view[m].ce = nd.view[m].ce
    /\ n = Target /\ nd.imp[TheSlot] # NoNode => NewEpoch(x.view[n].ce, nd)

\* The record after SETSLOT NODE at a master without keys of the slot, or without the slot.
LEMMA SlotSet ==
    ASSUME NEW nd, NEW n \in Node, NEW te, NEW taken, MemberOK(nd, n, te, taken), Master(n),
           n = Source => \A k \in Mine : nd.db[k] = 0
    PROVE  ~SetSlotKeysLeft(nd, TheSlot, Target) /\ Closed(nd, SetSlotNode(nd, TheSlot, Target), n)
  <1> DEFINE shut == IF CountKeysInSlot(nd, TheSlot) = 0 THEN [nd EXCEPT !.mig[TheSlot] = NoNode] ELSE nd
             bump == n = Target /\ nd.imp[TheSlot] # NoNode
             new == clusterBumpConfigEpochWithoutConsensus(shut)
             tkn == IF bump THEN [new EXCEPT !.imp[TheSlot] = NoNode] ELSE shut
             x == SetSlotNode(nd, TheSlot, Target)
  <1>1. /\ NodeOK(nd) /\ nd.me = n /\ ~IsSlave(nd, nd.me) /\ nd.owner[TheSlot] \in {Source, Target}
        /\ nd.imp \in [Slot -> Node \cup {NoNode}] /\ nd.mig \in [Slot -> Node \cup {NoNode}]
        /\ n # Target => nd.imp[TheSlot] = NoNode
        /\ n # Source => nd.mig[TheSlot] = NoNode
    BY DEF MemberOK, IsSlave, IsMaster, Master
  <1>2. n = Source => CountKeysInSlot(nd, TheSlot) = 0
    BY NoKeys DEF Mine
  <1>3. ~SetSlotKeysLeft(nd, TheSlot, Target)
    BY <1>1, <1>2, MoveAssumption DEF SetSlotKeysLeft
  <1>4. x = clusterAddSlot(clusterDelSlot(tkn, TheSlot), Target, TheSlot)
    <2>1. (Target = nd.me /\ nd.imp[TheSlot] # NoNode) <=> bump
      BY <1>1
    <2> QED
      BY <1>1, <1>3, <2>1 DEF SetSlotNode
  <1>5. /\ NodeOK(shut) /\ shut.me = n /\ shut.db = nd.db /\ shut.owner = nd.owner /\ shut.view = nd.view
        /\ shut.cur = nd.cur /\ shut.imp = nd.imp
        /\ shut.mig \in [Slot -> Node \cup {NoNode}] /\ shut.mig[TheSlot] = NoNode
        /\ \A s \in Slot \ {TheSlot} : shut.mig[s] = nd.mig[s]
    <2>1. CASE CountKeysInSlot(nd, TheSlot) = 0
      <3> DEFINE y == [nd EXCEPT !.mig[TheSlot] = NoNode]
      <3>1. shut = y
        BY <2>1
      <3>2. /\ NodeOK(y) /\ y.me = n /\ y.db = nd.db /\ y.owner = nd.owner /\ y.view = nd.view
            /\ y.cur = nd.cur /\ y.imp = nd.imp
            /\ y.mig = [nd.mig EXCEPT ![TheSlot] = NoNode]
        BY <1>1 DEF NodeOK
      <3> HIDE DEF y, shut
      <3> QED
        BY <1>1, <3>1, <3>2, MoveAssumption
    <2>2. CASE CountKeysInSlot(nd, TheSlot) # 0
      <3>1. shut = nd /\ n # Source
        BY <1>2, <2>2
      <3> HIDE DEF shut
      <3> QED
        BY <1>1, <3>1
    <2> QED
      BY <2>1, <2>2
  <1> HIDE DEF shut
  <1>6. /\ NodeOK(tkn) /\ tkn.me = n /\ tkn.db = nd.db /\ tkn.owner = nd.owner /\ tkn.mig = shut.mig
        /\ tkn.imp \in [Slot -> Node \cup {NoNode}] /\ tkn.imp[TheSlot] = NoNode
        /\ \A s \in Slot \ {TheSlot} : tkn.imp[s] = nd.imp[s]
        /\ \A m \in Node : tkn.view[m].slaveof = nd.view[m].slaveof
        /\ \A m \in Node : ~(bump /\ m = n) => tkn.view[m].ce = nd.view[m].ce
        /\ bump => NewEpoch(tkn.view[n].ce, nd)
    <2>1. CASE bump
      <3> DEFINE y == [new EXCEPT !.imp[TheSlot] = NoNode]
      <3>1. tkn = y
        BY <2>1
      <3>2. /\ NodeOK(new) /\ new.me = n /\ new.db = nd.db /\ new.owner = nd.owner /\ new.imp = nd.imp
            /\ new.mig = shut.mig
            /\ \A m \in Node : new.view[m].slaveof = nd.view[m].slaveof
            /\ \A m \in Node \ {n} : new.view[m].ce = nd.view[m].ce
            /\ NewEpoch(new.view[n].ce, nd)
        BY <1>1, <1>5, Bumped DEF NewEpoch
      <3> HIDE DEF new
      <3>3. /\ NodeOK(y) /\ y.me = n /\ y.db = nd.db /\ y.owner = nd.owner /\ y.view = new.view
            /\ y.mig = shut.mig
            /\ y.imp = [nd.imp EXCEPT ![TheSlot] = NoNode]
        BY <3>2 DEF NodeOK
      <3> HIDE DEF y, tkn
      <3> QED
        BY <1>1, <2>1, <3>1, <3>2, <3>3, MoveAssumption
    <2>2. CASE ~bump
      <3>1. tkn = shut
        BY <2>2
      <3>2. nd.imp[TheSlot] = NoNode
        BY <1>1, <2>2
      <3> HIDE DEF tkn
      <3> QED
        BY <1>1, <1>5, <2>2, <3>1, <3>2
    <2> QED
      BY <2>1, <2>2
  <1> HIDE DEF tkn, bump
  <1>7. /\ NodeOK(x) /\ x.me = n /\ x.db = nd.db /\ x.mig = tkn.mig /\ x.imp = tkn.imp /\ x.view = tkn.view
        /\ x.owner[TheSlot] = Target /\ \A s \in Slot \ {TheSlot} : x.owner[s] = nd.owner[s]
    <2> DEFINE f == [tkn.owner EXCEPT ![TheSlot] = NoNode]
               del == [tkn EXCEPT !.owner = f]
               g == [f EXCEPT ![TheSlot] = Target]
               add == [del EXCEPT !.owner = g]
    <2>1. tkn.owner \in [Slot -> Node \cup {NoNode}] /\ tkn.owner[TheSlot] # NoNode
      BY <1>1, <1>6, MoveAssumption, NodeAssumption DEF NodeOK, NoNode
    <2>2. clusterDelSlot(tkn, TheSlot) = del
      BY <1>6, <2>1 DEF clusterDelSlot, NodeOK
    <2>3. f[TheSlot] = NoNode /\ g \in [Slot -> Node \cup {NoNode}] /\ g[TheSlot] = Target
          /\ \A s \in Slot \ {TheSlot} : g[s] = tkn.owner[s]
      BY <2>1, MoveAssumption
    <2> HIDE DEF f
    <2>4. del.owner = f /\ DOMAIN del = DOMAIN tkn
      BY <1>6 DEF NodeOK
    <2>5. clusterAddSlot(del, Target, TheSlot) = [del EXCEPT !.owner[TheSlot] = Target]
      BY <2>3, <2>4 DEF clusterAddSlot
    <2>6. [del EXCEPT !.owner[TheSlot] = Target] = add
      <3> HIDE DEF del
      <3> QED
        BY <1>6, <2>4 DEF NodeOK
    <2> HIDE DEF g
    <2>7. /\ NodeOK(add) /\ add.me = tkn.me /\ add.db = tkn.db /\ add.mig = tkn.mig /\ add.imp = tkn.imp
          /\ add.view = tkn.view /\ add.owner = g
      BY <1>6, <2>3 DEF NodeOK
    <2> HIDE DEF add, del
    <2>8. x = add
      BY <1>4, <2>2, <2>5, <2>6
    <2> HIDE DEF x
    <2> QED
      BY <1>6, <2>3, <2>7, <2>8
  <1> HIDE DEF x
  <1> QED
    BY <1>3, <1>5, <1>6, <1>7 DEF x, bump, Closed

\* The target takes the slot with an epoch above those of the other masters.
LEMMA TakingOK ==
    ASSUME ConfigOK, ~Taken, NEW te, NewEpoch(te, node[Target])
    PROVE  /\ EpochsOK(te, TRUE)
           /\ \A n \in Node \ {Target} : MemberOK(node[n], n, te, TRUE)
           /\ \A p \in net : PacketOK(p, te, TRUE)
           /\ TargetEpoch = Epoch(Target)
  <1> DEFINE nd == node[Target]
  <1>1. /\ MemberOK(nd, Target, TargetEpoch, Taken) /\ EpochsOK(TargetEpoch, Taken)
        /\ \A n \in Node : MemberOK(node[n], n, TargetEpoch, Taken)
        /\ \A p \in net : PacketOK(p, TargetEpoch, Taken)
    BY MoveAssumption DEF ConfigOK
  <1>2. TargetEpoch = Epoch(Target)
    BY <1>1 DEF EpochsOK
  <1> HIDE DEF nd
  <1>3. /\ nd.cur \in Nat /\ nd.me = Target /\ \A m \in Node : nd.view[m].ce \in Nat /\ nd.view[m].ce <= nd.cur
        /\ \A m \in Node \ {Target} : Master(m) => nd.view[m].ce = Epoch(m)
        /\ nd.view[Target].ce = Epoch(Target)
    BY <1>1, <1>2 DEF MemberOK, NodeOK, Knowledge, EpochOf
  <1>4. te \in Nat /\ (te > nd.cur \/ (te = nd.cur /\ nd.view[Target].ce = nd.cur))
    BY <1>3 DEF NewEpoch, nd
  <1>5. te >= Epoch(Target)
    BY <1>3, <1>4, MoveAssumption
  <1>6. \A m \in Node \ {Target} : Master(m) => Epoch(m) < te
    <2> SUFFICES ASSUME NEW m \in Node \ {Target}, Master(m) PROVE Epoch(m) < te
      OBVIOUS
    <2>1. Epoch(m) \in Nat /\ Epoch(m) <= nd.cur /\ Epoch(m) # Epoch(Target)
      BY <1>3, MoveAssumption, InitAssumption DEF Master
    <2> QED
      BY <1>3, <1>4, <2>1
  <1>7. EpochsOK(te, TRUE)
    BY <1>4, <1>5, <1>6 DEF EpochsOK
  <1>8. \A m \in Node : \A e : EpochOf(m, e, TargetEpoch) => EpochOf(m, e, te)
    BY <1>2 DEF EpochOf
  <1>9. ASSUME NEW n \in Node \ {Target} PROVE MemberOK(node[n], n, te, TRUE)
    <2>1. MemberOK(node[n], n, TargetEpoch, Taken)
      BY <1>1
    <2> QED
      BY <1>8, <2>1 DEF MemberOK
  <1>10. ASSUME NEW p \in net PROVE PacketOK(p, te, TRUE)
    <2>1. PacketOK(p, TargetEpoch, Taken)
      BY <1>1
    <2> QED
      BY <1>8, <2>1 DEF PacketOK
  <1> QED
    BY <1>2, <1>7, <1>9, <1>10

\* A master that is not the target is told of the new owner, or the target once more.
LEMMA Told ==
    ASSUME NEW nd, NEW n \in Node, NEW te, NEW taken, MemberOK(nd, n, te, taken), Master(n),
           n = Source => \A k \in Mine : nd.db[k] = 0,
           n = Target => taken /\ nd.imp[TheSlot] = NoNode
    PROVE  MemberOK(SetSlotNode(nd, TheSlot, Target), n, te, taken)
  <1> DEFINE x == SetSlotNode(nd, TheSlot, Target)
  <1>1. Closed(nd, x, n)
    BY SlotSet
  <1> HIDE DEF x
  <1>2. MemberOK(x, n, te, taken)
    BY <1>1, MoveAssumption DEF MemberOK, Closed
  <1> QED
    BY <1>2 DEF x

\* What SETSLOT NODE leaves of the sides.
LEMMA SetNodeStep ==
    ASSUME IInv, NEW n \in Node, SetNode(n) PROVE IInv'
  <1> DEFINE nd == node[n]
             x == SetSlotNode(nd, TheSlot, Target)
             y == clusterUpdateState(x)
             rest == cli.tell \ {n}
             left == SetSlotKeysLeft(nd, TheSlot, Target)
  <1>1. /\ cli.pc = "setnode" /\ n \in cli.tell /\ node' = [node EXCEPT ![n] = y]
        /\ cli' = [cli EXCEPT !.tell = rest, !.pc = IF left THEN "failed" ELSE IF rest = {} THEN "done" ELSE "setnode"]
        /\ UNCHANGED <<net, client, version, latest, unsure, stale>>
    BY DEF SetNode
  <1>2. /\ Master(n) /\ Passing /\ Emptied /\ (Taken \/ node[Target].imp[TheSlot] = Source)
        /\ Taken => node[Target].imp[TheSlot] = NoNode
    BY <1>1 DEF IInv, CliOK, ConfigOK
  <1>3. /\ MemberOK(nd, n, TargetEpoch, Taken) /\ nd.me = n /\ DOMAIN node = Node
        /\ Source \in Node /\ Target \in Node /\ Source # Target
    BY MoveAssumption DEF IInv, ConfigOK, MemberOK
  <1>4. n = Source => \A k \in Mine : nd.db[k] = 0
    BY <1>2 DEF Emptied, Here
  <1> HIDE DEF nd
  <1>closed. ~left /\ Closed(nd, x, n)
    BY <1>2, <1>3, <1>4, SlotSet
  <1>5. /\ ~left /\ NodeOK(x) /\ x.me = n /\ x.db = nd.db
        /\ x.imp \in [Slot -> Node \cup {NoNode}] /\ x.mig \in [Slot -> Node \cup {NoNode}]
        /\ \A s \in Slot \ {TheSlot} : x.owner[s] = nd.owner[s] /\ x.imp[s] = nd.imp[s] /\ x.mig[s] = nd.mig[s]
        /\ x.owner[TheSlot] = Target /\ x.imp[TheSlot] = NoNode /\ x.mig[TheSlot] = NoNode
        /\ \A m \in Node : x.view[m].slaveof = nd.view[m].slaveof
        /\ \A m \in Node : ~(n = Target /\ nd.imp[TheSlot] # NoNode /\ m = n) => x.view[m].ce = nd.view[m].ce
        /\ n = Target /\ nd.imp[TheSlot] # NoNode => NewEpoch(x.view[n].ce, nd)
    <2> HIDE DEF x, left
    <2> QED
      BY <1>closed DEF Closed
  <1>6. Steady(x, y)
    BY <1>5, StateSteady
  <1>7. /\ y.db = nd.db /\ y.owner[TheSlot] = Target /\ y.imp[TheSlot] = NoNode /\ y.mig[TheSlot] = NoNode
        /\ y.view[Target].ce = x.view[Target].ce
    <2> HIDE DEF x, y
    <2> QED
      BY <1>3, <1>5, <1>6 DEF Steady
  <1>8. /\ DOMAIN node' = Node /\ node'[n] = y /\ \A m \in Node \ {n} : node'[m] = node[m]
    BY <1>1, <1>3
  <1>9. ConfigOK' /\ (n # Target => Taken' = Taken) /\ (n = Target => Taken')
    <2>1. CASE n # Target \/ Taken
      <3>1. MemberOK(x, n, TargetEpoch, Taken)
        <4>1. n = Target => Taken /\ nd.imp[TheSlot] = NoNode
          BY <1>2, <2>1 DEF nd
        <4> QED
          BY <1>2, <1>3, <1>4, <4>1, Told
      <3>2. MemberOK(y, n, TargetEpoch, Taken)
        <4> HIDE DEF x, y
        <4>1. Goes(x, y, n, TargetEpoch, Taken)
          BY <1>6, <3>1, SteadyGoes
        <4> QED
          BY <4>1 DEF Goes
      <3> HIDE DEF x, y
      <3>3. ConfigOK' /\ Taken' = Taken
        BY <1>1, <1>7, <3>2, NodeChanges DEF IInv, ConfigOK
      <3> QED
        BY <2>1, <3>3
    <2>2. CASE n = Target /\ ~Taken
      <3> DEFINE te == x.view[Target].ce
      <3>1. nd = node[Target] /\ nd.imp[TheSlot] # NoNode
        BY <1>2, <1>3, <2>2, NodeAssumption DEF nd, NoNode
      <3>2. NewEpoch(te, node[Target])
        BY <1>5, <2>2, <3>1
      <3>3. /\ EpochsOK(te, TRUE)
            /\ \A m \in Node \ {Target} : MemberOK(node[m], m, te, TRUE)
            /\ \A p \in net : PacketOK(p, te, TRUE)
            /\ TargetEpoch = Epoch(Target)
        <4> HIDE DEF te
        <4> QED
          BY <2>2, <3>2, TakingOK DEF IInv
      <3> HIDE DEF x, y
      <3>4. MemberOK(x, Target, te, TRUE)
        <4>1. \A m \in Node : Master(m) => EpochOf(m, x.view[m].ce, te)
          <5> SUFFICES ASSUME NEW m \in Node, Master(m) PROVE EpochOf(m, x.view[m].ce, te)
            OBVIOUS
          <5>1. CASE m = Target
            BY <5>1 DEF EpochOf
          <5>2. CASE m # Target
            BY <1>3, <1>5, <2>2, <5>2 DEF EpochOf, MemberOK
          <5> QED
            BY <5>1, <5>2
        <4>2. \A m \in Node : x.view[m].slaveof = Role(m)
          BY <1>3, <1>5 DEF MemberOK
        <4>3. \A s \in Slot \ {TheSlot} : x.owner[s] = Home(s) /\ x.imp[s] = NoNode /\ x.mig[s] = NoNode
          BY <1>3, <1>5 DEF MemberOK
        <4>4. x.db \in [Key -> Nat]
          BY <1>3, <1>5 DEF MemberOK
        <4> HIDE DEF te
        <4> QED
          BY <1>2, <1>5, <2>2, <4>1, <4>2, <4>3, <4>4 DEF MemberOK, te
      <3>5. MemberOK(y, Target, te, TRUE)
        <4>1. Goes(x, y, Target, te, TRUE)
          BY <1>3, <1>6, <3>4, SteadyGoes
        <4> QED
          BY <4>1 DEF Goes
      <3>6. Taken' /\ TargetEpoch' = te
        BY <1>7, <1>8, <2>2 DEF Taken, TargetEpoch
      <3>7. \A m \in Node : MemberOK(node'[m], m, te, TRUE)
        BY <1>8, <2>2, <3>3, <3>5
      <3>8. Taken' = TRUE
        BY <3>6 DEF Taken
      <3> HIDE DEF te
      <3>9. ConfigOK'
        BY <1>1, <1>7, <1>8, <2>2, <3>3, <3>6, <3>7, <3>8 DEF ConfigOK
      <3> QED
        BY <2>2, <3>6, <3>9
    <2> QED
      BY <2>1, <2>2
  <1> HIDE DEF x, y, left
  <1>10. \A m \in Node : node'[m].db = node[m].db
    BY <1>7, <1>8 DEF nd
  <1>11. Passing' /\ Emptied'
    <2>1. Emptied'
      BY <1>2, <1>3, <1>10 DEF Emptied, Here
    <2>2. CASE n = Source
      BY <1>3, <1>7, <1>8, <2>1, <2>2 DEF Passing
    <2>3. CASE n # Source
      BY <1>2, <1>3, <1>8, <2>1, <2>3 DEF Passing
    <2> QED
      BY <2>2, <2>3
  <1>12. CliOK'
    <2>1. /\ DOMAIN cli' = {"pc", "keys", "tell"} /\ cli'.tell = rest /\ cli'.pc = IF rest = {} THEN "done" ELSE "setnode"
      BY <1>1, <1>5 DEF IInv, CliOK
    <2>2. \A m \in cli'.tell : m \in Node /\ Master(m)
      BY <2>1 DEF IInv, CliOK
    <2>3. Target \notin rest => Taken'
      BY <1>9 DEF IInv, CliOK
    <2>4. Source \notin rest => node'[Source].owner[TheSlot] = Target /\ node'[Source].mig[TheSlot] = NoNode
      <3>1. CASE n = Source
        BY <1>7, <1>8, <3>1
      <3>2. CASE n # Source
        BY <1>1, <1>3, <1>8, <3>2 DEF IInv, CliOK
      <3> QED
        BY <3>1, <3>2
    <2>5. Taken' \/ node'[Target].imp[TheSlot] = Source
      BY <1>2, <1>3, <1>8, <1>9
    <2> HIDE DEF rest
    <2> QED
      BY <1>11, <2>1, <2>2, <2>3, <2>4, <2>5 DEF CliOK
  <1>13. ClientOK'
    BY <1>1, <1>3, <1>10, <1>11 DEF IInv, ClientOK, Here
  <1>14. DataOK'
    BY <1>1, <1>3, <1>10, <1>11 DEF IInv, DataOK, Here, There
  <1> QED
    BY <1>9, <1>12, <1>13, <1>14 DEF IInv

-----------------------------------------------------------------------------
(* The specification *)

\* The cluster redis-cli found.
LEMMA InitStep == Init => IInv
  <1> SUFFICES ASSUME Init PROVE IInv
    OBVIOUS
  <1>1. /\ node = InitCluster /\ net = {} /\ client = [c \in Client |-> Idle] /\ version = 1
        /\ cli = [pc |-> "importing", keys |-> {}, tell |-> {m \in Node : IsMaster(node[m], m)}]
        /\ latest = [k \in Key |-> node[Home(KeySlot[k])].db[k]]
        /\ unsure = {} /\ stale = FALSE
    BY DEF Init
  <1>2. /\ Source \in Node /\ Target \in Node /\ Source # Target /\ TheSlot \in Slot /\ Home(TheSlot) = Source
        /\ Role(Source) = NoNode /\ Role(Target) = NoNode
    BY MoveAssumption
  <1>3. \A n \in Node :
          /\ NodeOK(node[n]) /\ node[n].me = n
          /\ node[n].db \in [Key -> Nat]
          /\ node[n].imp = [s \in Slot |-> NoNode] /\ node[n].mig = [s \in Slot |-> NoNode]
          /\ \A s \in Slot : node[n].owner[s] = Home(s)
          /\ \A m \in Node : /\ node[n].view[m].slaveof = Role(m)
                             /\ Role(m) = NoNode => node[n].view[m].ce = Epoch(m)
          /\ \A k \in Key : node[n].db[k] # 0 => n = Home(KeySlot[k])
    BY <1>1, InitAssumption
  <1>4. DOMAIN node = Node /\ \A s \in Slot : Home(s) \in Node
    BY <1>1, InitAssumption
  <1>5. ~Taken /\ TargetEpoch = Epoch(Target) /\ TargetEpoch \in Nat
    BY <1>2, <1>3 DEF Taken, TargetEpoch, NodeOK, Knowledge
  <1>6. ConfigOK
    <2>1. EpochsOK(TargetEpoch, Taken)
      BY <1>5 DEF EpochsOK, Taken
    <2>2. ASSUME NEW n \in Node PROVE MemberOK(node[n], n, TargetEpoch, Taken)
      <3>1. \A s \in Slot : node[n].imp[s] = NoNode /\ node[n].mig[s] = NoNode
        BY <1>3
      <3>2. node[n].imp \in [Slot -> Node \cup {NoNode}] /\ node[n].mig \in [Slot -> Node \cup {NoNode}]
        BY <1>3
      <3>3. node[n].owner[TheSlot] = Source
        BY <1>2, <1>3
      <3>4. \A m \in Node : Master(m) => EpochOf(m, node[n].view[m].ce, TargetEpoch)
        BY <1>3, <1>5 DEF Master, EpochOf
      <3>5. n = Target => node[n].view[Target].ce = TargetEpoch /\ (Taken <=> node[n].owner[TheSlot] = Target)
        BY <1>2, <1>3, <1>5, <3>3
      <3> QED
        BY <1>2, <1>3, <3>1, <3>2, <3>3, <3>4, <3>5 DEF MemberOK
    <2> QED
      BY <1>1, <1>4, <1>5, <2>1, <2>2 DEF ConfigOK
  <1>7. node[Source].owner[TheSlot] = Source
    BY <1>2, <1>3
  <1>8. CliOK
    <2>1. /\ DOMAIN cli = {"pc", "keys", "tell"} /\ cli.pc = "importing"
          /\ cli.tell = {m \in Node : IsMaster(node[m], m)}
      BY <1>1
    <2>2. \A m \in Node : m \in cli.tell <=> Master(m)
      BY <1>3, <2>1 DEF IsMaster, Master
    <2>3. \A m \in cli.tell : m \in Node
      BY <2>1
    <2> QED
      BY <1>2, <1>5, <1>7, <2>1, <2>2, <2>3 DEF CliOK, Master
  <1>9. ClientOK
    BY <1>1 DEF ClientOK
  <1>10. DataOK
    <2>1. version \in Nat /\ unsure = {} /\ ~stale
      BY <1>1
    <2>2. \A k \in Key : Home(KeySlot[k]) \in Node /\ KeySlot[k] \in Slot
      BY <1>4, SlotAssumption
    <2>3. latest \in [Key -> Nat] /\ \A k \in Key : latest[k] = node[Home(KeySlot[k])].db[k]
      BY <1>1, <1>3, <2>2
    <2>4. \A k \in Key : \A n \in Node : node[n].db[k] = IF n = Home(KeySlot[k]) THEN latest[k] ELSE 0
      BY <1>3, <2>2, <2>3
    <2>5. \A k \in Mine : k \in Key /\ Home(KeySlot[k]) = Source
      BY <1>2 DEF Mine
    <2>6. \A k \in Mine : Here(k) = latest[k] /\ There(k) = 0
      BY <1>2, <2>4, <2>5 DEF Here, There
    <2>7. \A k \in Mine : \A n \in Node \ {Source, Target} : node[n].db[k] = 0
      BY <2>4, <2>5
    <2> QED
      BY <2>1, <2>3, <2>4, <2>6, <2>7 DEF DataOK
  <1> QED
    BY <1>6, <1>8, <1>9, <1>10 DEF IInv

\* Every step keeps the invariant.
LEMMA NextStep == IInv /\ [Next]_vars => IInv'
  <1> SUFFICES ASSUME IInv, [Next]_vars PROVE IInv'
    OBVIOUS
  <1>1. CASE UNCHANGED vars
    BY <1>1, Stutter
  <1>2. CASE Next
    <2>1. CASE \E c \in Client, op \in {"get", "set", "del"}, keys \in (SUBSET Key) \ {{}}, n \in Node :
                  SendCommand(c, op, keys, n)
      BY <2>1, SendStep
    <2>2. CASE \E c \in Client : Execute(c)
      BY <2>2, ExecuteStep
    <2>3. CASE GiveUp \/ OpenTarget \/ OpenSource \/ GetKeysInSlot
      BY <2>3, GiveUpStep, OpenTargetStep, OpenSourceStep, GetKeysStep
    <2>4. CASE \E lost \in BOOLEAN : migrateCommand(lost)
      BY <2>4, MigrateStep
    <2>5. CASE \E n \in Node : SetNode(n) \/ Stable(n)
      BY <2>5, SetNodeStep, StableStep
    <2>6. CASE \E n, m \in Node : Ping(n, m)
      BY <2>6, PingStep
    <2>7. CASE \E p \in net : Receive(p)
      BY <2>7, ReceiveStep
    <2> QED
      BY <1>2, <2>1, <2>2, <2>3, <2>4, <2>5, <2>6, <2>7 DEF Next
  <1> QED
    BY <1>1, <1>2

\* The invariant holds in every state of every behaviour.
THEOREM Invariant == Spec => []IInv
  BY InitStep, NextStep, PTL DEF Spec

\* migrateCommand, clusterUpdateSlotsConfigWith: some node holds the latest value of every
\* key, wherever redis-cli stops, as long as the operator does not make the source
\* close a slot the target has taken.
THEOREM ValuesAreKept == Spec => []LatestValueIsKept
  <1>1. IInv => LatestValueIsKept
    <2> SUFFICES ASSUME IInv, "disowned" \notin unsure, NEW k \in Key, latest[k] # 0
                 PROVE  \E n \in Node : node[n].db[k] = latest[k]
      BY DEF LatestValueIsKept
    <2>1. CASE k \in Mine
      <3>1. latest[k] \in {0, Here(k), There(k)}
        BY <2>1 DEF IInv, DataOK
      <3> QED
        BY <3>1, MoveAssumption DEF Here, There
    <2>2. CASE k \notin Mine
      <3>1. Home(KeySlot[k]) \in Node
        BY SlotAssumption, InitAssumption
      <3>2. node[Home(KeySlot[k])].db[k] = latest[k]
        BY <2>2, <3>1 DEF IInv, DataOK
      <3> QED
        BY <3>1, <3>2
    <2> QED
      BY <2>1, <2>2
  <1> QED
    BY <1>1, Invariant, PTL

\* getNodeByQuery: a client that follows MOVED and ASK is served the latest value, as long
\* as no MIGRATE timed out and no slot was closed half way.
THEOREM ReadersSeeTheLatest == Spec => []ServedValuesAreLatest
  <1>1. IInv => ServedValuesAreLatest
    BY DEF IInv, DataOK, ServedValuesAreLatest
  <1> QED
    BY <1>1, Invariant, PTL

\* clusterManagerMoveSlot: when redis-cli is done the target has the slot, the source
\* knows and holds none of its keys, and the slot is closed on both sides.
THEOREM MovesComplete == Spec => []MoveIsComplete
  <1>1. IInv => MoveIsComplete
    <2> SUFFICES ASSUME IInv, cli.pc = "done"
                 PROVE  /\ node[Target].owner[TheSlot] = Target
                        /\ node[Source].owner[TheSlot] = Target /\ CountKeysInSlot(node[Source], TheSlot) = 0
                        /\ \A n \in {Source, Target} : node[n].imp[TheSlot] = NoNode /\ node[n].mig[TheSlot] = NoNode
      BY DEF MoveIsComplete
    <2>1. Taken /\ node[Source].owner[TheSlot] = Target /\ node[Source].mig[TheSlot] = NoNode /\ Emptied
      BY DEF IInv, CliOK
    <2>2. CountKeysInSlot(node[Source], TheSlot) = 0
      BY <2>1, NoKeys DEF Emptied, Here, Mine
    <2>3. node[Target].imp[TheSlot] = NoNode
      BY <2>1 DEF IInv, ConfigOK
    <2>4. node[Source].imp[TheSlot] = NoNode /\ node[Target].mig[TheSlot] = NoNode
      BY Sides DEF IInv, MemberOK
    <2> QED
      BY <2>1, <2>2, <2>3, <2>4 DEF Taken
  <1> QED
    BY <1>1, Invariant, PTL
=============================================================================
