----------------------------- MODULE MCSentinel -----------------------------
(* Three sentinels; instance 11 is the master, 12 and 13 are its slaves. *)
EXTENDS Sentinel

MCPriority == [r \in Redis |-> 100]

(* What sentinel s knows at first: everybody, or itself. *)
Watcher(s, known) ==
    sentinelHandleConfiguration(s, [cur |-> 0, config |-> 0, lepoch |-> 0, addr |-> 11,
                                    slaves |-> Redis \ {11}, known |-> known \ {s}])

Instances(dead) ==
    [r \in Redis |-> [alive |-> r \notin dead, master |-> IF r = 11 THEN None ELSE 11,
                      off |-> 10, sync |-> r # 11]]

Calm == [cut |-> {}, talk |-> {}, links |-> {}, commands |-> {}, timers |-> {1}, crash |-> {}, tilt |-> {},
         info |-> {}, stale |-> {}, dies |-> {}, revives |-> {}, epochs |-> 1, packets |-> 1]

Everybody == [s \in Sentinels |-> Watcher(s, Sentinels)]

(* The master has died and is noticed by the sentinels in who, who also know
   what the others think. *)
Noticed(who) ==
    [s \in Sentinels |-> IF s \in who
        THEN [Everybody[s] EXCEPT !.sdown = {11}, !.down = who \ {s}] ELSE Everybody[s]]

(* Two sentinels compete for the vote of the third, which crashes, and would
   promote different slaves. *)
Contest ==
    {[sent |-> Noticed({1, 2}), redis |-> Instances({11}),
      env |-> [Calm EXCEPT !.crash = {3}, !.links = {<<1, 3>>, <<2, 3>>}, !.timers = {1, 2},
                           !.info = {<<1, 13>>, <<2, 12>>}, !.cut = {<<1, 12>>, <<2, 13>>}]]}

(* One that was not elected tries again, with a voter that crashes. *)
Retry ==
    {[sent |-> Noticed({1, 2}), redis |-> Instances({11}),
      env |-> [Calm EXCEPT !.crash = {3}, !.links = {<<1, 3>>}, !.epochs = 2]]}

(* The master has died and fails over; the leader may crash. *)
Failover ==
    {[sent |-> Noticed({1, 2}), redis |-> Instances({11}),
      env |-> [Calm EXCEPT !.talk = {<<1, 2>>, <<2, 1>>}, !.links = {<<1, 2>>}, !.crash = {1}, !.tilt = {1},
                           !.stale = {<<1, 2>>}, !.info = {<<1, 12>>, <<1, 13>>}]]}

(* A failover on request, of a master that is alive; another sentinel hears of
   it late. *)
OnRequest ==
    {[sent |-> Everybody, redis |-> Instances({}),
      env |-> [Calm EXCEPT !.talk = {<<1, 2>>}, !.commands = {<<1, "failover">>},
                           !.dies = {12}, !.revives = {12},
                           !.info = {<<1, 12>>, <<1, 13>>, <<2, 12>>}]]}

(* A sentinel that starts anew and knows nobody, and one that is reset. *)
Newcomers ==
    {[sent |-> [Noticed({1, 2}) EXCEPT ![3] = Watcher(3, {}), ![1].known = {2}, ![2].known = {1}],
      redis |-> Instances({11}),
      env |-> [Calm EXCEPT !.talk = {<<3, 1>>, <<1, 3>>}, !.links = {<<1, 3>>, <<3, 1>>}, !.commands = {<<1, "reset">>},
                           !.timers = {1}, !.revives = {11}, !.info = {<<1, 11>>}]]}

(* Sentinel 1 was away when the others failed over to 12 and back to 11; it fails
   over by itself, and is reset, while it hears of that. *)
Behind ==
    {[sent |-> [s \in Sentinels |-> IF s = 1 THEN Everybody[1]
                                     ELSE [Everybody[s] EXCEPT !.cur = 2, !.config = 2, !.lepoch = 2]],
      redis |-> Instances({}),
      env |-> [Calm EXCEPT !.talk = {<<2, 1>>, <<1, 3>>}, !.crash = {1}, !.epochs = 2,
                           !.commands = {<<1, "failover">>, <<1, "reset">>},
                           !.info = {<<1, 12>>, <<1, 13>>}]]}

(* Two sentinels are told to fail over at once. *)
Twice ==
    {[sent |-> Everybody, redis |-> Instances({}),
      env |-> [Calm EXCEPT !.timers = {1, 2}, !.commands = {<<1, "failover">>, <<2, "failover">>},
                           !.talk = {<<1, 3>>}, !.info = {<<1, 12>>, <<2, 13>>}, !.cut = {<<1, 13>>, <<2, 12>>}]]}

(* Sentinel 1 fails over for the first epoch while it hears of the epoch that
   sentinel 2 reached with failovers nobody voted for. *)
Overtaken ==
    {[sent |-> [Noticed({1, 2}) EXCEPT ![2].cur = 2, ![2].lepoch = 2], redis |-> Instances({11}),
      env |-> [Calm EXCEPT !.talk = {<<2, 1>>}, !.links = {<<1, 3>>}, !.epochs = 2]]}

All == Overtaken \cup Behind \cup Twice \cup Contest \cup Retry \cup Failover \cup OnRequest \cup Newcomers
=============================================================================
