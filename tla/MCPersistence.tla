--------------------------- MODULE MCPersistence ---------------------------
(***************************************************************************)
(* Instances of Persistence: fsync policies and the events of each.        *)
(***************************************************************************)
EXTENDS Persistence

Two == <<<<0, FALSE>>, <<1, FALSE>>>>
Same == <<<<1, FALSE>>, <<1, FALSE>>>>
Trans == <<<<1, FALSE>>, <<1, TRUE>>>>

None0 == [writes |-> <<>>, flushes |-> 0, faults |-> 0, time |-> 0, rewrites |-> 0,
          sets |-> 0, saves |-> 0, crashes |-> 0, shutdowns |-> 0]

Start(policy, norw, aof, save, events) ==
    [policy |-> policy, norw |-> norw, aof |-> aof, save |-> save, budget |-> events]

MCInits ==
    { Start("always", FALSE, TRUE, FALSE,
            [None0 EXCEPT !.writes = Trans, !.rewrites = 1, !.crashes = 1, !.faults = 1, !.sets = 1]),
      Start("everysec", FALSE, TRUE, FALSE,
            [None0 EXCEPT !.writes = Two, !.rewrites = 1, !.faults = 1, !.time = 3, !.crashes = 1]),
      Start("everysec", TRUE, TRUE, TRUE,
            [None0 EXCEPT !.writes = Same, !.rewrites = 1, !.saves = 2, !.time = 1, !.shutdowns = 1]),
      Start("no", FALSE, FALSE, TRUE,
            [None0 EXCEPT !.writes = Two, !.saves = 2, !.flushes = 1, !.crashes = 1, !.faults = 1]),
      Start("no", FALSE, FALSE, FALSE,
            [None0 EXCEPT !.writes = Two, !.sets = 2, !.saves = 1, !.faults = 1, !.crashes = 1]) }
=============================================================================
