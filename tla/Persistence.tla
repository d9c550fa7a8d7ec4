---------------------------- MODULE Persistence ----------------------------
(***************************************************************************)
(* What a Redis server keeps on disk: the append only file with its buffer,*)
(* its fsync policies and its background rewrite (aof.c, bio.c), and the   *)
(* RDB file with its children and save points (rdb.c, serverCron).         *)
(*                                                                         *)
(* The dataset is the history of the writes, each with its database, so    *)
(* that what a file restores can be compared with it. A file is a sequence *)
(* of commands; a rewritten one starts with a snapshot. A killed process   *)
(* leaves what it wrote; a power failure leaves at least what was fsynced  *)
(* and any prefix of the rest, cut at the last command that is complete.   *)
(* A rename is durable at once. unixtime is seen through the comparisons   *)
(* the code makes: due (a second since the last fsync), postponed.         *)
(***************************************************************************)
EXTENDS Integers, Sequences, FiniteSets, SequencesExt

CONSTANTS
    None,          \* no child, no file descriptor
    Inits,         \* the situations to start from: policy, norw, aof, save, budget
    MaxJobs,       \* bound on the fsyncs queued for the bio thread
    Changes        \* the changes of the save point

ASSUME BoundsAreNatural == MaxJobs \in Nat /\ Changes \in Nat \ {0}

(* Writes, commands of an append only file, the files. *)
Data == Seq(Nat \X Nat)
Command == [t : {"select", "write", "multi", "exec"}, v : Nat]
Files == Seq(Command \cup [t : {"snap"}, v : Data])

(* The children: of a rewrite with its snapshot, the pipe from the parent and the
   differences it has read; of a save. *)
ChildRecord == [snap : Data, pipe : Seq(Command), diff : Seq(Command),
                phase : {"dump", "stop", "acked", "exit", "fail", "renamed"}]
RdbRecord == [snap : Data, phase : {"save", "exit", "fail", "killed"}]

ServerFields == {"data", "acked", "owed", "state", "buf", "sel", "err", "size", "fsoff", "due",
                 "postponed", "child", "rbuf", "stop", "sched", "exits", "rdb", "loaded", "dirty",
                 "before", "rdbok", "bgsched"}
BudgetFields == {"writes", "flushes", "faults", "time", "rewrites", "sets", "saves", "crashes", "shutdowns"}

ASSUME NoneAssumption == None \notin ChildRecord /\ None \notin RdbRecord
ASSUME InitsAssumption ==
    \A i \in Inits : /\ i.aof \in BOOLEAN /\ DOMAIN i.budget = BudgetFields
                     /\ i.budget.writes \in Seq({0, 1} \X BOOLEAN)

VARIABLES
    srv,     \* the memory of the server
    disk,    \* aof: number of the file, commands, fsynced commands, whether it was renamed
             \* into place and never fsynced whole since; rdb: a snapshot
    jobs,    \* bio: the fsyncs that are queued or running
    config,  \* policy: appendfsync; norw: no-appendfsync-on-rewrite; aof: appendonly;
             \* save: there are save points
    budget   \* what may still happen

vars == <<srv, disk, jobs, config, budget>>

Item(t, v) == [t |-> t, v |-> v]
Snap(data) == [t |-> "snap", v |-> data]

(* loadAppendOnlyFile: the commands of a transaction are queued until its EXEC; without
   one they are dropped. *)
LoadItem(v, item) ==
    CASE item.t = "snap"   -> [v EXCEPT !.data = item.v]
      [] item.t = "select" -> [v EXCEPT !.db = item.v]
      [] item.t = "multi"  -> [v EXCEPT !.open = TRUE, !.queue = <<>>]
      [] item.t = "write"  -> IF v.open THEN [v EXCEPT !.queue = Append(@, <<v.db, item.v>>)]
                              ELSE [v EXCEPT !.data = Append(@, <<v.db, item.v>>)]
      [] item.t = "exec"   -> [v EXCEPT !.data = @ \o v.queue, !.open = FALSE]

Nothing == [data |-> <<>>, db |-> 0, open |-> FALSE, queue |-> <<>>]

(* What the first n commands of a file load, for each n. *)
Loading(items) ==
    LET upTo[n \in 0..Len(items)] ==
          IF n = 0 THEN Nothing ELSE LoadItem(upTo[n - 1], items[n])
    IN upTo
Load(items) == Loading(items)[Len(items)]

(* The commands of a file that loadAppendOnlyFile keeps. *)
ValidUpTo(items) ==
    IF ~Load(items).open THEN items
    ELSE SubSeq(items, 1, CHOOSE i \in 0..Len(items) - 1 :
                   items[i + 1].t = "multi" /\ \A j \in i + 2..Len(items) : items[j].t # "multi")

HasChild(s) == s.child # None \/ s.rdb # None

redis_fsync(file) == [file EXCEPT !.synced = Len(file.items), !.fresh = FALSE]
-----------------------------------------------------------------------------
(* flushAppendOnlyFile. World: the server, the files, the queue. *)

World == [srv |-> srv, disk |-> disk, jobs |-> jobs]
Become(w) == srv' = w.srv /\ disk' = w.disk /\ jobs' = w.jobs

bioCreateBackgroundJob(w) ==
    Append(w.jobs, [ino |-> w.disk.aof.ino, len |-> Len(w.disk.aof.items)])

TryFsync(w, sync) ==
    CASE config.norw /\ HasChild(w.srv) -> w
      [] config.policy = "always" ->
           [w EXCEPT !.disk.aof = redis_fsync(@),
                     !.srv.fsoff = w.srv.size, !.srv.due = FALSE]
      [] config.policy = "everysec" /\ w.srv.due ->
           IF sync THEN [w EXCEPT !.srv.due = FALSE]
           ELSE [w EXCEPT !.jobs = bioCreateBackgroundJob(w),
                          !.srv.fsoff = w.srv.size, !.srv.due = FALSE]
      [] OTHER -> w

(* The write: all of the buffer ("ok"), nothing or a part that ftruncate removes
   ("error"), or a part that stays ("part"). *)
Written(w, n) ==
    [w EXCEPT !.disk.aof.items = @ \o SubSeq(w.srv.buf, 1, n),
              !.srv.size = @ + n,
              !.srv.buf = SubSeq(@, n + 1, Len(@))]

WriteOutcomes == {"ok", "error", "part"}

aofWrite(w, outcome) ==
    LET w1 == [w EXCEPT !.srv.postponed = "no"]
    IN CASE outcome = "ok"    -> [Written(w1, Len(w.srv.buf)) EXCEPT !.srv.err = FALSE]
         [] outcome = "error" -> [w1 EXCEPT !.srv.err = TRUE]
         [] outcome = "part"  -> [Written(w1, Len(w.srv.buf) \div 2) EXCEPT !.srv.err = TRUE]

(* The write waits for the fsync that is running, for two seconds. *)
Postpones(w, force) == /\ config.policy = "everysec" /\ ~force
                       /\ w.jobs # <<>> /\ w.srv.postponed # "late"

(* With appendfsync always an error ends the process (srv.exits). *)
flushAppendOnlyFile(w, force, outcome) ==
    LET sync == config.policy = "everysec" /\ w.jobs # <<>>
        done == aofWrite(w, outcome)
    IN CASE w.srv.buf = <<>> ->
              IF /\ config.policy = "everysec" /\ w.srv.fsoff # w.srv.size
                 /\ w.srv.due /\ w.jobs = <<>>
              THEN TryFsync(w, FALSE) ELSE w
         [] w.srv.buf # <<>> /\ Postpones(w, force) ->
              [w EXCEPT !.srv.postponed = IF @ = "no" THEN "yes" ELSE @]
         [] OTHER -> IF ~done.srv.err THEN TryFsync(done, sync)
                     ELSE [done EXCEPT !.srv.exits = config.policy = "always"]
-----------------------------------------------------------------------------
(* The rewrite. *)

(* The child: its snapshot, the pipe from the parent, the differences it has read,
   and how far it is. *)
Child(data) == [snap |-> data, pipe |-> <<>>, diff |-> <<>>, phase |-> "dump"]

(* rewriteAppendOnlyFileBackground: every command from now on selects its database
   first, in the file and in the buffer of the rewrite. *)
FaultyRewriteBackground(s) ==
    [s EXCEPT !.child = Child(s.data), !.stop = FALSE, !.sched = FALSE]
rewriteAppendOnlyFileBackground(s) ==
    [s EXCEPT !.child = Child(s.data), !.stop = FALSE, !.sched = FALSE, !.sel = -1]

aofRewriteBufferReset(s) == [s EXCEPT !.rbuf = <<>>, !.child = None, !.stop = FALSE]
killAppendOnlyChild(s) == IF s.child = None THEN s ELSE aofRewriteBufferReset(s)

(* feedAppendOnlyFile: to the file, and to the child that rewrites it. *)
feedAppendOnlyFile(s, d, items) ==
    LET new == (IF s.sel # d THEN <<Item("select", d)>> ELSE <<>>) \o items
        s1  == [s EXCEPT !.sel = d,
                         !.buf = IF s.state = "on" THEN @ \o new ELSE @,
                         !.rbuf = IF s.child # None THEN @ \o new ELSE @]
    IN IF s.state = "off" THEN s ELSE s1

(* backgroundRewriteDoneHandler, the child succeeded: what it did not read is appended
   to its file and the file renamed. Only what the child wrote was synced. *)
Renamed(s) == s.child # None /\ s.child.phase = "renamed"

Rename(w) ==
    LET s == w.srv
        read == <<Snap(s.child.snap)>> \o s.child.diff
        file == [ino |-> w.disk.aof.ino + 1, items |-> read \o s.rbuf,
                 synced |-> Len(read), fresh |-> TRUE]
    IN [w EXCEPT !.disk.aof = file, !.srv.child.phase = "renamed"]

(* Then, with the AOF on, the new file is synced, here or by the bio thread, and the
   buffer dropped, as it is in the file. *)
Switch(w) ==
    LET file == w.disk.aof
        s    == [w.srv EXCEPT !.sel = -1, !.size = Len(file.items), !.buf = <<>>, !.state = "on"]
    IN IF w.srv.state = "off" THEN w
       ELSE CASE config.policy = "always"   -> [w EXCEPT !.srv = s, !.disk.aof = redis_fsync(file)]
              [] config.policy = "everysec" -> [w EXCEPT !.srv = s, !.jobs = bioCreateBackgroundJob(w)]
              [] OTHER                      -> [w EXCEPT !.srv = s]

(* cleanup: a rewrite is scheduled if the AOF still waits for one. *)
Cleanup(w) ==
    [w EXCEPT !.srv = [aofRewriteBufferReset(w.srv) EXCEPT !.sched = @ \/ w.srv.state = "wait"]]

(* stopAppendOnly, startAppendOnly: CONFIG SET appendonly. *)
stopAppendOnly(w, outcome) ==
    LET w1 == flushAppendOnlyFile(w, TRUE, outcome)
        s  == [w1.srv EXCEPT !.sel = -1, !.state = "off"]
    IN IF w1.srv.exits THEN w1
       ELSE [w1 EXCEPT !.disk.aof = redis_fsync(@), !.srv = killAppendOnlyChild(s)]

startAppendOnly(s, forked) ==
    LET s1 == IF s.rdb # None THEN [s EXCEPT !.sched = TRUE]
              ELSE rewriteAppendOnlyFileBackground(killAppendOnlyChild(s))
    IN IF s.rdb = None /\ ~forked THEN killAppendOnlyChild(s)
       ELSE [s1 EXCEPT !.state = "wait", !.due = FALSE]
-----------------------------------------------------------------------------
(* The RDB file. *)

rdbSave(w, ok) ==
    IF ok THEN [w EXCEPT !.disk.rdb = w.srv.data, !.srv.dirty = 0, !.srv.rdbok = TRUE] ELSE w

(* rdbSaveBackground; forked is FALSE when fork fails. *)
rdbSaveBackground(s, forked) ==
    IF HasChild(s) THEN s
    ELSE IF ~forked THEN [s EXCEPT !.before = s.dirty, !.rdbok = FALSE]
    ELSE [s EXCEPT !.before = s.dirty, !.rdb = [snap |-> s.data, phase |-> "save"]]

(* backgroundSaveDoneHandlerDisk *)
FaultySaveDone(s) ==
    IF s.rdb.phase = "exit" THEN [s EXCEPT !.dirty = 0, !.rdbok = TRUE, !.rdb = None]
    ELSE [s EXCEPT !.rdbok = FALSE, !.rdb = None]
backgroundSaveDoneHandlerDisk(s) ==
    CASE s.rdb.phase = "exit"   -> [s EXCEPT !.dirty = @ - s.before, !.rdbok = TRUE, !.rdb = None]
      [] s.rdb.phase = "fail"   -> [s EXCEPT !.rdbok = FALSE, !.rdb = None]
      [] s.rdb.phase = "killed" -> [s EXCEPT !.rdb = None]

(* kill: a child that has exited is not touched. *)
KillRdbChild(s) ==
    IF s.rdb # None /\ s.rdb.phase = "save" THEN [s EXCEPT !.rdb.phase = "killed"] ELSE s

writeCommandsDeniedByDiskError(s) ==
    \/ config.save /\ ~s.rdbok
    \/ s.state # "off" /\ s.err
-----------------------------------------------------------------------------
Spend(what) == budget[what] > 0 /\ budget' = [budget EXCEPT ![what] = @ - 1]
MayFail(ok) == IF ok THEN UNCHANGED budget ELSE Spend("faults")

(* The event loop runs: the process has not ended and is not within the handler above. *)
Running == ~srv.exits /\ ~Renamed(srv)

(* A client writes once, or twice in a transaction. *)
ClientWrites(d, multi) ==
    /\ Running
    /\ budget.writes # <<>> /\ Head(budget.writes) = <<d, multi>>
    /\ ~writeCommandsDeniedByDiskError(srv)
    /\ LET n == Len(budget.writes)
           one == Item("write", n)
           items == IF multi THEN <<Item("multi", 0), one, one, Item("exec", 0)>> ELSE <<one>>
           k == IF multi THEN 2 ELSE 1
       IN srv' = feedAppendOnlyFile([srv EXCEPT !.data = @ \o [i \in 1..k |-> <<d, n>>],
                                                !.dirty = @ + k, !.owed = TRUE], d, items)
    /\ budget' = [budget EXCEPT !.writes = Tail(@)]
    /\ UNCHANGED <<disk, jobs, config>>

(* flushallCommand: the child is killed and the RDB file rewritten at once; dirty
   still counts, for the replicas and the AOF. *)
flushallCommand(saved) ==
    /\ Running /\ ~writeCommandsDeniedByDiskError(srv)
    /\ Spend("flushes")
    /\ LET s == KillRdbChild([srv EXCEPT !.data = Append(@, <<0, 0>>), !.owed = TRUE])
           w == IF config.save THEN rdbSave([World EXCEPT !.srv = s], saved) ELSE [World EXCEPT !.srv = s]
       IN Become([w EXCEPT !.srv = feedAppendOnlyFile([@ EXCEPT !.dirty = srv.dirty + 1,
                                                                !.rdbok = w.srv.rdbok],
                                                      0, <<Item("write", 0)>>)])
    /\ UNCHANGED config

(* beforeSleep: the buffer is written, then the replies are sent. *)
beforeSleep(outcome) ==
    /\ Running /\ srv.state = "on"
    /\ outcome = "ok" \/ (srv.buf # <<>> /\ ~Postpones(World, FALSE))
    /\ MayFail(outcome = "ok")
    /\ \E w \in {flushAppendOnlyFile(World, FALSE, outcome)} :
         /\ w # World \/ srv.owed
         /\ Len(w.jobs) <= MaxJobs
         /\ Become(IF w.srv.exits \/ ~srv.owed THEN w
                   ELSE [w EXCEPT !.srv.acked = Len(srv.data), !.srv.owed = FALSE])
    /\ UNCHANGED config

(* The clock. *)
TimePasses ==
    /\ Running /\ Spend("time")
    /\ \/ ~srv.due /\ srv' = [srv EXCEPT !.due = TRUE]
       \/ srv.postponed = "yes" /\ srv' = [srv EXCEPT !.postponed = "late"]
    /\ UNCHANGED <<disk, jobs, config>>

(* bioProcessBackgroundJobs: an fsync ends. *)
bioProcessBackgroundJobs ==
    /\ jobs # <<>>
    /\ jobs' = Tail(jobs)
    /\ disk' = IF Head(jobs).ino = disk.aof.ino /\ Head(jobs).len > disk.aof.synced
               THEN [disk EXCEPT !.aof.synced = Head(jobs).len,
                                 !.aof.fresh = @ /\ Head(jobs).len < Len(disk.aof.items)]
               ELSE disk
    /\ UNCHANGED <<srv, config, budget>>

(* bgrewriteaofCommand, and the rewrite serverCron starts: scheduled, or because the
   file has grown. *)
bgrewriteaofCommand(forked) ==
    /\ Running /\ srv.child = None
    /\ Spend("rewrites")
    /\ srv' = IF srv.rdb # None THEN [srv EXCEPT !.sched = TRUE]
              ELSE IF forked THEN rewriteAppendOnlyFileBackground(srv) ELSE srv
    /\ UNCHANGED <<disk, jobs, config>>
CronRewrites ==
    /\ Running /\ ~HasChild(srv) /\ srv.sched
    /\ srv' = rewriteAppendOnlyFileBackground(srv)
    /\ UNCHANGED <<disk, jobs, config, budget>>

(* aofChildWriteDiffData: what the pipe takes, unless the child asked to stop. *)
aofChildWriteDiffData ==
    /\ srv.child # None /\ ~srv.stop /\ srv.rbuf # <<>>
    /\ srv.child.phase \in {"dump", "stop"}
    /\ \E n \in {1, Len(srv.rbuf)} :
         srv' = [srv EXCEPT !.child.pipe = @ \o SubSeq(srv.rbuf, 1, n),
                            !.rbuf = SubSeq(@, n + 1, Len(@))]
    /\ UNCHANGED <<disk, jobs, config, budget>>

(* rewriteAppendOnlyFile, in the child: it reads differences while it writes, asks
   the parent to stop, waits for the answer, reads the rest and syncs the file. *)
aofReadDiffFromParent(c) == [c EXCEPT !.diff = @ \o c.pipe, !.pipe = <<>>]
ChildReads ==
    /\ srv.child # None /\ srv.child.phase = "dump" /\ srv.child.pipe # <<>>
    /\ srv' = [srv EXCEPT !.child = aofReadDiffFromParent(@)]
    /\ UNCHANGED <<disk, jobs, config, budget>>
ChildAsksToStop ==
    /\ srv.child # None /\ srv.child.phase = "dump"
    /\ srv' = [srv EXCEPT !.child.phase = "stop"]
    /\ UNCHANGED <<disk, jobs, config, budget>>
aofChildPipeReadable ==
    /\ Running /\ srv.child # None /\ srv.child.phase = "stop"
    /\ srv' = [srv EXCEPT !.stop = TRUE, !.child.phase = "acked"]
    /\ UNCHANGED <<disk, jobs, config, budget>>
Finish(c) == [aofReadDiffFromParent(c) EXCEPT !.phase = "exit"]
ChildFinishes ==
    /\ srv.child # None /\ srv.child.phase = "acked"
    /\ srv' = [srv EXCEPT !.child = Finish(@)]
    /\ UNCHANGED <<disk, jobs, config, budget>>
ChildFails ==
    /\ srv.child # None /\ srv.child.phase \in {"dump", "stop", "acked"}
    /\ Spend("faults")
    /\ srv' = [srv EXCEPT !.child.phase = "fail"]
    /\ UNCHANGED <<disk, jobs, config>>

(* The child was reaped: the file is renamed, or the rewrite given up because the child
   failed or the parent cannot append the rest. *)
RenameRewrite ==
    /\ Running /\ srv.child # None /\ srv.child.phase = "exit"
    /\ Become(Rename(World))
    /\ UNCHANGED <<config, budget>>
FinishRewrite ==
    /\ Renamed(srv) /\ ~srv.exits
    /\ \E w \in {Cleanup(Switch(World))} : Len(w.jobs) <= MaxJobs /\ Become(w)
    /\ config' = [config EXCEPT !.aof = srv'.state = "on"]
    /\ UNCHANGED budget
GiveUpRewrite ==
    /\ Running /\ srv.child # None /\ srv.child.phase \in {"exit", "fail"}
    /\ MayFail(srv.child.phase = "fail")
    /\ Become(Cleanup(World))
    /\ UNCHANGED config

(* CONFIG SET appendonly; the configuration file follows once the file is complete. *)
SetAppendOnly(on, outcome) ==
    /\ Running /\ Spend("sets")
    /\ IF on THEN /\ srv.state = "off" /\ outcome = "ok"
                  /\ \E f \in BOOLEAN : srv' = startAppendOnly(srv, f)
                  /\ UNCHANGED <<disk, jobs, config>>
       ELSE /\ srv.state # "off"
            /\ Become(stopAppendOnly(World, outcome))
            /\ config' = [config EXCEPT !.aof = srv'.state = "on"]

(* bgsaveCommand and the save point of serverCron. *)
bgsaveCommand(forked) ==
    /\ Running /\ srv.rdb = None /\ Spend("saves")
    /\ srv' = IF srv.child # None THEN [srv EXCEPT !.bgsched = TRUE] ELSE rdbSaveBackground(srv, forked)
    /\ UNCHANGED <<disk, jobs, config>>
CronSaves(forked) ==
    /\ Running /\ ~HasChild(srv)
    /\ Spend("saves")
    /\ \/ /\ config.save /\ srv.dirty >= Changes
          /\ srv' = rdbSaveBackground(srv, forked)
       \/ /\ srv.bgsched
          /\ srv' = [rdbSaveBackground(srv, forked) EXCEPT !.bgsched = @ /\ ~forked]
    /\ UNCHANGED <<disk, jobs, config>>
saveCommand ==
    /\ Running /\ srv.rdb = None /\ Spend("saves")
    /\ Become(rdbSave(World, TRUE))
    /\ UNCHANGED config

(* The child writes a temporary file, syncs and renames it, or fails. *)
RdbChildSaves ==
    /\ srv.rdb # None /\ srv.rdb.phase = "save"
    /\ srv' = [srv EXCEPT !.rdb.phase = "exit"]
    /\ disk' = [disk EXCEPT !.rdb = srv.rdb.snap]
    /\ UNCHANGED <<jobs, config, budget>>
RdbChildFails ==
    /\ srv.rdb # None /\ srv.rdb.phase = "save" /\ Spend("faults")
    /\ srv' = [srv EXCEPT !.rdb.phase = "fail"]
    /\ UNCHANGED <<disk, jobs, config>>
ReapSave ==
    /\ Running /\ srv.rdb # None /\ srv.rdb.phase # "save"
    /\ srv' = backgroundSaveDoneHandlerDisk(srv)
    /\ UNCHANGED <<disk, jobs, config, budget>>

(* A server that has loaded data; acked: the writes that were acknowledged and are
   still there; owed: clients wait for a reply; dirty: the commands that were replayed,
   which a snapshot at the start of the file is not. *)
Started(data, acked, state, size, dirty) ==
    [data |-> data, acked |-> Min({acked, Len(data)}), owed |-> FALSE, state |-> state, buf |-> <<>>, sel |-> -1,
     err |-> FALSE, size |-> size, fsoff |-> size, due |-> FALSE, postponed |-> "no",
     child |-> None, rbuf |-> <<>>, stop |-> FALSE, sched |-> FALSE, exits |-> FALSE,
     rdb |-> None, loaded |-> Len(data), dirty |-> dirty, before |-> 0, rdbok |-> TRUE, bgsched |-> FALSE]

(* loadDataFromDisk: the AOF, cut after its last complete command, or the RDB file. *)
loadDataFromDisk(d) ==
    LET kept == ValidUpTo(d.aof.items)
        data == Load(kept).data
        old  == IF kept # <<>> /\ kept[1].t = "snap" THEN Len(kept[1].v) ELSE 0
    IN IF config.aof
       THEN [srv  |-> Started(data, srv.acked, "on", Len(kept), Len(data) - old),
             disk |-> [d EXCEPT !.aof.items = kept, !.aof.synced = Min({@, Len(kept)})],
             jobs |-> <<>>]
       ELSE [srv |-> Started(d.rdb, srv.acked, "off", 0, 0), disk |-> d, jobs |-> <<>>]

(* The process is killed, or ends after an error, and is started again. *)
Killed ==
    /\ srv.exits \/ budget.crashes > 0
    /\ budget' = IF srv.exits THEN budget ELSE [budget EXCEPT !.crashes = @ - 1]
    /\ Become(loadDataFromDisk(disk))
    /\ UNCHANGED config
PowerFails(n) ==
    /\ Spend("crashes")
    /\ \E file \in {[disk.aof EXCEPT !.items = SubSeq(@, 1, n)]} :
         Become(loadDataFromDisk([disk EXCEPT !.aof = redis_fsync(file)]))
    /\ UNCHANGED config

(* prepareForShutdown: the children are killed, the buffer is written and synced, the
   RDB file saved; the server ends and starts again unless the save fails. *)
KillAofChild(s) ==
    IF s.child # None /\ s.child.phase # "exit" THEN [s EXCEPT !.child.phase = "fail"] ELSE s
prepareForShutdown(save, saved, outcome) ==
    /\ Running /\ Spend("shutdowns")
    /\ ~(srv.state = "wait" /\ srv.child # None)
    /\ saved \/ save
    /\ LET w  == [World EXCEPT !.srv = KillRdbChild(srv)]
           w1 == flushAppendOnlyFile([w EXCEPT !.srv = KillAofChild(@)], TRUE, outcome)
           w2 == IF srv.state = "off" THEN w
                 ELSE [w1 EXCEPT !.disk.aof = redis_fsync(@)]
           w3 == IF save /\ ~w2.srv.exits THEN rdbSave(w2, saved) ELSE w2
       IN Become(IF saved \/ w2.srv.exits THEN loadDataFromDisk(w3.disk) ELSE w3)
    /\ UNCHANGED config
-----------------------------------------------------------------------------
Init ==
    /\ \E i \in Inits :
         /\ config = [policy |-> i.policy, norw |-> i.norw, aof |-> i.aof, save |-> i.save]
         /\ budget = i.budget
         /\ srv = Started(<<>>, 0, IF i.aof THEN "on" ELSE "off", 0, 0)
    /\ disk = [aof |-> [ino |-> 1, items |-> <<>>, synced |-> 0, fresh |-> FALSE], rdb |-> <<>>]
    /\ jobs = <<>>

Next ==
    \/ \E d \in {0, 1}, multi \in BOOLEAN : ClientWrites(d, multi)
    \/ \E b \in BOOLEAN : flushallCommand(b)
    \/ \E o \in WriteOutcomes : beforeSleep(o)
    \/ TimePasses
    \/ bioProcessBackgroundJobs
    \/ \E f \in BOOLEAN : bgrewriteaofCommand(f)
    \/ CronRewrites
    \/ aofChildWriteDiffData
    \/ ChildReads
    \/ ChildAsksToStop
    \/ aofChildPipeReadable
    \/ ChildFinishes
    \/ ChildFails
    \/ RenameRewrite
    \/ FinishRewrite
    \/ GiveUpRewrite
    \/ \E on \in BOOLEAN, o \in WriteOutcomes : SetAppendOnly(on, o)
    \/ \E f \in BOOLEAN : bgsaveCommand(f)
    \/ \E f \in BOOLEAN : CronSaves(f)
    \/ saveCommand
    \/ RdbChildSaves
    \/ RdbChildFails
    \/ ReapSave
    \/ Killed
    \/ \E n \in disk.aof.synced..Len(disk.aof.items) : PowerFails(n)
    \/ \E save, saved \in BOOLEAN, o \in WriteOutcomes : prepareForShutdown(save, saved, o)

Spec == Init /\ [][Next]_vars
-----------------------------------------------------------------------------
(* The append only file and the buffer together hold the dataset, through rewrites,
   failed writes, restarts and CONFIG SET; a rewritten file does so alone once it is
   renamed. A process that is killed loses what flushAppendOnlyFile has not written and
   nothing else, and a power failure leaves a prefix of the history. With appendfsync
   always that prefix has every write that was acknowledged, unless
   no-appendfsync-on-rewrite gives that up or the file was renamed and no fsync followed:
   backgroundRewriteDoneHandler renames the new file (aof.c:1736) before it syncs what the
   parent appended to it (aof.c:1758), which holds writes acknowledged before, against "the
   contract with the user that on acknowledged write data is synced on disk" (aof.c:450). *)
Recovers(n) == Load(SubSeq(disk.aof.items, 1, n)).data
Strict == config.policy = "always" /\ ~config.norw

RestartRecovers ==
    srv.state = "on" =>
      /\ Load(IF Renamed(srv) THEN disk.aof.items ELSE disk.aof.items \o srv.buf).data = srv.data
      /\ \A n \in disk.aof.synced..Len(disk.aof.items) :
           \E data \in {Recovers(n)} :
             /\ IsPrefix(data, srv.data)
             /\ Strict /\ ~srv.exits /\ ~disk.aof.fresh => Len(data) >= srv.acked

(* server.dirty never counts fewer of the changes this process made than the RDB file
   misses: the save points see every change that a restart without AOF would lose,
   whatever BGSAVE, SAVE and FLUSHALL did to the child meanwhile. *)
DirtyCountsUnsaved ==
    Len(srv.data) - Max({Len(disk.rdb), srv.loaded}) <= srv.dirty
=============================================================================
