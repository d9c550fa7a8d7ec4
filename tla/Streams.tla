------------------------------- MODULE Streams ------------------------------
(***************************************************************************)
(* The commands on streams (t_stream.c), and the service of the clients    *)
(* blocked on one (blocked.c).  A stream is the record                     *)
(*   nodes   the listpacks in order, each a sequence of the entries        *)
(*           [id, fields] it holds (those marked deleted are left out)     *)
(*   last    last_id, the top ID, which outlives its entry                 *)
(*   groups  the consumer groups: last, the last ID delivered; pel, the    *)
(*           pending entries, each with its consumer, delivery time and    *)
(*           count; consumers, the IDs in each consumer's own pending list *)
(* An ID is [ms, seq].  An ID argument may also lack its seq, be a symbol  *)
(* [sym |-> "*"], or be NULL, text that is no ID.                          *)
(***************************************************************************)
EXTENDS Keyspace

CONSTANTS
    SeqMax,                    \* the largest sequence part (2^64 - 1)
    StreamNodeMaxEntries       \* stream-node-max-entries

Stream(st) == [stream |-> st]
createStreamObject == Stream([nodes |-> <<>>, last |-> [ms |-> 0, seq |-> 0], groups |-> <<>>])

IDMin == [ms |-> 0, seq |-> 0]
IDMax == [ms |-> SeqMax, seq |-> SeqMax]

\* streamCompareID(a, b) < 0
IDLess(a, b) == a.ms < b.ms \/ (a.ms = b.ms /\ a.seq < b.seq)
IDLeq(a, b) == a = b \/ IDLess(a, b)

\* start.seq++ of an unsigned 64 bit number.
IDAfter(id) == [id EXCEPT !.seq = (@ + 1) % (SeqMax + 1)]

streamNextID(last, now) ==
    IF now > last.ms THEN [ms |-> now, seq |-> 0]
    ELSE [last EXCEPT !.seq = (@ + 1) % (SeqMax + 1)]

\* streamGenericParseIDOrReply: NULL when the argument is refused.
streamParseID(arg, missing_seq, strict) ==
    CASE "sym" \in DOMAIN arg ->
           IF strict \/ arg.sym \notin {"-", "+"} THEN NULL
           ELSE IF arg.sym = "-" THEN IDMin ELSE IDMax
      [] DOMAIN arg = {"ms"} -> [ms |-> arg.ms, seq |-> missing_seq]
      [] OTHER -> arg

streamParseStrictID(arg) == streamParseID(arg, 0, TRUE)

IsSym(arg, c) == "sym" \in DOMAIN arg /\ arg.sym = c

Entries(st) == FlattenSeq(st.nodes)
Length(st) == Len(Entries(st))
Sorted(ids) == SetToSortSeq(ids, IDLess)
HasEntry(st, id) == \E i \in DOMAIN Entries(st) : Entries(st)[i].id = id

\* There is no listpack yet, or the last one has more entries than allowed.
NeedsNode(st) ==
    \/ st.nodes = <<>>
    \/ Len(st.nodes[Len(st.nodes)]) > StreamNodeMaxEntries

\* The entry goes into the last listpack unless that one is full; a given ID
\* must be above the top one.
streamAppendItem(st, e) ==
    [st EXCEPT !.last = e.id,
               !.nodes = IF NeedsNode(st) THEN Append(@, <<e>>) ELSE [@ EXCEPT ![Len(@)] = Append(@, e)]]

\* Whole listpacks go while enough remain, then, unless the trim is
\* approximate, the oldest entries of the next one.
streamTrimByLength(st, maxlen, approx) ==
    LET total == Length(st)
        left(n) == total - Len(FlattenSeq(SubSeq(st.nodes, 1, n)))
        whole == CHOOSE n \in 0..Len(st.nodes) :
                   /\ n > 0 => left(n) >= maxlen
                   /\ n < Len(st.nodes) => left(n + 1) < maxlen \/ left(n) = maxlen
                   /\ \A m \in 1..(n - 1) : left(m) > maxlen
        rest == SubSeq(st.nodes, whole + 1, Len(st.nodes))
        cut == left(whole) - maxlen
    IN  IF total <= maxlen THEN st
        ELSE [st EXCEPT !.nodes =
                IF approx \/ cut = 0 THEN rest
                ELSE <<SubSeq(rest[1], cut + 1, Len(rest[1]))>> \o Tail(rest)]

\* streamDeleteItem and streamIteratorRemoveEntry: a listpack without entries
\* is removed.
streamDeleteItem(st, id) ==
    LET drop(node) == SelectSeq(node, LAMBDA e : e.id # id)
    IN  [st EXCEPT !.nodes = SelectSeq([i \in DOMAIN @ |-> drop(@[i])], LAMBDA node : node # <<>>)]

\* The entries an iterator from start to end visits, whichever listpack it
\* seeks first.
IteratedEntries(st, start, end, rev) ==
    LET in == SelectSeq(Entries(st), LAMBDA e : IDLeq(start, e.id) /\ IDLeq(e.id, end))
    IN  IF rev THEN Reverse(in) ELSE in

\* The entries the iterator returns, at most count of them unless count is 0.
RangeEntries(st, start, end, count, rev) ==
    LET q == IteratedEntries(st, start, end, rev)
    IN  IF count = 0 \/ count > Len(q) THEN q ELSE SubSeq(q, 1, count)

(***************************** consumer groups *****************************)

streamCreateCG(id) == [last |-> id, pel |-> <<>>, consumers |-> <<>>]

streamCreateNACK(consumer, now) == [consumer |-> consumer, time |-> now, count |-> 1]

\* streamLookupConsumer with create set.
streamLookupConsumer(g, name) ==
    IF name \in DOMAIN g.consumers THEN g ELSE [g EXCEPT !.consumers = (name :> {}) @@ @]

streamDelConsumer(g, name) ==
    LET ids == IF name \in DOMAIN g.consumers THEN g.consumers[name] ELSE {}
    IN  [g EXCEPT !.pel = [id \in DOMAIN @ \ ids |-> @[id]], !.consumers = Without(@, name)]

FaultyAssignNACK(g, id, nack) ==
    [g EXCEPT !.pel = (id :> nack) @@ @,
              !.consumers = [c \in DOMAIN @ |-> IF c = nack.consumer THEN @[c] \cup {id} ELSE @[c]]]

\* An entry is made pending for a consumer: the one that had it loses it.
AssignNACK(g, id, nack) ==
    [g EXCEPT !.pel = (id :> nack) @@ @,
              !.consumers = [c \in DOMAIN @ |->
                               IF c = nack.consumer THEN @[c] \cup {id} ELSE @[c] \ {id}]]

\* The acknowledgement of one ID.
RemoveNACK(g, id) ==
    [g EXCEPT !.pel = Without(@, id), !.consumers = [c \in DOMAIN @ |-> @[c] \ {id}]]

GroupIn(o, name) == o # NULL /\ name \in DOMAIN o.stream.groups

GroupOf(s, k, name) == KV(s)[k].stream.groups[name]
SetGroup(s, k, name, g) == dbOverwrite(s, k, Stream([KV(s)[k].stream EXCEPT !.groups[name] = g]))
FeedNow(s, argv) == [s EXCEPT !.fed = Append(@, <<s.cur, argv>>)]

streamPropagateXCLAIM(s, k, name, id) ==
    LET nack == GroupOf(s, k, name).pel[id]
    IN  FeedNow(s, <<"xclaim", k, name, nack.consumer, 0, <<id>>,
                     [time |-> nack.time, retrycount |-> nack.count, force |-> TRUE,
                      justid |-> TRUE, lastid |-> GroupOf(s, k, name).last]>>)

streamPropagateGroupID(s, k, name) ==
    FeedNow(s, <<"xgroup", "setid", k, name, GroupOf(s, k, name).last>>)


\* One entry is handed to a consumer r = [group, consumer, noack]: the group's
\* last ID moves up, and the entry becomes pending unless NOACK was given.
\* Both are propagated at once.
Deliver(s, k, e, r) ==
    LET g == GroupOf(s, k, r.group)
        moved == IDLess(g.last, e.id)
        g1 == IF moved THEN [g EXCEPT !.last = e.id] ELSE g
        s1 == SetGroup(s, k, r.group, g1)
    IN  IF ~r.noack
        THEN streamPropagateXCLAIM(SetGroup(s, k, r.group, AssignNACK(g1, e.id, streamCreateNACK(r.consumer, s.now))),
                                   k, r.group, e.id)
        ELSE IF moved THEN streamPropagateGroupID(s1, k, r.group) ELSE s1

\* New entries to a consumer of a group.
streamReplyWithRange(s, k, entries, r) ==
    FoldLeft(LAMBDA t, e : Deliver(t, k, e, r), s, entries)

\* The consumer's own pending entries from start on: those still in the stream
\* count one more delivery, which is not propagated.
streamReplyWithRangeFromConsumerPEL(s, k, start, count, r) ==
    LET g == GroupOf(s, k, r.group)
        all == Sorted({id \in g.consumers[r.consumer] : IDLeq(start, id)})
        ids == IF count = 0 \/ count > Len(all) THEN all ELSE SubSeq(all, 1, count)
        here == {id \in ToSet(ids) : HasEntry(KV(s)[k].stream, id)}
        pel == [id \in DOMAIN g.pel |->
                  IF id \in here THEN [g.pel[id] EXCEPT !.time = s.now, !.count = @ + 1] ELSE g.pel[id]]
    IN  <<SetGroup(s, k, r.group, [g EXCEPT !.pel = pel]), ids>>

(******************************** commands *********************************)

\* The stream to add to, created empty when the key is absent.
streamTypeLookupWriteOrCreate(s, k) ==
    LET s1 == expireIfNeeded(s, k)
    IN  IF dbExists(s1, k) THEN s1 ELSE dbAdd(s1, k, createStreamObject)

\* XADD of an entry to the stream st: maxlen is NULL or [n, approx].  The ID
\* given to the entry and the exact length of an approximate trim are what is
\* propagated.
AddEntry(s, k, st, maxlen, e) ==
    LET added == streamAppendItem(st, e)
        max(new) == IF maxlen = NULL \/ ~maxlen.approx THEN maxlen ELSE [n |-> Length(new), approx |-> FALSE]
        stored(new) == Rewrite(Dirty(signalModifiedKey(dbOverwrite(s, k, Stream(new)), k), 1),
                               <<"xadd", k, max(new), e.id, e.fields>>)
    IN  Reply(signalKeyAsReady(
                stored(IF maxlen = NULL THEN added ELSE streamTrimByLength(added, maxlen.n, maxlen.approx)), k),
              <<"id", e.id>>)

xaddCommand(s, k, maxlen, idarg, fields) ==
    LET given == ~IsSym(idarg, "*")
        s1 == streamTypeLookupWriteOrCreate(s, k)
        add(st, id) == IF given /\ IDLeq(id, st.last) THEN Reply(s1, Err("id too small"))
                       ELSE AddEntry(s1, k, st, maxlen, [id |-> id, fields |-> fields])
        run(o) == IF WrongType(o, "stream") THEN Reply(s1, Err("wrongtype"))
                  ELSE add(o.stream, IF given THEN streamParseStrictID(idarg) ELSE streamNextID(o.stream.last, s.now))
    IN  IF given /\ streamParseStrictID(idarg) = NULL THEN Reply(s, Err("invalid id"))
        ELSE run(lookupKey(s1, k))

xrangeGenericCommand(s, k, start, end, count, rev) ==
    LET o == lookupKeyRead(s, k)
        from == streamParseID(start, 0, FALSE)
        to == streamParseID(end, SeqMax, FALSE)
        q == RangeEntries(o.stream, from, to, IF count = -1 THEN 0 ELSE count, rev)
    IN  IF NULL \in {from, to} THEN Reply(s, Err("invalid id"))
        ELSE Reply(expireIfNeeded(s, k),
                   IF o = NULL THEN Multi(<<>>)
                   ELSE IF WrongType(o, "stream") THEN Err("wrongtype")
                   ELSE IF count = 0 THEN Nil ELSE Multi(q))

xlenCommand(s, k) ==
    LET o == lookupKeyRead(s, k)
    IN  Reply(expireIfNeeded(s, k),
              IF o = NULL THEN Num(0) ELSE IF WrongType(o, "stream") THEN Err("wrongtype")
              ELSE Num(Length(o.stream)))

\* The starting point an ID argument of XREAD names, in a key that holds o;
\* ">" is the top ID of all, which no entry has.
ReadFrom(o, arg) ==
    CASE IsSym(arg, "$") -> IF o = NULL THEN IDMin ELSE o.stream.last
      [] IsSym(arg, ">") -> IDMax
      [] OTHER -> streamParseStrictID(arg)

\* A key of XREAD or XREADGROUP cannot be read at the ID given.
ReadFails(o, arg, group) ==
    \/ WrongType(o, "stream")
    \/ group # NULL /\ ~GroupIn(o, group.group)
    \/ IsSym(arg, IF group # NULL THEN "$" ELSE ">")
    \/ ReadFrom(o, arg) = NULL

WithConsumer(s, k, group) ==
    SetGroup(s, k, group.group, streamLookupConsumer(GroupOf(s, k, group.group), group.consumer))

\* What one key adds to acc, the server and the reply so far: new entries
\* after gt, which a group delivers, or the history of a consumer.
ReadAfter(acc, k, st, gt, count, group, history) ==
    LET q == RangeEntries(st, IDAfter(gt), IDMax, count, FALSE)
        put(t, entries) == <<t, Append(acc[2], <<k, entries>>)>>
        both(pair) == put(Dirty(pair[1], 1), pair[2])
    IN  IF ~history /\ ~(Length(st) > 0 /\ IDLess(gt, st.last)) THEN acc
        ELSE IF group = NULL THEN put(acc[1], q)
        ELSE IF history
        THEN both(streamReplyWithRangeFromConsumerPEL(WithConsumer(acc[1], k, group), k, IDAfter(gt), count, group))
        ELSE put(Dirty(streamReplyWithRange(WithConsumer(acc[1], k, group), k, q, group), 1), q)

ReadKey(acc, k, id, o, count, group) ==
    IF o = NULL THEN acc
    ELSE ReadAfter(acc, k, o.stream, IF group # NULL /\ id = IDMax THEN o.stream.groups[group.group].last ELSE id,
                   count, group, group # NULL /\ id # IDMax)

quiet(s) == [s EXCEPT !.prevent = TRUE]

\* XREAD (group NULL) and XREADGROUP of keys at the IDs given; block says
\* whether BLOCK was given.  Never propagated as it is.
xreadCommand(s, keys, args, count, group, block) ==
    LET id(i) == ReadFrom(lookupKeyRead(LookedUp(s, keys), keys[i]), args[i])
        first(k) == CHOOSE i \in DOMAIN keys : keys[i] = k /\ \A j \in DOMAIN keys : keys[j] = k => i <= j
        end(r) == IF r[2] # <<>> THEN Reply(quiet(r[1]), Multi(r[2]))
                  ELSE IF ~block \/ s.multi THEN Reply(quiet(r[1]), Nil)
                  ELSE [quiet(r[1]) EXCEPT !.block =
                          [btype |-> "stream", keys |-> ToSet(keys), group |-> group, count |-> count,
                           ids |-> [k \in ToSet(keys) |-> id(first(k))]]]
    IN  IF \E i \in DOMAIN keys : ReadFails(lookupKeyRead(LookedUp(s, keys), keys[i]), args[i], group)
        THEN Reply(quiet(LookedUp(s, keys)), Err("xread"))
        ELSE end(FoldLeft(LAMBDA acc, i : ReadKey(acc, keys[i], id(i), lookupKeyRead(acc[1], keys[i]), count, group),
                          <<LookedUp(s, keys), <<>>>>, [i \in DOMAIN keys |-> i]))

\* XGROUP CREATE, SETID, DESTROY and DELCONSUMER; mkstream for CREATE only.
\* None of them signals the key.
xgroupCommand(s, opt, k, name, arg, mkstream) ==
    LET s1 == expireIfNeeded(s, k)
        o == lookupKey(s1, k)
        id == CASE IsSym(arg, "$") -> IF o = NULL THEN IDMin ELSE o.stream.last
                [] opt = "setid" -> streamParseID(arg, 0, FALSE)
                [] OTHER -> streamParseStrictID(arg)
        s2 == IF o = NULL THEN dbAdd(s1, k, createStreamObject) ELSE s1
        st == KV(s2)[k].stream
        put(gs) == Dirty(dbOverwrite(s2, k, Stream([st EXCEPT !.groups = gs])), 1)
    IN  IF WrongType(o, "stream") THEN Reply(s1, Err("wrongtype"))
        ELSE IF o = NULL /\ ~mkstream THEN Reply(s1, Err("key required"))
        ELSE IF ~GroupIn(o, name) /\ opt = "setid" THEN Reply(s1, Err("nogroup"))
        ELSE IF opt \in {"create", "setid"} /\ id = NULL THEN Reply(s1, Err("invalid id"))
        ELSE IF opt = "create" /\ GroupIn(o, name) THEN Reply(s1, Err("busygroup"))
        ELSE IF opt = "create" THEN Reply(put((name :> streamCreateCG(id)) @@ st.groups), Ok)
        ELSE IF opt = "setid" THEN Reply(put([st.groups EXCEPT ![name].last = id]), Ok)
        ELSE IF ~GroupIn(o, name) THEN Reply(s1, Num(0))
        ELSE Reply(put(Without(st.groups, name)), Num(1))

\* XGROUP DELCONSUMER: counted even when the consumer is not there.
xgroupDelConsumer(s, k, name, consumer) ==
    LET s1 == expireIfNeeded(s, k)
        o == lookupKey(s1, k)
        g == GroupOf(s1, k, name)
    IN  IF WrongType(o, "stream") THEN Reply(s1, Err("wrongtype"))
        ELSE IF o = NULL THEN Reply(s1, Err("key required"))
        ELSE IF ~GroupIn(o, name) THEN Reply(s1, Err("nogroup"))
        ELSE Reply(Dirty(SetGroup(s1, k, name, streamDelConsumer(g, consumer)), 1),
                   Num(Cardinality(DOMAIN g.pel) - Cardinality(DOMAIN streamDelConsumer(g, consumer).pel)))

xsetidCommand(s, k, arg) ==
    LET s1 == expireIfNeeded(s, k)
        o == lookupKey(s1, k)
        id == streamParseStrictID(arg)
    IN  IF o = NULL THEN Reply(s1, Err("nokey"))
        ELSE IF WrongType(o, "stream") THEN Reply(s1, Err("wrongtype"))
        ELSE IF id = NULL THEN Reply(s1, Err("invalid id"))
        ELSE IF Length(o.stream) > 0 /\ IDLess(id, Last(Entries(o.stream)).id)
        THEN Reply(s1, Err("id too small"))
        ELSE Reply(Dirty(dbOverwrite(s1, k, Stream([o.stream EXCEPT !.last = id])), 1), Ok)

\* XACK acknowledges one ID after the other, and stops with an error at the
\* first that is no ID: those before it stay acknowledged.
xackCommand(s, k, name, args) ==
    LET o == lookupKeyRead(s, k)
        s1 == expireIfNeeded(s, k)
        ids == [i \in DOMAIN args |-> streamParseStrictID(args[i])]
        bad == SelectInSeq(ids, LAMBDA id : id = NULL)
        g == GroupOf(s1, k, name)
        done == DOMAIN g.pel \cap ToSet(SubSeq(ids, 1, IF bad = 0 THEN Len(ids) ELSE bad - 1))
        s2 == SetGroup(s1, k, name, FoldLeft(RemoveNACK, g, Sorted(done)))
        n == Cardinality(done)
    IN  IF WrongType(o, "stream") THEN Reply(s1, Err("wrongtype"))
        ELSE IF ~GroupIn(o, name) THEN Reply(s1, Num(0))
        ELSE Reply(Dirty(s2, n), IF bad = 0 THEN Num(n) ELSE Err("invalid id"))

\* XPENDING: the summary (range NULL), or the pending entries of the group or
\* of one consumer in a range [start, end, count].
xpendingCommand(s, k, name, range, consumer) ==
    LET o == lookupKeyRead(s, k)
        g == o.stream.groups[name]
        from == streamParseID(range.start, 0, FALSE)
        to == streamParseID(range.end, SeqMax, FALSE)
        ids == IF consumer = NULL THEN DOMAIN g.pel
               ELSE IF consumer.name \in DOMAIN g.consumers THEN g.consumers[consumer.name] ELSE {}
        q == Sorted({id \in ids : IDLeq(from, id) /\ IDLeq(id, to)})
        shown == SubSeq(q, 1, IF range.count < Len(q) THEN range.count ELSE Len(q))
        elapsed(id) == IF s.now < g.pel[id].time THEN 0 ELSE s.now - g.pel[id].time
        busy == {c \in DOMAIN g.consumers : g.consumers[c] # {}}
    IN  IF range # NULL /\ NULL \in {from, to} THEN Reply(s, Err("invalid id"))
        ELSE Reply(expireIfNeeded(s, k),
              IF WrongType(o, "stream") THEN Err("wrongtype")
              ELSE IF ~GroupIn(o, name) THEN Err("nogroup")
              ELSE IF range = NULL
              THEN Multi(<<Cardinality(DOMAIN g.pel), [c \in busy |-> Cardinality(g.consumers[c])]>>)
              ELSE Multi([i \in DOMAIN shown |->
                            <<shown[i], g.pel[shown[i]].consumer, elapsed(shown[i]), g.pel[shown[i]].count>>]))

\* The options of XCLAIM: the delivery time asked for by TIME or IDLE, the time
\* of the call when there is none or it makes no sense.
ClaimTime(s, opts) ==
    LET given == CASE "time" \in DOMAIN opts -> opts.time
                   [] "time" \notin DOMAIN opts /\ "idle" \in DOMAIN opts -> s.now - opts.idle
                   [] OTHER -> -1
    IN  IF given < 0 \/ given > s.now THEN s.now ELSE given

\* One ID of XCLAIM.  acc is the server and the IDs claimed so far; FORCE makes
\* an entry of the stream pending first.  Each claim is propagated by itself,
\* with the outcome.
ClaimEntry(acc, k, name, consumer, minidle, id, opts) ==
    LET Has(x) == x \in DOMAIN opts
        t == acc[1]
        g == GroupOf(t, k, name)
        known == id \in DOMAIN g.pel
        forced == ~known /\ Has("force") /\ HasEntry(KV(t)[k].stream, id)
        count == IF known THEN g.pel[id].count ELSE 1
        nack == [consumer |-> consumer, time |-> ClaimTime(t, opts),
                 count |-> IF Has("retrycount") /\ opts.retrycount >= 0 THEN opts.retrycount
                           ELSE IF Has("justid") THEN count ELSE count + 1]
    IN  IF ~known /\ ~forced THEN acc
        ELSE IF known /\ minidle > 0 /\ t.now - g.pel[id].time < minidle THEN acc
        ELSE <<Dirty(streamPropagateXCLAIM(SetGroup(t, k, name, AssignNACK(g, id, nack)), k, name, id), 1),
               Append(acc[2], id)>>

\* XCLAIM: pending entries that were idle long enough change hands; LASTID alone
\* moves the group on.
xclaimCommand(s, k, name, consumer, minidle, ids, opts) ==
    LET o == lookupKeyRead(s, k)
        s1 == expireIfNeeded(s, k)
        g0 == GroupOf(s1, k, name)
        moved == "lastid" \in DOMAIN opts /\ IDLess(g0.last, opts.lastid)
        s2 == SetGroup(s1, k, name, streamLookupConsumer(IF moved THEN [g0 EXCEPT !.last = opts.lastid] ELSE g0, consumer))
        r == FoldLeft(LAMBDA acc, id : ClaimEntry(acc, k, name, consumer, minidle, id, opts), <<s2, <<>>>>, ids)
        s3 == IF moved /\ r[2] = <<>> THEN Dirty(streamPropagateGroupID(r[1], k, name), 1) ELSE r[1]
    IN  IF WrongType(o, "stream") THEN Reply(s1, Err("wrongtype"))
        ELSE IF ~GroupIn(o, name) THEN Reply(s1, Err("nogroup"))
        ELSE Reply([s3 EXCEPT !.prevent = TRUE], Multi(r[2]))

\* XDEL checks every ID before it deletes any.
xdelCommand(s, k, args) ==
    LET s1 == expireIfNeeded(s, k)
        o == lookupKey(s1, k)
        ids == [i \in DOMAIN args |-> streamParseStrictID(args[i])]
        new == FoldLeft(streamDeleteItem, o.stream, ids)
        n == Length(o.stream) - Length(new)
    IN  IF o = NULL THEN Reply(s1, Num(0))
        ELSE IF WrongType(o, "stream") THEN Reply(s1, Err("wrongtype"))
        ELSE IF NULL \in ToSet(ids) THEN Reply(s1, Err("invalid id"))
        ELSE IF n = 0 THEN Reply(s1, Num(0))
        ELSE Reply(Dirty(signalModifiedKey(dbOverwrite(s1, k, Stream(new)), k), n), Num(n))


\* A trim that removed entries; an approximate one is propagated with the
\* length it left (streamRewriteApproxMaxlen).
Trimmed(s, k, old, new, maxlen) ==
    LET s1 == Dirty(signalModifiedKey(dbOverwrite(s, k, Stream(new)), k), Length(old) - Length(new))
    IN  Reply(IF maxlen.approx THEN Rewrite(s1, <<"xtrim", k, [n |-> Length(new), approx |-> FALSE]>>) ELSE s1,
              Num(Length(old) - Length(new)))

xtrimCommand(s, k, maxlen) ==
    LET s1 == expireIfNeeded(s, k)
        o == lookupKey(s1, k)
        trim(old, new) == IF new = old THEN Reply(s1, Num(0)) ELSE Trimmed(s1, k, old, new, maxlen)
    IN  IF o = NULL THEN Reply(s1, Num(0))
        ELSE IF WrongType(o, "stream") THEN Reply(s1, Err("wrongtype"))
        ELSE trim(o.stream, streamTrimByLength(o.stream, maxlen.n, maxlen.approx))

\* XINFO STREAM and XINFO GROUPS (opt), XINFO CONSUMERS of a group.
xinfoCommand(s, opt, k, name) ==
    LET s1 == expireIfNeeded(s, k)
        o == lookupKey(s1, k)
        st == o.stream
        info(g) == <<Cardinality(DOMAIN g.consumers), Cardinality(DOMAIN g.pel), g.last>>
    IN  IF o = NULL THEN Reply(s1, Err("nokey"))
        ELSE IF WrongType(o, "stream") THEN Reply(s1, Err("wrongtype"))
        ELSE IF opt = "stream"
        THEN Reply(s1, Multi(<<Length(st), Len(st.nodes), Cardinality(DOMAIN st.groups), st.last,
                               RangeEntries(st, IDMin, IDMax, 1, FALSE), RangeEntries(st, IDMin, IDMax, 1, TRUE)>>))
        ELSE IF opt = "groups" THEN Reply(s1, Multi([n \in DOMAIN st.groups |-> info(st.groups[n])]))
        ELSE IF ~GroupIn(o, name) THEN Reply(s1, Err("nogroup"))
        ELSE Reply(s1, Multi([c \in DOMAIN st.groups[name].consumers |->
                                Cardinality(st.groups[name].consumers[c])]))

\* Whether a client blocked on the stream at key is served now, and how.
StreamServes(s, key, b) ==
    LET st == KV(s)[key].stream
        gone == b.group # NULL /\ b.group.group \notin DOMAIN st.groups
    IN  gone \/ IDLess(IF b.group = NULL THEN b.ids[key] ELSE st.groups[b.group.group].last, st.last)

serveClientBlockedOnStream(s, key, b) ==
    LET st == KV(s)[key].stream
        gt == IF b.group = NULL THEN b.ids[key] ELSE st.groups[b.group.group].last
        q == RangeEntries(st, IDAfter(gt), IDMax, IF b.count = 0 THEN 1000 ELSE b.count, FALSE)
        s1 == SetGroup(s, key, b.group.group, streamLookupConsumer(GroupOf(s, key, b.group.group), b.group.consumer))
    IN  IF b.group = NULL THEN Reply(s, Multi(<<<<key, q>>>>))
        ELSE IF b.group.group \notin DOMAIN st.groups THEN Reply(s, Err("nogroup"))
        ELSE Reply(streamReplyWithRange(s1, key, q, b.group), Multi(<<<<key, q>>>>))
=============================================================================
