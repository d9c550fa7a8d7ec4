------------------------------ MODULE Clients ------------------------------
(***************************************************************************)
(* The connections of a Redis server and the event loop that serves them: *)
(* the query buffer and its two request formats, the reply buffers (a      *)
(* static one and a list of blocks), the lists of clients waiting to be    *)
(* written, resumed or closed, Pub/Sub, blocking commands, CLIENT PAUSE,   *)
(* KILL, UNBLOCK and REPLY, and a script that runs past its time limit and *)
(* lets the loop serve the other clients meanwhile (networking.c,          *)
(* pubsub.c, blocked.c, ae.c and the parts of server.c that call them).    *)
(*                                                                         *)
(* A peer sends segments of units.  A unit is one line of a request or one *)
(* argument; eol says whether its line end came with it or follows as a    *)
(* unit of its own ("nl"), so a read may stop anywhere in a request.       *)
(* Reply text is a sequence of units of the size the buffers count.        *)
(***************************************************************************)
EXTENDS Integers, Sequences, FiniteSets, SequencesExt, FiniteSetsExt, TLC

CONSTANTS
    Conns,         \* the peers that may connect, each at most once
    Channels,      \* Pub/Sub channels
    Keys,          \* the lists BLPOP waits for
    None,
    Scenarios,     \* what the peers send and how the server is configured
    BufSize,       \* sizeof(c->buf), in units
    Chunk,         \* PROTO_REPLY_CHUNK_BYTES, in units
    QueryLimit     \* client-query-buffer-limit, in units

VARIABLES
    s,      \* the server: clients and the lists that refer to them
    loop,   \* where the event loop is
    net,    \* [Conns -> segments the peer has still to send]
    eof,    \* the peers that closed their side
    sc      \* the scenario, constant in a behaviour

vars == <<s, loop, net, eof, sc>>

-----------------------------------------------------------------------------
(* Clients.  buf and the units of list are what was added to the reply     *)
(* buffers; the first sent units of the first of them are written.  ran,   *)
(* owed and got are history: the requests executed, the units added, and   *)
(* the units the peer received.                                            *)

NoClient ==
    [st |-> "new", fl |-> {}, q |-> <<>>, req |-> "none", mblen |-> 0,
     bulk |-> FALSE, argv |-> <<>>, buf |-> <<>>, list |-> <<>>, sent |-> 0,
     bytes |-> 0, soft |-> 0, chans |-> {}, pats |-> <<>>, key |-> None,
     timeout |-> 0, last |-> 0, rd |-> FALSE, wr |-> FALSE,
     ran |-> <<>>, owed |-> <<>>, got |-> <<>>, cut |-> FALSE]

Server ==
    [cl |-> [c \in Conns |-> NoClient], order |-> <<>>, pend |-> <<>>,
     unbl |-> <<>>, close |-> <<>>,
     chan |-> [h \in Channels |-> <<>>], pats |-> <<>>,
     paused |-> FALSE, until |-> 0, mstime |-> 1, now |-> 1, cur |-> None,
     lua |-> None, kill |-> FALSE,
     keys |-> [k \in Keys |-> 0], wait |-> [k \in Keys |-> <<>>]]

Has(z, c, f) == f \in z.cl[c].fl
Flag(z, c, f) == [z EXCEPT !.cl[c].fl = @ \cup {f}]
Clear(z, c, f) == [z EXCEPT !.cl[c].fl = @ \ {f}]

linkClient(z, c) == [z EXCEPT !.order = Append(@, c)]

createClient(z, c) ==
    linkClient([z EXCEPT !.cl[c] =
        [NoClient EXCEPT !.st = "open", !.rd = TRUE, !.last = z.now]], c)

lookupClientByID(z, c) == c \in Conns /\ z.cl[c].st = "open"

clientHasPendingReplies(r) == r.buf # <<>> \/ r.list # <<>>

clientInstallWriteHandler(z, c) ==
    IF Has(z, c, "pendingwrite") THEN z
    ELSE [Flag(z, c, "pendingwrite") EXCEPT !.pend = <<c>> \o @]

prepareClientToWrite(z, c) == ~Has(z, c, "off") /\ ~Has(z, c, "skip")

-----------------------------------------------------------------------------
(* Output buffer limits.                                                   *)

getClientType(r) == IF "pubsub" \in r.fl THEN "pubsub" ELSE "normal"

getClientOutputBufferMemoryUsage(r) == r.bytes + Len(r.list)

freeClientAsync(z, c) ==
    IF Has(z, c, "closeasap") THEN z
    ELSE [Flag(z, c, "closeasap") EXCEPT !.close = Append(@, c)]

\* The class' limits: hard, soft and for how long soft may last; 0 is none.
checkClientOutputBufferLimits(z, c, lim) ==
    LET used == getClientOutputBufferMemoryUsage(z.cl[c])
        over == lim.soft # 0 /\ used >= lim.soft
    IN  [soft |-> IF ~over THEN 0
                  ELSE IF z.cl[c].soft = 0 THEN z.now ELSE z.cl[c].soft,
         reached |-> \/ lim.hard # 0 /\ used >= lim.hard
                     \/ /\ over /\ z.cl[c].soft # 0
                        /\ z.now - z.cl[c].soft > lim.seconds]

CloseIfReached(z, c, v) ==
    IF v.reached THEN freeClientAsync([z EXCEPT !.cl[c].soft = v.soft], c)
    ELSE [z EXCEPT !.cl[c].soft = v.soft]

asyncCloseClientOnOutputBufferLimitReached(z, c) ==
    IF z.cl[c].bytes = 0 \/ Has(z, c, "closeasap") THEN z
    ELSE CloseIfReached(z, c, checkClientOutputBufferLimits(z, c,
                                sc.limits[getClientType(z.cl[c])]))

-----------------------------------------------------------------------------
(* Adding to the reply buffers.                                            *)

FaultyAddReplyToBuffer(r, u) ==
    Len(u) <= BufSize - Len(r.buf)

\* Whether the static buffer takes u: never behind a list that has blocks.
_addReplyToBuffer(r, u) ==
    /\ r.list = <<>>
    /\ Len(u) <= BufSize - Len(r.buf)

\* A block is [size, units]; a deferred length is a block of size 0 for now.
_addReplyStringToList(z, c, u) ==
    LET list == z.cl[c].list
        room == IF list = <<>> THEN 0
                ELSE Last(list).size - Len(Last(list).units)
        copy == Min({room, Len(u)})
        rest == SubSeq(u, copy + 1, Len(u))
        size == Max({Chunk, Len(rest)})
        fill == IF copy = 0 THEN list
                ELSE Front(list) \o
                     <<[Last(list) EXCEPT !.units = @ \o SubSeq(u, 1, copy)]>>
    IN  asyncCloseClientOnOutputBufferLimitReached(
          IF rest = <<>> THEN [z EXCEPT !.cl[c].list = fill]
          ELSE [z EXCEPT
                 !.cl[c].list = Append(fill, [size |-> size, units |-> rest]),
                 !.cl[c].bytes = @ + size], c)

\* The size of a bulk: "big" is larger than a block.
Units(w) == IF w = "big" THEN <<"big1", "big2", "big3">> ELSE <<w>>

Installed(z, c) == IF clientHasPendingReplies(z.cl[c]) THEN z
                   ELSE clientInstallWriteHandler(z, c)

Added(z, c, u) ==
    IF Has(z, c, "closeafter") THEN z
    ELSE IF _addReplyToBuffer(z.cl[c], u)
    THEN [z EXCEPT !.cl[c].buf = @ \o u, !.cl[c].owed = @ \o u]
    ELSE _addReplyStringToList([z EXCEPT !.cl[c].owed = @ \o u], c, u)

addReplyString(z, c, u) ==
    IF ~prepareClientToWrite(z, c) THEN z ELSE Added(Installed(z, c), c, u)

addReply(z, c, w) == addReplyString(z, c, Units(w))

\* A reply made of several parts, each added by a call of its own.
addReplies(z, c, ws) == FoldLeft(LAMBDA y, w : addReply(y, c, w), z, ws)

addReplyLongLong(z, c, n) == addReply(z, c, ToString(n))

\* The error text goes out in three calls: the code, the message, the line end.
addReplyError(z, c, w) == addReplies(z, c, <<"-", w, "nl">>)

addDeferredMultiBulkLength(z, c) ==
    IF ~prepareClientToWrite(z, c) THEN z
    ELSE [Installed(z, c) EXCEPT !.cl[c].list = Append(@, [size |-> 0, units |-> <<>>])]

\* at: the position of the placeholder in the list, 0 when there is none; the
\* length joins the next block when that has room, else fills a block itself.
setDeferredMultiBulkLength(z, c, at, n) ==
    IF at = 0 THEN z
    ELSE LET list == z.cl[c].list
             u == <<ToString(n)>>
             joins == /\ at < Len(list)
                      /\ list[at + 1].size - Len(list[at + 1].units) >= 1
             y == IF joins
                  THEN [z EXCEPT !.cl[c].list =
                         SubSeq(list, 1, at - 1)
                         \o <<[list[at + 1] EXCEPT !.units = u \o @]>>
                         \o SubSeq(list, at + 2, Len(list))]
                  ELSE [z EXCEPT
                         !.cl[c].list = ReplaceAt(list, at,
                                                  [size |-> 1, units |-> u]),
                         !.cl[c].bytes = @ + 1]
         IN  asyncCloseClientOnOutputBufferLimitReached(y, c)

-----------------------------------------------------------------------------
(* Pub/Sub.  A client's subscriptions are kept twice: with the client, and *)
(* in the server's map of channels and list of patterns.                   *)

clientSubscriptionsCount(r) == Cardinality(r.chans) + Len(r.pats)

Without(q, x) == SelectSeq(q, LAMBDA y : y # x)

stringmatchlen(pat, h) == pat = "*" \/ pat = h

\* The answer to a change of subscription: what, to what, and how many are left.
Notify(z, c, what, name) ==
    addReplies(z, c, <<what, name, ToString(clientSubscriptionsCount(z.cl[c]))>>)

pubsubSubscribeChannel(z, c, h) ==
    Notify(IF h \in z.cl[c].chans THEN z
           ELSE [z EXCEPT !.cl[c].chans = @ \cup {h}, !.chan[h] = Append(@, c)],
           c, "subscribe", h)

DropChannel(z, c, h) ==
    IF h \notin z.cl[c].chans THEN z
    ELSE [z EXCEPT !.cl[c].chans = @ \ {h}, !.chan[h] = Without(@, c)]

pubsubUnsubscribeChannel(z, c, h) ==
    Notify(DropChannel(z, c, h), c, "unsubscribe", h)

pubsubSubscribePattern(z, c, p) ==
    Notify(IF p \in ToSet(z.cl[c].pats) THEN z
           ELSE [z EXCEPT !.cl[c].pats = Append(@, p),
                          !.pats = Append(@, <<p, c>>)],
           c, "psubscribe", p)

DropPattern(z, c, p) ==
    IF p \notin ToSet(z.cl[c].pats) THEN z
    ELSE [z EXCEPT !.cl[c].pats = Without(@, p), !.pats = Without(@, <<p, c>>)]

pubsubUnsubscribePattern(z, c, p) ==
    Notify(DropPattern(z, c, p), c, "punsubscribe", p)

\* Without subscriptions there is still one answer.
pubsubUnsubscribeAllChannels(z, c) ==
    IF z.cl[c].chans = {} THEN Notify(z, c, "unsubscribe", "nil")
    ELSE FoldLeft(LAMBDA y, h : pubsubUnsubscribeChannel(y, c, h),
                  z, SetToSeq(z.cl[c].chans))

pubsubUnsubscribeAllPatterns(z, c) ==
    IF z.cl[c].pats = <<>> THEN Notify(z, c, "punsubscribe", "nil")
    ELSE FoldLeft(LAMBDA y, p : pubsubUnsubscribePattern(y, c, p),
                  z, z.cl[c].pats)

\* Subscribers of the channel first, then the patterns that match it.
pubsubPublishMessage(z, h, m) ==
    LET matching == SelectSeq(z.pats, LAMBDA p : stringmatchlen(p[1], h))
    IN  FoldLeft(LAMBDA y, p : addReplies(y, p[2], <<"pmessage", p[1], h, m>>),
          FoldLeft(LAMBDA y, c : addReplies(y, c, <<"message", h, m>>),
                   z, z.chan[h]),
          matching)

Args(argv) == SubSeq(argv, 2, Len(argv))

subscribeCommand(z, c, argv) ==
    Flag(FoldLeft(LAMBDA y, h : pubsubSubscribeChannel(y, c, h), z, Args(argv)),
         c, "pubsub")

Unsubscribed(z, c) ==
    IF clientSubscriptionsCount(z.cl[c]) = 0 THEN Clear(z, c, "pubsub") ELSE z

unsubscribeCommand(z, c, argv) ==
    Unsubscribed(
      IF Len(argv) = 1 THEN pubsubUnsubscribeAllChannels(z, c)
      ELSE FoldLeft(LAMBDA y, h : pubsubUnsubscribeChannel(y, c, h),
                    z, Args(argv)), c)

psubscribeCommand(z, c, argv) ==
    Flag(FoldLeft(LAMBDA y, p : pubsubSubscribePattern(y, c, p), z, Args(argv)),
         c, "pubsub")

punsubscribeCommand(z, c, argv) ==
    Unsubscribed(
      IF Len(argv) = 1 THEN pubsubUnsubscribeAllPatterns(z, c)
      ELSE FoldLeft(LAMBDA y, p : pubsubUnsubscribePattern(y, c, p),
                    z, Args(argv)), c)

publishCommand(z, c, argv) ==
    LET receivers == Len(z.chan[argv[2]])
            + Len(SelectSeq(z.pats, LAMBDA p : stringmatchlen(p[1], argv[2])))
    IN  addReplyLongLong(pubsubPublishMessage(z, argv[2], argv[3]), c, receivers)

\* CHANNELS answers before it knows how many there are.
DeferredReplies(z, c, ws) ==
    LET at == IF prepareClientToWrite(z, c) THEN Len(z.cl[c].list) + 1 ELSE 0
        before == Len(z.cl[c].owed)
    IN  [setDeferredMultiBulkLength(
           addReplies(addDeferredMultiBulkLength(z, c), c, ws),
           c, at, Len(ws)) EXCEPT !.cl[c].owed =
             IF at = 0 THEN @
             ELSE SubSeq(@, 1, before) \o <<ToString(Len(ws))>>
                  \o SubSeq(@, before + 1, Len(@))]

pubsubChannels(z, c) ==
    DeferredReplies(z, c, SetToSeq({h \in Channels : z.chan[h] # <<>>}))

pubsubCommand(z, c, argv) ==
    CASE argv[2] = "channels" -> pubsubChannels(z, c)
      [] argv[2] = "numsub" ->
           addReplies(z, c, FlattenSeq([i \in 1 .. Len(argv) - 2 |->
             <<argv[i + 2], ToString(Len(z.chan[argv[i + 2]]))>>]))
      [] argv[2] = "numpat" -> addReplyLongLong(z, c, Len(z.pats))
      [] OTHER -> addReplyError(z, c, "syntax")

-----------------------------------------------------------------------------
(* Blocking, and the queue of the clients to resume.                       *)

queueClientForReprocessing(z, c) ==
    IF Has(z, c, "unblocked") THEN z
    ELSE [Flag(z, c, "unblocked") EXCEPT !.unbl = Append(@, c)]

blockClient(z, c, k, t) ==
    [Flag(z, c, "blocked") EXCEPT !.cl[c].key = k, !.cl[c].timeout = t,
                                  !.wait[k] = Append(@, c)]

unblockClient(z, c) ==
    LET k == z.cl[c].key
    IN  queueClientForReprocessing(
          [Clear(z, c, "blocked") EXCEPT !.cl[c].key = None,
                                         !.cl[c].timeout = 0,
                                         !.wait[k] = Without(@, c)], c)

replyToBlockedClientTimedOut(z, c) == addReply(z, c, "nil")

getTimeoutFromObjectOrReply(z, t) == IF t = 0 THEN 0 ELSE z.now + t

\* A push wakes the first client that waits for the key.
handleClientsBlockedOnKeys(z, k) ==
    IF z.wait[k] = <<>> \/ z.keys[k] = 0 THEN z
    ELSE LET c == Head(z.wait[k])
         IN  unblockClient(addReply([z EXCEPT !.keys[k] = @ - 1], c, k), c)

blpopCommand(z, c, k, t) ==
    IF z.keys[k] > 0 THEN addReply([z EXCEPT !.keys[k] = @ - 1], c, k)
    ELSE blockClient(z, c, k, getTimeoutFromObjectOrReply(z, t))

rpushCommand(z, c, k) ==
    handleClientsBlockedOnKeys(
      addReplyLongLong([z EXCEPT !.keys[k] = @ + 1], c, z.keys[k] + 1), k)

\* The server becomes a replica: whoever waits for data is told and let go.
disconnectAllBlockedClients(z) ==
    FoldLeft(LAMBDA y, c :
               IF Has(y, c, "blocked")
               THEN Flag(unblockClient(addReply(y, c, "UNBLOCKED"), c),
                         c, "closeafter")
               ELSE y, z, z.order)

-----------------------------------------------------------------------------
(* The end of a client.                                                    *)

FaultyUnlinkClient(z, c) ==
    LET f == z.cl[c].fl
    IN  [z EXCEPT
          !.cur = IF @ = c THEN None ELSE @,
          !.order = Without(@, c),
          !.pend = IF "pendingwrite" \in f THEN Without(@, c) ELSE @]

unlinkClient(z, c) ==
    LET f == z.cl[c].fl
    IN  [z EXCEPT
          !.cur = IF @ = c THEN None ELSE @,
          !.order = Without(@, c),
          !.pend = IF "pendingwrite" \in f THEN Without(@, c) ELSE @,
          !.unbl = IF "unblocked" \in f THEN Without(@, c) ELSE @]

\* Never under a running script that this client called.
freeClient(z, c) ==
    IF Has(z, c, "protected") THEN freeClientAsync(z, c)
    ELSE LET drops(y) == FoldLeft(LAMBDA x, p : DropPattern(x, c, p),
                           FoldLeft(LAMBDA x, h : DropChannel(x, c, h),
                                    y, SetToSeq(y.cl[c].chans)),
                           y.cl[c].pats)
         IN  [unlinkClient(drops(IF Has(z, c, "blocked") THEN unblockClient(z, c)
                                 ELSE z), c)
              EXCEPT !.close = IF Has(z, c, "closeasap") THEN Without(@, c) ELSE @,
                     !.cl[c] = [NoClient EXCEPT !.st = "gone"]]

RECURSIVE freeClientsInAsyncFreeQueue(_)
freeClientsInAsyncFreeQueue(z) ==
    IF z.close = <<>> THEN z
    ELSE LET c == Head(z.close)
         IN  freeClientsInAsyncFreeQueue(
               [freeClient(Clear(z, c, "closeasap"), c) EXCEPT
                  !.close = Tail(@)])

-----------------------------------------------------------------------------
(* Writing.  The socket takes room units; None is a write error.           *)

RECURSIVE Written(_, _)
Written(r, room) ==
    IF room = 0 \/ ~clientHasPendingReplies(r) THEN r
    ELSE LET static == r.buf # <<>>
             u == IF static THEN r.buf ELSE Head(r.list).units
             n == Min({room, Len(u) - r.sent})
             w == [r EXCEPT !.got = @ \o SubSeq(u, r.sent + 1, r.sent + n),
                            !.sent = @ + n]
         IN  IF w.sent < Len(u) THEN w
             ELSE Written(
                    IF static THEN [w EXCEPT !.buf = <<>>, !.sent = 0]
                    ELSE [w EXCEPT !.list = Tail(@), !.sent = 0,
                                   !.bytes = @ - Head(r.list).size],
                    room - n)

\* After the writes: everything sent removes the handler or closes.
Sent(z, c, r, failed) ==
    IF failed \/ (~clientHasPendingReplies(r) /\ "closeafter" \in r.fl)
    THEN freeClient(z, c)
    ELSE [z EXCEPT !.cl[c] =
            [r EXCEPT !.last = IF r.got # z.cl[c].got THEN z.now ELSE @,
                      !.wr = @ /\ clientHasPendingReplies(r)]]

writeToClient(z, c, room) ==
    Sent(z, c, IF room = None THEN z.cl[c] ELSE Written(z.cl[c], room),
         room = None /\ clientHasPendingReplies(z.cl[c]))

\* Clients first in the list are written first; what does not fit waits for
\* the socket to become writable.
handleClientsWithPendingWrites(z, rooms) ==
    LET unqueued(y, c) == [Clear(y, c, "pendingwrite") EXCEPT !.pend = Tail(@)]
        handled(y, c) == [y EXCEPT !.cl[c].wr = clientHasPendingReplies(y.cl[c])]
    IN  FoldLeft(LAMBDA y, c :
                   IF Has(y, c, "protected") THEN unqueued(y, c)
                   ELSE handled(writeToClient(unqueued(y, c), c, rooms[c]), c),
                 z, z.pend)

protectClient(z, c) ==
    [Flag(z, c, "protected") EXCEPT !.cl[c].rd = FALSE, !.cl[c].wr = FALSE]

unprotectClient(z, c) ==
    LET y == [Clear(z, c, "protected") EXCEPT !.cl[c].rd = TRUE]
    IN  IF clientHasPendingReplies(z.cl[c]) THEN clientInstallWriteHandler(y, c)
        ELSE y

-----------------------------------------------------------------------------
(* CLIENT PAUSE.                                                           *)

pauseClients(z, end) ==
    [z EXCEPT !.until = IF ~z.paused \/ end > @ THEN end ELSE @,
              !.paused = TRUE]

FaultyClientsArePaused(z) ==
    IF z.paused /\ z.until < z.mstime THEN [z EXCEPT !.paused = FALSE] ELSE z

\* The check that ends a pause also resumes every client that waits for it.
clientsArePaused(z) ==
    IF z.paused /\ z.until < z.mstime
    THEN FoldLeft(LAMBDA y, c : IF Has(y, c, "blocked") THEN y
                                ELSE queueClientForReprocessing(y, c),
                  [z EXCEPT !.paused = FALSE], z.order)
    ELSE z

-----------------------------------------------------------------------------
(* Requests.  Both parsers take what they can from the query buffer and    *)
(* keep the rest in the client: res is "ok" (argv is a request), "more" or *)
(* the protocol error.                                                     *)

HasLine(q) == q # <<>> /\ (Head(q).eol \/ Len(q) >= 2)
AfterLine(q) == IF Head(q).eol THEN Tail(q) ELSE Tail(Tail(q))

processInlineBuffer(r) ==
    IF ~HasLine(r.q)
    THEN [r |-> r, res |-> IF Head(r.q).t = "huge" THEN "too big" ELSE "more"]
    ELSE IF Head(r.q).t = "unbalanced" THEN [r |-> r, res |-> "unbalanced"]
    ELSE [r |-> [r EXCEPT !.q = AfterLine(@),
                          !.argv = IF Head(r.q).t = "line" THEN Head(r.q).w
                                   ELSE <<>>],
          res |-> "ok"]

RECURSIVE Bulks(_)
Bulks(r) ==
    IF r.mblen = 0 THEN [r |-> r, res |-> "ok"]
    ELSE IF ~HasLine(r.q)
    THEN [r |-> r, res |-> IF ~r.bulk /\ r.q # <<>> /\ Head(r.q).t = "huge"
                           THEN "too big" ELSE "more"]
    ELSE IF ~r.bulk
    THEN IF Head(r.q).t # "$" THEN [r |-> r, res |-> "expected $"]
         ELSE IF Head(r.q).n < 0 THEN [r |-> r, res |-> "bulk length"]
         ELSE Bulks([r EXCEPT !.q = AfterLine(@), !.bulk = TRUE])
    ELSE Bulks([r EXCEPT !.q = AfterLine(@), !.bulk = FALSE,
                         !.mblen = @ - 1,
                         !.argv = Append(@, Head(r.q).w)])

processMultibulkBuffer(r) ==
    IF r.mblen > 0 THEN Bulks(r)
    ELSE IF ~HasLine(r.q) THEN [r |-> r, res |-> "more"]
    ELSE IF Head(r.q).n > 9 THEN [r |-> r, res |-> "multibulk length"]
    ELSE IF Head(r.q).n <= 0
         THEN [r |-> [r EXCEPT !.q = AfterLine(@)], res |-> "ok"]
    ELSE Bulks([r EXCEPT !.q = AfterLine(@), !.mblen = Head(r.q).n])

setProtocolError(z, c, err) ==
    Flag(addReplyError(z, c, err), c, "closeafter")

resetClient(z, c) ==
    LET f == z.cl[c].fl \ {"skip"}
    IN  [z EXCEPT !.cl[c].argv = <<>>, !.cl[c].req = "none",
                  !.cl[c].mblen = 0, !.cl[c].bulk = FALSE,
                  !.cl[c].fl = IF "skipnext" \in f
                               THEN (f \ {"skipnext"}) \cup {"skip"} ELSE f]

-----------------------------------------------------------------------------
(* Commands.                                                               *)

pingCommand(z, c, argv) ==
    CASE Len(argv) > 2 -> addReplyError(z, c, "arity")
      [] Len(argv) <= 2 /\ Has(z, c, "pubsub") ->
           addReplies(z, c, <<"pong", IF Len(argv) = 1 THEN "" ELSE argv[2]>>)
      [] OTHER -> addReply(z, c, IF Len(argv) = 1 THEN "PONG" ELSE argv[2])

authCommand(z, c, argv) ==
    IF ~sc.requirepass THEN addReplyError(z, c, "nopass")
    ELSE IF argv[2] = "secret" THEN Flag(addReply(z, c, "OK"), c, "auth")
    ELSE addReplyError(Clear(z, c, "auth"), c, "invalid")

clientReply(z, c, mode) ==
    CASE mode = "on" -> addReply(Clear(Clear(z, c, "skip"), c, "off"), c, "OK")
      [] mode = "off" -> Flag(z, c, "off")
      [] mode = "skip" -> IF Has(z, c, "off") THEN z ELSE Flag(z, c, "skipnext")
      [] OTHER -> addReply(z, c, "syntax")

\* CLIENT KILL addr, or by type or id; the caller itself closes after the
\* reply, unless it is skipped.
clientKill(z, c, filter, victims) ==
    LET y == FoldLeft(LAMBDA x, d : IF d = c THEN x ELSE freeClient(x, d),
                      z, victims)
        answer == IF ~filter.old THEN <<ToString(Len(victims))>>
                  ELSE IF victims = <<>> THEN <<"-", "No such client", "nl">>
                  ELSE <<"OK">>
        closing == IF c \in ToSet(victims) THEN {"closeafter"} ELSE {}
    IN  [addReplies(y, c, answer) EXCEPT !.cl[c].fl = @ \cup closing]

Victims(z, c, filter) ==
    SelectSeq(z.order, LAMBDA d : /\ filter.id \in {None, d}
                                  /\ filter.type \in {None, getClientType(z.cl[d])}
                                  /\ ~(d = c /\ filter.skipme))

clientUnblock(z, c, d, error) ==
    LET blocked == IF lookupClientByID(z, d) THEN Has(z, d, "blocked") ELSE FALSE
        y == IF error THEN addReply(z, d, "UNBLOCKED")
             ELSE replyToBlockedClientTimedOut(z, d)
    IN  addReply(IF blocked THEN unblockClient(y, d) ELSE z, c,
                 IF blocked THEN "1" ELSE "0")

clientPause(z, c, t) ==
    addReply(pauseClients(z, getTimeoutFromObjectOrReply(z, t)), c, "OK")

\* The value of an option of CLIENT KILL, None when it is not given.
Option(argv, o) ==
    LET at == {i \in 3 .. Len(argv) - 1 : i % 2 = 1 /\ argv[i] = o}
    IN  IF at = {} THEN None ELSE argv[Min(at) + 1]

KillFilter(argv) ==
    IF Len(argv) = 3
    THEN [id |-> argv[3], type |-> None, skipme |-> FALSE, old |-> TRUE]
    ELSE [id |-> Option(argv, "id"), type |-> Option(argv, "type"),
          skipme |-> Option(argv, "skipme") # "no", old |-> FALSE]

Number(w) == CHOOSE n \in 0 .. 9 : ToString(n) = w

clientCommand(z, c, argv) ==
    CASE argv[2] = "reply" -> clientReply(z, c, argv[3])
      [] argv[2] = "kill" -> clientKill(z, c, KillFilter(argv), Victims(z, c, KillFilter(argv)))
      [] argv[2] = "unblock" -> clientUnblock(z, c, argv[3], Len(argv) = 4)
      [] argv[2] = "pause" -> clientPause(z, c, Number(argv[3]))
      [] argv[2] = "list" -> addReply(z, c, "clients")
      [] OTHER -> addReplyError(z, c, "subcommand")

\* A script is fast, or runs past lua-time-limit: then the hook protects its
\* caller and the event loop goes on inside the script.
luaMaskCountHook(z, c, body) ==
    [protectClient(z, c) EXCEPT !.lua = [caller |-> c, wrote |-> body = "slowset"]]

evalCommand(z, c, argv) ==
    IF argv[2] = "fast" THEN addReply(z, c, "OK")
    ELSE luaMaskCountHook(z, c, argv[2])

scriptKill(z, c) ==
    IF z.lua = None THEN addReply(z, c, "NOTBUSY")
    ELSE IF z.lua.wrote THEN addReply(z, c, "UNKILLABLE")
    ELSE addReply([z EXCEPT !.kill = TRUE], c, "OK")

Arity ==
    [ping |-> -1, auth |-> 2, subscribe |-> -2, unsubscribe |-> -1,
     psubscribe |-> -2, punsubscribe |-> -1, publish |-> 3, pubsub |-> -2,
     client |-> -2, blpop |-> -3, rpush |-> -3, eval |-> -3, script |-> -2,
     replicaof |-> 3]

call(z, c, argv) ==
    CASE argv[1] = "ping" -> pingCommand(z, c, argv)
      [] argv[1] = "auth" -> authCommand(z, c, argv)
      [] argv[1] = "subscribe" -> subscribeCommand(z, c, argv)
      [] argv[1] = "unsubscribe" -> unsubscribeCommand(z, c, argv)
      [] argv[1] = "psubscribe" -> psubscribeCommand(z, c, argv)
      [] argv[1] = "punsubscribe" -> punsubscribeCommand(z, c, argv)
      [] argv[1] = "publish" -> publishCommand(z, c, argv)
      [] argv[1] = "pubsub" -> pubsubCommand(z, c, argv)
      [] argv[1] = "client" -> clientCommand(z, c, argv)
      [] argv[1] = "blpop" -> blpopCommand(z, c, argv[2], Number(argv[3]))
      [] argv[1] = "rpush" -> rpushCommand(z, c, argv[2])
      [] argv[1] = "eval" -> evalCommand(z, c, argv)
      [] argv[1] = "script" -> scriptKill(z, c)
      [] argv[1] = "replicaof" -> addReply(disconnectAllBlockedClients(z), c, "OK")

PubSubAllowed == {"ping", "subscribe", "unsubscribe", "psubscribe", "punsubscribe"}

\* The state of the client or of the server forbids the command. The server has
\* memory, a disk that works and its replicas, and is not loading, so that the
\* other refusals of the code do not happen.
Refusal(z, c, argv) ==
    CASE sc.requirepass /\ ~Has(z, c, "auth") /\ argv[1] # "auth" -> "NOAUTH"
      [] Has(z, c, "pubsub") /\ argv[1] \notin PubSubAllowed -> "context"
      [] z.lua # None /\ argv[1] # "auth" /\ argv # <<"script", "kill">> -> "BUSY"
      [] OTHER -> "none"

processCommand(z, c, argv) ==
    IF argv[1] = "quit" THEN Flag(addReply(z, c, "OK"), c, "closeafter")
    ELSE IF argv[1] \notin DOMAIN Arity THEN addReplyError(z, c, "unknown")
    ELSE LET n == Arity[argv[1]]
         IN  IF (n > 0 /\ n # Len(argv)) \/ Len(argv) < -n
             THEN addReplyError(z, c, "arity")
             ELSE CASE Refusal(z, c, argv) = "none" -> call(z, c, argv)
                    [] Refusal(z, c, argv) = "context" -> addReplyError(z, c, "context")
                    [] OTHER -> addReply(z, c, Refusal(z, c, argv))

-----------------------------------------------------------------------------
(* The loop over a client's query buffer.  It stops when a script that the *)
(* request started is left running, and goes on when the script returns.   *)

Parse(r) ==
    IF r.req = "multibulk" \/ (r.req = "none" /\ Head(r.q).t = "*")
    THEN processMultibulkBuffer([r EXCEPT !.req = "multibulk"])
    ELSE processInlineBuffer([r EXCEPT !.req = "inline"])

Executed(z, c, argv) ==
    processCommand([z EXCEPT !.cl[c].ran = Append(@, argv)], c, argv)

RECURSIVE InputLoop(_, _)
RECURSIVE AfterCommand(_, _, _, _)
RECURSIVE Parsed(_, _, _)

AfterCommand(z, c, argv, lua) ==
    IF z.lua # lua THEN z
    ELSE IF argv[1] = "quit" THEN z
    ELSE IF z.cur = None THEN resetClient(z, c)
    ELSE InputLoop(resetClient(z, c), c)

Parsed(z, c, p) ==
    CASE p.res = "more" -> [z EXCEPT !.cl[c] = p.r]
      [] p.res = "ok" ->
           IF p.r.argv = <<>>
           THEN InputLoop(resetClient([z EXCEPT !.cl[c] = p.r], c), c)
           ELSE AfterCommand(Executed([z EXCEPT !.cl[c] = p.r], c, p.r.argv),
                             c, p.r.argv, z.lua)
      [] OTHER -> setProtocolError([z EXCEPT !.cl[c] = p.r], c, p.res)

InputLoop(z, c) ==
    IF z.cl[c].q = <<>> THEN z
    ELSE LET enter(y) ==
               IF \/ y.paused
                  \/ y.cl[c].fl \cap {"blocked", "closeafter", "closeasap"} # {}
               THEN y ELSE Parsed(y, c, Parse(y.cl[c]))
         IN  enter(clientsArePaused(z))

\* current_client is NULL once the buffer is done with, unless a script runs.
Done(z, lua) == IF z.lua # lua THEN z ELSE [z EXCEPT !.cur = None]

processInputBuffer(z, c) == Done(InputLoop([z EXCEPT !.cur = c], c), z.lua)

readQueryFromClient(z, c, units) ==
    IF Len(z.cl[c].q \o units) > QueryLimit THEN freeClient(z, c)
    ELSE processInputBuffer([z EXCEPT !.cl[c].q = @ \o units,
                                      !.cl[c].last = z.now,
                                      !.cl[c].cut = FALSE], c)

\* The script returns or is killed.  If the nested loop served any request,
\* current_client is NULL and the caller's other requests are left (cut).
evalGenericCommand(z) ==
    LET c == z.lua.caller
        answer == IF z.kill THEN <<"-", "killed", "nl">> ELSE <<"OK">>
        back(y) == IF z.cur = None THEN [y EXCEPT !.cl[c].cut = TRUE]
                   ELSE Done(InputLoop(y, c), None)
    IN  back(resetClient(addReplies(
          unprotectClient([z EXCEPT !.lua = None, !.kill = FALSE], c),
          c, answer), c))

processUnblockedClients(z) ==
    LET c == Head(z.unbl)
        y == [Clear(z, c, "unblocked") EXCEPT !.unbl = Tail(@)]
    IN  IF Has(z, c, "blocked") \/ z.cl[c].q = <<>> THEN y
        ELSE processInputBuffer(y, c)

acceptCommonHandler(z, c) ==
    IF Len(z.order) + 1 > sc.maxclients THEN freeClient(createClient(z, c), c)
    ELSE createClient(z, c)

-----------------------------------------------------------------------------
(* serverCron, as far as clients go.                                       *)

clientsCronHandleTimeout(z, c) ==
    IF /\ sc.maxidle # 0
       /\ z.cl[c].fl \cap {"blocked", "pubsub"} = {}
       /\ z.now - z.cl[c].last > sc.maxidle
    THEN freeClient(z, c)
    ELSE IF /\ Has(z, c, "blocked") /\ z.cl[c].timeout # 0
            /\ z.cl[c].timeout < z.now
    THEN unblockClient(replyToBlockedClientTimedOut(z, c), c)
    ELSE z

RECURSIVE clientsCron(_, _)
clientsCron(z, iterations) ==
    IF z.order = <<>> \/ iterations = 0 THEN z
    ELSE LET c == Last(z.order)
             y == [z EXCEPT !.order = <<c>> \o Front(@)]
         IN  clientsCron(clientsCronHandleTimeout(y, c), iterations - 1)

serverCron(z) ==
    clientsArePaused(freeClientsInAsyncFreeQueue(
      clientsCron([z EXCEPT !.mstime = z.now], Len(z.order))))

-----------------------------------------------------------------------------
(* The event loop.  Outside scripts: resume the unblocked clients, flush   *)
(* the pending writes, poll and run a handler for every fired event, then  *)
(* the timers.  Inside a script that timed out: poll, handlers, flush.     *)

Ready(z) ==
    {e \in Conns \X {"r", "w"} :
       z.cl[e[1]].st = "open" /\ (IF e[2] = "r" THEN z.cl[e[1]].rd
                                  ELSE z.cl[e[1]].wr)}

At(ph, fired) == [phase |-> ph, fired |-> fired, back |-> loop.back]

\* The step yields z; a script it left running starts the nested loop.
Goes(z, l) ==
    /\ s' = z
    /\ loop' = IF s'.lua # None /\ s.lua = None
               THEN [phase |-> "hook", fired |-> {}, back |-> <<l>>]
               ELSE l
    /\ UNCHANGED sc

Event(c, d) ==
    /\ loop.phase \in {"events", "inner"}
    /\ <<c, d>> \in loop.fired
    /\ <<c, d>> \in Ready(s)

Handled(c, d) == [loop EXCEPT !.fired = @ \ {<<c, d>>}]

Accept(c) ==
    /\ loop.phase \in {"events", "inner"}
    /\ c \in sc.peers /\ s.cl[c].st = "new"
    /\ Goes(acceptCommonHandler(s, c), loop)
    /\ UNCHANGED <<net, eof>>

Readable(c) ==
    /\ Event(c, "r")
    /\ \E n \in 1 .. Len(net[c]) :
         /\ Goes(readQueryFromClient(s, c, FlattenSeq(SubSeq(net[c], 1, n))),
                 Handled(c, "r"))
         /\ net' = [net EXCEPT ![c] = SubSeq(@, n + 1, Len(@))]
    /\ UNCHANGED eof

ReadEnd(c) ==
    /\ Event(c, "r")
    /\ c \in eof
    /\ Goes(freeClient(s, c), Handled(c, "r"))
    /\ UNCHANGED <<net, eof>>

Rooms(c) == IF c \in eof THEN {None} ELSE sc.rooms

sendReplyToClient(c) ==
    /\ Event(c, "w")
    /\ \E room \in Rooms(c) \ {0} :
         Goes(writeToClient(s, c, room), Handled(c, "w"))
    /\ UNCHANGED <<net, eof>>

Resume ==
    /\ loop.phase = "before"
    /\ s.unbl # <<>>
    /\ Goes(processUnblockedClients(s), loop)
    /\ UNCHANGED <<net, eof>>

Flush ==
    /\ loop.phase = "flush" \/ (loop.phase = "before" /\ s.unbl = <<>>)
    /\ \E rooms \in [ToSet(s.pend) -> sc.rooms \cup {None}] :
         /\ \A c \in DOMAIN rooms : rooms[c] \in Rooms(c)
         /\ \E z \in {handleClientsWithPendingWrites(s, rooms)} :
              Goes(z, IF loop.phase = "flush" THEN At("hook", {})
                      ELSE At("events", Ready(z)))
    /\ UNCHANGED <<net, eof>>

EndOfEvents ==
    /\ \/ loop.phase = "inner" /\ Goes(s, At("flush", {}))
       \/ loop.phase = "events" /\ Goes(s, At("before", {}))
    /\ UNCHANGED <<net, eof>>

TimeEvents ==
    /\ loop.phase = "events"
    /\ Goes(serverCron(s), At("before", {}))
    /\ UNCHANGED <<net, eof>>

processEventsWhileBlocked ==
    /\ loop.phase = "hook"
    /\ Goes(s, At("inner", Ready(s)))
    /\ UNCHANGED <<net, eof>>

ScriptEnds ==
    /\ loop.phase = "hook"
    /\ \E z \in {evalGenericCommand(s)} :
         /\ s' = z
         /\ loop' = IF z.lua # None THEN loop ELSE loop.back[1]
    /\ UNCHANGED <<net, eof, sc>>

PeerCloses(c) ==
    /\ c \in sc.hangup \ eof
    /\ s.cl[c].st = "open"
    /\ eof' = eof \cup {c}
    /\ net' = [net EXCEPT ![c] = <<>>]
    /\ UNCHANGED <<s, loop, sc>>

Tick ==
    /\ loop.phase = "events"
    /\ s.now < sc.clock
    /\ s' = [s EXCEPT !.now = @ + 1]
    /\ UNCHANGED <<loop, net, eof, sc>>

Init ==
    /\ sc \in Scenarios
    /\ s = Server
    /\ loop = [phase |-> "before", fired |-> {}, back |-> <<>>]
    /\ net = sc.traffic
    /\ eof = {}

Next ==
    \/ \E c \in Conns : Accept(c)
    \/ \E c \in Conns : Readable(c)
    \/ \E c \in Conns : ReadEnd(c)
    \/ \E c \in Conns : sendReplyToClient(c)
    \/ \E c \in Conns : PeerCloses(c)
    \/ Resume
    \/ Flush
    \/ EndOfEvents
    \/ TimeEvents
    \/ processEventsWhileBlocked
    \/ ScriptEnds
    \/ Tick

Spec == Init /\ [][Next]_vars

-----------------------------------------------------------------------------
(* Properties.                                                             *)

Live == {c \in Conns : s.cl[c].st = "open"}

Unsent(r) ==
    LET all == r.buf \o FlattenSeq([i \in DOMAIN r.list |-> r.list[i].units])
    IN  SubSeq(all, r.sent + 1, Len(all))

\* What the peer's stream means, read unit by unit without buffers.
Requests(units) ==
    LET step(a, u) ==
          CASE a.bad \/ u.t = "nl" -> a
            [] ~a.bad /\ a.left = 0 /\ u.t = "*" ->
                 IF u.n > 9 THEN [a EXCEPT !.bad = TRUE]
                 ELSE [a EXCEPT !.left = Max({u.n, 0})]
            [] ~a.bad /\ a.left = 0 /\ u.t = "line" ->
                 IF u.w = <<>> THEN a ELSE [a EXCEPT !.done = Append(@, u.w)]
            [] ~a.bad /\ a.left > 0 /\ u.t = "$" ->
                 [a EXCEPT !.bad = u.n < 0]
            [] ~a.bad /\ a.left > 0 /\ u.t = "arg" ->
                 IF a.left > 1 THEN [a EXCEPT !.left = @ - 1,
                                              !.part = Append(@, u.w)]
                 ELSE [a EXCEPT !.left = 0, !.part = <<>>,
                                !.done = Append(@, Append(a.part, u.w))]
            [] OTHER -> [a EXCEPT !.bad = TRUE]
    IN  FoldLeft(step, [done |-> <<>>, part |-> <<>>, left |-> 0, bad |-> FALSE],
                 units).done

(* However reads and writes cut the stream, whatever the buffers hold and  *)
(* whoever else is served in between: a client's requests are executed in  *)
(* the order they were sent, none twice, and what it has received followed *)
(* by what its reply buffers still hold is what was replied to it, in      *)
(* order (processInputBuffer, addReply, writeToClient).                    *)
RepliesArriveInOrder ==
    \A c \in Live :
      /\ s.cl[c].got \o Unsent(s.cl[c]) = s.cl[c].owed
      /\ IsPrefix(s.cl[c].ran, Requests(FlattenSeq(sc.traffic[c])))

Agrees(q, f) == {c \in Conns : f \in s.cl[c].fl} = ToSet(q) /\ IsInjective(q)

(* No list of the server refers to a freed client, and each agrees with    *)
(* the flag or the field its clients keep about it: a client is in the     *)
(* list of pending writes, of unblocked clients, of clients to close, of a *)
(* key's waiters, of a channel's subscribers or of the patterns exactly    *)
(* when it says so, once; the bytes of the reply list are accounted        *)
(* (unlinkClient and freeClient search the lists only when the flag is     *)
(* set, and assert what they find).                                        *)
NoDanglingClients ==
    /\ Agrees(s.pend, "pendingwrite")
    /\ Agrees(s.unbl, "unblocked")
    /\ Agrees(s.close, "closeasap")
    /\ ToSet(s.order) = Live /\ IsInjective(s.order)
    /\ \A h \in Channels : /\ ToSet(s.chan[h]) = {c \in Live : h \in s.cl[c].chans}
                           /\ IsInjective(s.chan[h])
    /\ ToSet(s.pats) = UNION {{<<p, c>> : p \in ToSet(s.cl[c].pats)} : c \in Live}
    /\ \A k \in Keys : ToSet(s.wait[k]) = {c \in Live : s.cl[c].key = k}
    /\ \A c \in Live : /\ (s.cl[c].key # None) <=> Has(s, c, "blocked")
                       /\ Has(s, c, "pubsub") <=> (clientSubscriptionsCount(s.cl[c]) > 0)
                       /\ s.cl[c].bytes = FoldLeft(LAMBDA n, b : n + b.size, 0, s.cl[c].list)
    /\ s.cur # None => s.cur \in Live
    /\ {c \in Conns : Has(s, c, "protected")} =
         (IF s.lua = None THEN {} ELSE {s.lua.caller})

\* A whole request, or a protocol error, is waiting in the query buffer.
Complete(r) == r.q # <<>> /\ Parse(r).res # "more"

(* Nothing waits for an event that will not come.  Between two handlers, a *)
(* client with a complete request in its query buffer is blocked, paused,  *)
(* closing or queued to be resumed; a client with output to write is in    *)
(* the list of pending writes, has a write handler or waits for its own    *)
(* script to end; and a client that is to close after its reply has one to *)
(* write.  Excepted are the requests behind a script that let others be    *)
(* served (cut), and a client that closes while it has replies off.        *)
NothingIsForgotten ==
    \A c \in Live :
      /\ (s.lua = None /\ Complete(s.cl[c])) =>
           \/ s.cl[c].fl \cap {"blocked", "closeafter", "closeasap", "unblocked"} # {}
           \/ s.paused
           \/ s.cl[c].cut
      /\ clientHasPendingReplies(s.cl[c]) =>
           Has(s, c, "pendingwrite") \/ s.cl[c].wr \/ Has(s, c, "protected")
      /\ Has(s, c, "closeafter") /\ s.cl[c].fl \cap {"off", "skip"} = {} =>
           clientHasPendingReplies(s.cl[c]) \/ Has(s, c, "pendingwrite")
=============================================================================
