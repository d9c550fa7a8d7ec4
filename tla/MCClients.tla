----------------------------- MODULE MCClients -----------------------------
(* Scenarios for Clients: what two or three peers send, in segments a read *)
(* may join but not split, and the configuration that makes it matter.     *)
EXTENDS Clients

MCConns == {"a", "b", "d"}
MCChannels == {"x", "y"}
MCKeys == {"k"}

L(words) == <<[t |-> "line", n |-> 0, w |-> words, eol |-> TRUE]>>
Unit(t, n, eol) == [t |-> t, n |-> n, w |-> <<>>, eol |-> eol]
Arg(x, eol) == [t |-> "arg", n |-> 0, w |-> x, eol |-> eol]
NL == Unit("nl", 0, TRUE)

\* One request in the unified format, as one segment.
M(words) ==
    <<Unit("*", Len(words), TRUE)>> \o
    FlattenSeq([i \in DOMAIN words |-> <<Unit("$", 1, TRUE), Arg(words[i], TRUE)>>])

Pieces(units) == [i \in DOMAIN units |-> <<units[i]>>]

NoLimits == [hard |-> 0, soft |-> 0, seconds |-> 0]

Base ==
    [traffic |-> [c \in MCConns |-> <<>>], peers |-> {"a", "b"}, hangup |-> {}, rooms |-> {9},
     clock |-> 1, requirepass |-> FALSE, maxclients |-> 3, maxidle |-> 0,
     limits |-> [normal |-> NoLimits, pubsub |-> NoLimits]]

T(a, b, d) == [c \in MCConns |-> IF c = "a" THEN a ELSE IF c = "b" THEN b ELSE d]

\* Requests cut anywhere: two formats, an empty one, a protocol error.
Frag(last) ==
    [Base EXCEPT !.peers = {"a"}, !.traffic = T(
       Pieces(<<Unit("*", 2, FALSE), NL, Unit("$", 4, TRUE), Arg("ping", FALSE), NL,
                Unit("$", 3, FALSE), NL, Arg("big", TRUE)>>
              \o L(<<>>) \o <<Unit("*", -1, TRUE)>> \o L(<<"ping">>) \o last),
       <<>>, <<>>)]

Fragments ==
    {Frag(<<Unit("*", 99, TRUE)>>),
     Frag(<<Unit("*", 1, TRUE), Unit("$", -1, TRUE)>>),
     Frag(<<Unit("*", 1, TRUE), [t |-> "line", n |-> 0, w |-> <<"ping">>, eol |-> TRUE]>>),
     Frag(<<Unit("unbalanced", 0, TRUE)>>),
     Frag(<<Unit("huge", 0, FALSE), NL>>),
     Frag(<<Unit("*", 1, TRUE), Unit("huge", 0, FALSE)>>),
     Frag(L(<<"quit">>) \o L(<<"ping">>))}

PubSub ==
    {[Base EXCEPT !.hangup = {"a"}, !.rooms = {1, 9}, !.traffic = T(
        <<M(<<"subscribe", "x", "y">>), M(<<"psubscribe", "*">>), M(<<"ping">>) \o M(<<"publish", "x", "m">>),
          M(<<"unsubscribe", "x">>) \o M(<<"punsubscribe">>),
          M(<<"unsubscribe">>) \o M(<<"unsubscribe">>) \o M(<<"ping">>)>>,
        <<M(<<"publish", "x", "m">>), M(<<"pubsub", "channels">>)
            \o M(<<"pubsub", "numsub", "x">>) \o M(<<"pubsub", "numpat">>)>>,
        <<>>)],
     [Base EXCEPT !.peers = MCConns, !.traffic = T(
        <<M(<<"subscribe", "x">>), M(<<"punsubscribe">>)>>,
        <<M(<<"psubscribe", "x">>), M(<<"punsubscribe", "x">>)
            \o M(<<"pubsub", "channels">>) \o M(<<"pubsub", "other">>)>>,
        <<M(<<"publish", "x", "big">>), M(<<"client", "kill", "type", "pubsub">>),
          M(<<"client", "kill", "b">>), M(<<"client", "kill", "d">>)>>)]}

Blocking ==
    {[Base EXCEPT !.peers = MCConns, !.clock = 3, !.hangup = {"a"}, !.traffic = T(
        <<M(<<"blpop", "k", "1">>) \o M(<<"ping">>)>>,
        <<M(<<"rpush", "k", "v">>), M(<<"client", "unblock", "a">>)>>,
        <<M(<<"blpop", "k", "0">>) \o M(<<"ping">>)>>)],
     [Base EXCEPT !.peers = MCConns, !.traffic = T(
        <<M(<<"client", "reply", "skip">>) \o M(<<"blpop", "k", "0">>) \o M(<<"ping">>)>>,
        <<M(<<"client", "unblock", "a", "error">>) \o M(<<"client", "unblock", "z">>),
          M(<<"client", "kill", "id", "a", "skipme", "no">>)>>,
        <<M(<<"blpop", "k", "0">>) \o M(<<"ping">>), M(<<"rpush", "k">>),
          M(<<"replicaof", "h", "p">>)>>)]}

Pausing ==
    {[Base EXCEPT !.clock = 3, !.traffic = T(
        <<M(<<"ping">>), M(<<"blpop", "k", "0">>) \o M(<<"ping">>)>>,
        <<M(<<"client", "pause", "1">>) \o M(<<"ping">>), M(<<"rpush", "k", "v">>),
          M(<<"client", "pause", "0">>)>>, <<>>)],
     [Base EXCEPT !.peers = MCConns, !.clock = 3, !.traffic = T(
        <<M(<<"ping">>)>>, <<M(<<"client", "pause", "1">>)>>,
        <<M(<<"client", "pause", "1">>) \o M(<<"ping">>)>>)]}

Replies ==
    {[Base EXCEPT !.peers = MCConns, !.rooms = {1, 9}, !.maxclients = 2, !.traffic = T(
        <<M(<<"client", "reply", "skip">>) \o M(<<"ping">>) \o M(<<"ping", "big">>),
          M(<<"client", "reply", "off">>), M(<<"client", "reply", "skip">>) \o M(<<"ping">>),
          M(<<"client", "reply", "on">>) \o M(<<"client", "reply", "what">>),
          M(<<"client", "list">>) \o M(<<"client", "what">>), M(<<"what">>) \o M(<<"ping", "1", "2">>)
            \o M(<<"auth">>) \o M(<<"auth", "p">>) \o M(<<"eval", "fast", "0">>)>>,
        <<M(<<"script", "kill">>)>>, <<M(<<"ping">>)>>)],
     [Base EXCEPT !.requirepass = TRUE, !.clock = 3, !.maxidle = 1, !.traffic = T(
        <<M(<<"ping">>), M(<<"auth", "wrong">>), M(<<"auth", "secret">>), M(<<"ping">>)>>,
        <<M(<<"auth", "secret">>), M(<<"subscribe", "x">>)>>, <<>>)]}

Limits ==
    {[Base EXCEPT !.rooms = {0, 9}, !.clock = 3,
        !.limits = [normal |-> NoLimits,
                    pubsub |-> [hard |-> 8, soft |-> 3, seconds |-> 0]],
        !.traffic = T(<<M(<<"subscribe", "x">>)>>,
                      <<M(<<"publish", "x", "big">>), M(<<"publish", "x", "m">>),
                        M(<<"publish", "x", "big">>)>>, <<>>)]}

Scripts ==
    {[Base EXCEPT !.rooms = {0, 9}, !.traffic = T(
        <<M(<<"ping">>) \o M(<<"eval", "slow", "0">>) \o M(<<"ping">>), M(<<"ping">>)>>,
        <<M(<<"ping">>) \o M(<<"script", "kill">>), M(<<"quit">>)>>, <<>>)],
     [Base EXCEPT !.peers = MCConns, !.hangup = {"a", "b"}, !.traffic = T(
        <<M(<<"blpop", "k", "0">>) \o M(<<"eval", "slowset", "0">>) \o M(<<"eval", "slow", "0">>)>>,
        <<M(<<"rpush", "k", "v">>), M(<<"script", "kill">>), M(<<"client", "kill", "a">>)>>,
        <<M(<<"subscribe", "x">>), M(<<"ping">>) \o M(<<"publish", "x", "m">>)>>)]}

MCScenarios == Fragments \cup PubSub \cup Blocking \cup Pausing \cup Replies
               \cup Limits \cup Scripts
=============================================================================
