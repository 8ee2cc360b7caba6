------------------------------- MODULE Pubsub -------------------------------
(***************************************************************************)
(* Publish and subscribe (pubsub.c) with keyspace notifications (notify.c): *)
(* the tables of the server and of its clients, which must agree, and a     *)
(* client that is to be closed while it is subscribed.                      *)
(***************************************************************************)
EXTENDS Integers, Sequences, SequencesExt, FiniteSets

CONSTANTS
    Clients,        \* clients of the primary
    Channels, Patterns,
    Matched,        \* pattern -> the channels it matches (stringmatchlen)
    Keyspace, Keyevent,     \* the channels of notifications
    MaxPublish,     \* bound: messages published
    MaxConnects     \* bound: connections of clients
PubsubAssumption ==
    /\ Matched \in [Patterns -> SUBSET Channels] /\ {Keyspace, Keyevent} \subseteq Channels
    /\ {MaxPublish, MaxConnects} \subseteq Nat

VARIABLES
    pubsub_channels,    \* server.pubsub_channels: channel -> sequence of clients, for channels with clients
    pubsub_patterns,    \* server.pubsub_patterns: sequence of <<client, pattern>>
    c_channels,         \* the channels of each client
    c_patterns,         \* the patterns of each client, a list
    c_flags,            \* "none" | "normal" | "pubsub" | "closing": not connected, REDIS_PUBSUB, REDIS_CLOSE_ASAP
    got,                \* messages of the last publication each client got
    receivers,          \* the reply of the last PUBLISH
    notify_keyspace_events,
    published, connects
tables == <<pubsub_channels, pubsub_patterns, c_channels, c_patterns>>
vars == <<tables, c_flags, got, receivers, notify_keyspace_events, published, connects>>

ClientsOf(ch) == IF ch \in DOMAIN pubsub_channels THEN pubsub_channels[ch] ELSE <<>>
clientSubscriptionsCount(chs, pats, c) == Cardinality(chs[c]) + Len(pats[c])
Connected(c) == c_flags[c] # "none"
Runs(c) == c_flags[c] \in {"normal", "pubsub"}

-----------------------------------------------------------------------------
(* Subscriptions.  t = [sc, sp, cc, cp]: the four tables                    *)

T == [sc |-> pubsub_channels, sp |-> pubsub_patterns, cc |-> c_channels, cp |-> c_patterns]
Become(t) == pubsub_channels' = t.sc /\ pubsub_patterns' = t.sp /\ c_channels' = t.cc /\ c_patterns' = t.cp

pubsubSubscribeChannel(t, c, ch) ==
    IF ch \in t.cc[c] THEN t
    ELSE [t EXCEPT !.cc[c] = @ \cup {ch},
        !.sc = [x \in DOMAIN @ \cup {ch} |-> IF x = ch THEN Append(IF ch \in DOMAIN @ THEN @[ch] ELSE <<>>, c) ELSE @[x]]]
\* A channel without clients goes.
pubsubUnsubscribeChannel(t, c, ch) ==
    IF ch \notin t.cc[c] THEN t
    ELSE LET rest == SelectSeq(t.sc[ch], LAMBDA x : x # c)
         IN  [t EXCEPT !.cc[c] = @ \ {ch},
                !.sc = [x \in (IF rest = <<>> THEN DOMAIN @ \ {ch} ELSE DOMAIN @) |-> IF x = ch THEN rest ELSE @[x]]]
pubsubSubscribePattern(t, c, p) ==
    IF p \in ToSet(t.cp[c]) THEN t
    ELSE [t EXCEPT !.cp[c] = Append(@, p), !.sp = Append(@, <<c, p>>)]
\* The first entry of the server that matches client and pattern is removed (listMatchPubsubPattern).
pubsubUnsubscribePattern(t, c, p) ==
    IF p \notin ToSet(t.cp[c]) THEN t
    ELSE [t EXCEPT !.cp[c] = SelectSeq(@, LAMBDA x : x # p),
                   !.sp = RemoveAt(@, SelectInSeq(@, LAMBDA e : e = <<c, p>>))]
pubsubUnsubscribeAllChannels(t, c) ==
    FoldLeft(LAMBDA u, ch : pubsubUnsubscribeChannel(u, c, ch), t, SetToSeq(t.cc[c]))
pubsubUnsubscribeAllPatterns(t, c) == FoldLeft(LAMBDA u, p : pubsubUnsubscribePattern(u, c, p), t, t.cp[c])

Unchanged == UNCHANGED <<got, receivers, notify_keyspace_events, published, connects>>
Subscribed(c, t) == Become(t) /\ c_flags' = [c_flags EXCEPT ![c] = "pubsub"] /\ Unchanged
\* The client is an ordinary one again when nothing is left.
Unsubscribed(c, t) ==
    /\ Become(t) /\ Unchanged
    /\ c_flags' = [c_flags EXCEPT ![c] = IF clientSubscriptionsCount(t.cc, t.cp, c) = 0 THEN "normal" ELSE @]
subscribeCommand(c, ch) == Runs(c) /\ Subscribed(c, pubsubSubscribeChannel(T, c, ch))
psubscribeCommand(c, p) == Runs(c) /\ Subscribed(c, pubsubSubscribePattern(T, c, p))
unsubscribeCommand(c, chs) ==
    Runs(c) /\ Unsubscribed(c, IF chs = <<>> THEN pubsubUnsubscribeAllChannels(T, c)
                               ELSE FoldLeft(LAMBDA u, ch : pubsubUnsubscribeChannel(u, c, ch), T, chs))
punsubscribeCommand(c, ps) ==
    Runs(c) /\ Unsubscribed(c, IF ps = <<>> THEN pubsubUnsubscribeAllPatterns(T, c)
                               ELSE FoldLeft(LAMBDA u, p : pubsubUnsubscribePattern(u, c, p), T, ps))

-----------------------------------------------------------------------------
(* Messages                                                                 *)

PatternsFor(ch) == SelectSeq(pubsub_patterns, LAMBDA e : ch \in Matched[e[2]])
\* addReply does nothing for a client that is closed soon.
Deliveries_OncePerClient(c, ch) ==
    IF c_flags[c] # "closing" /\ (c \in ToSet(ClientsOf(ch)) \/ \E i \in DOMAIN PatternsFor(ch) : PatternsFor(ch)[i][1] = c)
    THEN 1 ELSE 0
Deliveries(c, ch) ==
    IF c_flags[c] = "closing" THEN 0
    ELSE Len(SelectSeq(ClientsOf(ch), LAMBDA x : x = c)) + Len(SelectSeq(PatternsFor(ch), LAMBDA e : e[1] = c))
pubsubPublishMessage(ch) == Len(ClientsOf(ch)) + Len(PatternsFor(ch))

\* A client that is subscribed may only subscribe, unsubscribe, PING and QUIT (processCommand).
publishCommand(c, ch) ==
    /\ c_flags[c] = "normal" /\ published < MaxPublish /\ published' = published + 1
    /\ receivers' = pubsubPublishMessage(ch) /\ got' = [x \in Clients |-> Deliveries(x, ch)]
    /\ UNCHANGED <<tables, c_flags, notify_keyspace_events, connects>>

Classes == {"g", "string", "l", "s", "h", "z", "x", "e"}
REDIS_NOTIFY_ALL == Classes
keyspaceEventsFlagsToString(flags) ==
    (IF REDIS_NOTIFY_ALL \subseteq flags THEN {"A"} ELSE flags \cap Classes) \cup (flags \cap {"K", "E"})
keyspaceEventsStringToFlags(chars) == (chars \ {"A"}) \cup (IF "A" \in chars THEN REDIS_NOTIFY_ALL ELSE {})
Events(type) ==
    IF type \notin notify_keyspace_events THEN <<>>
    ELSE (IF "K" \in notify_keyspace_events THEN <<Keyspace>> ELSE <<>>)
         \o (IF "E" \in notify_keyspace_events THEN <<Keyevent>> ELSE <<>>)
\* A command of a client changes a key.
notifyKeyspaceEvent(c, type) ==
    /\ c_flags[c] = "normal" /\ published < MaxPublish /\ published' = published + 1
    /\ Events(type) # <<>>
    /\ LET chs == Events(type) IN
       /\ receivers' = FoldLeft(LAMBDA n, ch : n + pubsubPublishMessage(ch), 0, chs)
       /\ got' = [x \in Clients |-> FoldLeft(LAMBDA n, ch : n + Deliveries(x, ch), 0, chs)]
    /\ UNCHANGED <<tables, c_flags, notify_keyspace_events, connects>>
\* CONFIG SET notify-keyspace-events.
configSet(c, chars) ==
    /\ c_flags[c] = "normal" /\ notify_keyspace_events' = keyspaceEventsStringToFlags(chars)
    /\ UNCHANGED <<tables, c_flags, got, receivers, published, connects>>

-----------------------------------------------------------------------------
(* Connections                                                              *)

createClient(c) ==
    /\ ~Connected(c) /\ connects < MaxConnects /\ connects' = connects + 1
    /\ c_flags' = [c_flags EXCEPT ![c] = "normal"]
    /\ UNCHANGED <<tables, got, receivers, notify_keyspace_events, published>>
\* Its output is too large: it is closed at the next turn of the server's timer.
freeClientAsync(c) == Runs(c) /\ c_flags' = [c_flags EXCEPT ![c] = "closing"] /\ Unchanged /\ UNCHANGED tables
freeClient(c) ==
    /\ Connected(c) /\ Become(pubsubUnsubscribeAllPatterns(pubsubUnsubscribeAllChannels(T, c), c))
    /\ c_flags' = [c_flags EXCEPT ![c] = "none"] /\ Unchanged

Init ==
    /\ pubsub_channels = << >> /\ pubsub_patterns = <<>>
    /\ c_channels = [c \in Clients |-> {}] /\ c_patterns = [c \in Clients |-> <<>>]
    /\ c_flags = [c \in Clients |-> "none"] /\ got = [c \in Clients |-> 0] /\ receivers = 0
    /\ notify_keyspace_events = {} /\ published = 0 /\ connects = 0
Next ==
    \/ \E c \in Clients :
        \/ createClient(c) \/ freeClientAsync(c) \/ freeClient(c)
        \/ \E ch \in Channels : subscribeCommand(c, ch) \/ publishCommand(c, ch)
        \/ \E chs \in {<<>>} \cup {<<ch>> : ch \in Channels} : unsubscribeCommand(c, chs)
        \/ \E p \in Patterns : psubscribeCommand(c, p)
        \/ \E ps \in {<<>>} \cup {<<p>> : p \in Patterns} : punsubscribeCommand(c, ps)
        \/ notifyKeyspaceEvent(c, "g") \/ (\E chars \in {{"K", "E", "A"}, {"K", "g"}} : configSet(c, chars))
Spec == Init /\ [][Next]_vars

-----------------------------------------------------------------------------
TypeOK ==
    /\ DOMAIN pubsub_channels \subseteq Channels /\ c_channels \in [Clients -> SUBSET Channels]
    /\ \A ch \in DOMAIN pubsub_channels : pubsub_channels[ch] # <<>>
    /\ \A i \in DOMAIN pubsub_patterns : pubsub_patterns[i] \in Clients \X Patterns

\* The tables of the server are those of the clients the other way round, each subscription once
\* (the assertions of pubsubUnsubscribeChannel), for clients that are closed meanwhile too.
TablesAgree ==
    /\ \A ch \in Channels : IsInjective(ClientsOf(ch)) /\ ToSet(ClientsOf(ch)) = {c \in Clients : ch \in c_channels[c]}
    /\ IsInjective(pubsub_patterns)
    /\ ToSet(pubsub_patterns) = {e \in Clients \X Patterns : e[2] \in ToSet(c_patterns[e[1]])}
    /\ \A c \in Clients : ~Connected(c) => c_channels[c] = {} /\ c_patterns[c] = <<>>

\* A client with subscriptions is in Pub/Sub mode, and one without can run all commands again.
ModeExact ==
    \A c \in Clients : Runs(c) => (c_flags[c] = "pubsub" <=> clientSubscriptionsCount(c_channels, c_patterns, c) > 0)

\* A message reaches each subscriber once for its channel and once per pattern that matches, and nobody else.
Expected(c, ch) ==
    (IF ch \in c_channels[c] THEN 1 ELSE 0) + Cardinality({p \in ToSet(c_patterns[c]) : ch \in Matched[p]})
DeliveredOnce ==
    \A ch \in Channels : (\E c \in Clients : publishCommand(c, ch)) =>
         \A c \in Clients : got'[c] = IF c_flags[c] = "closing" THEN 0 ELSE Expected(c, ch)

\* CONFIG REWRITE and CONFIG SET keep the classes of events (notify.c).
FlagsRoundTrip ==
    keyspaceEventsStringToFlags(keyspaceEventsFlagsToString(notify_keyspace_events)) = notify_keyspace_events
=============================================================================
