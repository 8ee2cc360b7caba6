------------------------------ MODULE Clients ------------------------------
(***************************************************************************)
(* The clients of a redis server and the lists they are in (networking.c,   *)
(* blocked.c and the client part of serverCron): all clients, those to be   *)
(* closed later, those just unblocked, the slaves.  A client may be freed   *)
(* from many places, by another client's command too; its flags tell which  *)
(* lists it must be taken out of.                                           *)
(*                                                                         *)
(* One turn of the event loop is the phases "poll" (file events), "cron",   *)
(* "repl" (serverCron before and after the end of a pause is looked for)    *)
(* and "sleep" (beforeSleep).                                               *)
(***************************************************************************)
EXTENDS Integers, Sequences, SequencesExt, FiniteSets, FiniteSetsExt

CONSTANTS Ids,        \* clients, as numbers in the order they connect
          Master,     \* the client that is the link to our master, or 0
          MaxClients, \* server.maxclients
          MaxCmds,    \* bound: requests
          Cmds        \* the commands that clients send

ClientsAssumption ==
    Ids \subseteq Nat \ {0} /\ Master \in Ids \cup {0} /\ MaxClients \in Nat /\ MaxCmds \in Nat

VARIABLES S,      \* the server: lists, flags, freed clients
          pend,   \* clients with a request in the query buffer
          cmds,   \* requests sent
          phase,
          fired   \* clients whose event has been handled in this turn, or this cron

vars == <<S, pend, cmds, phase, fired>>

Has(s, x, f) == f \in s.fl[x]
Set(s, x, f) == [s EXCEPT !.fl[x] = @ \cup {f}]
Clear(s, x, f) == [s EXCEPT !.fl[x] = @ \ {f}]
\* listSearchKey and listDelNode: the first node that holds x.
Del(seq, x) ==
    LET at == {i \in DOMAIN seq : seq[i] = x} IN IF at = {} THEN seq ELSE RemoveAt(seq, Min(at))
\* A list that must hold x and does not fails an assertion.
Missing(s, x) ==
    \/ Has(s, x, "unblocked") /\ ~Contains(s.unblocked, x)
    \/ Has(s, x, "slave") /\ ~Contains(s.slaves, x)
    \/ Has(s, x, "asap") /\ ~Contains(s.toclose, x)

\* Nobody looks whether x is queued already; twice remembers those that were.
Enqueue(s, x) ==
    [Set(s, x, "unblocked") EXCEPT !.unblocked = Append(@, x),
                                   !.twice = IF Contains(s.unblocked, x) THEN @ \cup {x} ELSE @]
unblockClient(s, x) == Enqueue(Clear(s, x, "blocked"), x)

-----------------------------------------------------------------------------
(* Freeing a client                                                         *)

\* freeClient for anything but a master.
freeOne_LeavesClose(s, x) ==
    LET u == IF Has(s, x, "blocked") THEN unblockClient(s, x) ELSE s
    IN  [u EXCEPT !.clients = Del(@, x),
                  !.unblocked = IF Has(u, x, "unblocked") THEN Del(@, x) ELSE @,
                  !.slaves = IF Has(u, x, "slave") THEN Del(@, x) ELSE @,
                  !.fl[x] = {}, !.freed = @ \cup {x}, !.bad = @ \/ Missing(u, x)]
freeOne(s, x) ==
    LET u == IF Has(s, x, "blocked") THEN unblockClient(s, x) ELSE s
    IN  [u EXCEPT !.clients = Del(@, x),
                  !.unblocked = IF Has(u, x, "unblocked") THEN Del(@, x) ELSE @,
                  !.slaves = IF Has(u, x, "slave") THEN Del(@, x) ELSE @,
                  !.toclose = IF Has(u, x, "asap") THEN Del(@, x) ELSE @,
                  !.fl[x] = {}, !.freed = @ \cup {x}, !.bad = @ \/ Missing(u, x)]
disconnectSlaves(s) == FoldLeft(freeOne, s, s.slaves)
\* replicationHandleMasterDisconnection; the structure is kept if its state is clean.
replicationCacheMaster(s, x) ==
    disconnectSlaves([s EXCEPT !.clients = Del(@, x), !.link = "cached"])
freeClient(s, x) ==
    IF ~Has(s, x, "master") THEN freeOne(s, x)
    ELSE IF s.fl[x] \cap {"closing", "asap", "blocked", "unblocked"} = {} THEN replicationCacheMaster(s, x)
    ELSE [disconnectSlaves(freeOne(s, x)) EXCEPT !.link = "down"]

freeClientAsync(s, x) ==
    IF Has(s, x, "asap") THEN s ELSE [Set(s, x, "asap") EXCEPT !.toclose = Append(@, x)]
\* The queue is emptied from its head; the flag is cleared so that freeClient leaves it.
freeClientsInAsyncFreeQueue(s) ==
    FoldLeft(LAMBDA t, i : IF t.toclose = <<>> THEN t
                           ELSE LET x == Head(t.toclose)
                                    g == freeClient(Clear(t, x, "asap"), x)
                                IN  [g EXCEPT !.toclose = Del(@, x)],
             s, [i \in 1..Len(s.toclose) |-> i])

-----------------------------------------------------------------------------
(* Pauses                                                                   *)

\* clientsArePaused when the time is over: everybody's input is looked at again.
PauseOver(s) ==
    FoldLeft(LAMBDA t, x : IF Has(t, x, "slave") \/ Has(t, x, "blocked") THEN t
                           ELSE Enqueue(t, x),
             [s EXCEPT !.paused = FALSE], s.clients)
\* over: has the time run out, if there is a pause?
clientsArePaused(s, over) == IF s.paused /\ over THEN PauseOver(s) ELSE s

-----------------------------------------------------------------------------
(* Commands                                                                 *)

Next1(seq, x) == LET i == Min({j \in DOMAIN seq : seq[j] = x}) IN IF i = Len(seq) THEN 0 ELSE seq[i + 1]
\* CLIENT KILL: the iterator has the next node in hand while a client is freed.
KillTurn(w, x, match) ==
    IF w.cur = 0 THEN w
    ELSE IF w.cur \in w.s.freed THEN [w EXCEPT !.s.bad = TRUE, !.cur = 0]
    ELSE [s |-> IF w.cur \notin match THEN w.s
                ELSE IF w.cur = x THEN Set(w.s, x, "closing") ELSE freeClient(w.s, w.cur),
          cur |-> Next1(w.s.clients, w.cur)]
clientKill(s, x, match) ==
    FoldLeft(LAMBDA w, i : KillTurn(w, x, match), [s |-> s, cur |-> Head(s.clients)],
             [i \in 1..Len(s.clients) |-> i]).s

\* What the command named k does when x sends it.  Targets are all clients, a type, or one.
Run(s, x, k) ==
    CASE k = "block" -> {Set(s, x, "blocked")}
      [] k = "push" -> LET b == SelectSeq(s.clients, LAMBDA y : Has(s, y, "blocked"))
                       IN  {IF b = <<>> THEN s ELSE unblockClient(s, Head(b))}
      [] k = "kill" -> {clientKill(s, x, {y}) : y \in Ids \ s.freed}
      [] k = "killtype" -> {clientKill(s, x, {y \in Ids : ~Has(s, y, "master") /\ Has(s, y, "slave") = b} \ {x})
                              : b \in BOOLEAN}
      [] k = "pause" -> {[s EXCEPT !.paused = TRUE]}
      [] k = "quit" -> {Set(s, x, "closing")}
      [] k = "publish" -> {freeClientAsync(s, y) : y \in ToSet(s.clients)}
      [] k = "sync" -> {IF Has(s, x, "slave") THEN s
                        ELSE [Set(s, x, "slave") EXCEPT !.slaves = Append(@, x)]}

\* processInputBuffer with one request; over: if there is a pause, its time is over.
May(s, x) == ~Has(s, x, "blocked") /\ ~Has(s, x, "closing")
processInputBuffer(s, x, over) ==
    LET t == IF Has(s, x, "slave") THEN s ELSE clientsArePaused(s, over)
    IN  IF (t.paused /\ ~Has(t, x, "slave")) \/ ~May(t, x)
        THEN S' = t /\ pend' = pend \cup {x} /\ UNCHANGED cmds
        ELSE /\ \E k \in Cmds : (Has(t, x, "master") => k = "push") /\ S' \in Run(t, x, k)
             /\ pend' = pend \ {x} /\ cmds' = cmds + 1

-----------------------------------------------------------------------------
(* Events                                                                   *)

Live(x) == Contains(S.clients, x)

\* One client too many is told so and freed at once.
acceptCommonHandler(x) ==
    /\ phase = "poll" /\ x \notin S.freed /\ ~Live(x) /\ x # Master
    /\ \A y \in Ids \ {Master} : y < x => y \in S.freed \/ Live(y)
    /\ LET s == [S EXCEPT !.clients = Append(@, x)]
       IN  S' = IF Len(s.clients) > MaxClients THEN freeClient(s, x) ELSE s
    /\ UNCHANGED <<pend, cmds, phase, fired>>
readQueryFromClient(x, over) ==
    /\ phase = "poll" /\ Live(x) /\ x \notin pend /\ cmds < MaxCmds
    /\ x \notin fired /\ fired' = fired \cup {x}
    /\ processInputBuffer(S, x, over) /\ UNCHANGED phase
\* End of the connection, or an error.
readEOF(x) ==
    /\ phase = "poll" /\ Live(x) /\ x \notin fired
    /\ S' = freeClient(S, x) /\ pend' = pend \ {x} /\ UNCHANGED <<cmds, phase, fired>>
\* The reply of a client to be closed after it has been written.
sendReplyToClient(x) ==
    /\ phase = "poll" /\ Live(x) /\ Has(S, x, "closing") /\ x \notin fired
    /\ S' = freeClient(S, x) /\ UNCHANGED <<pend, cmds, phase, fired>>

\* serverCron: clientsCron frees idle clients and ends waits that time out.
serverCron == phase = "poll" /\ phase' = "cron" /\ fired' = {} /\ UNCHANGED <<S, pend, cmds>>
clientsCronHandleTimeout(x) ==
    /\ phase = "cron" /\ Live(x) /\ ~Has(S, x, "slave") /\ ~Has(S, x, "master")
    /\ x \notin fired /\ fired' = fired \cup {x}
    /\ S' = IF Has(S, x, "blocked") THEN unblockClient(S, x) ELSE freeClient(S, x)
    /\ UNCHANGED <<pend, cmds, phase>>
asyncClose(over) ==
    /\ phase = "cron" /\ S' = clientsArePaused(freeClientsInAsyncFreeQueue(S), over)
    /\ phase' = "repl" /\ UNCHANGED <<pend, cmds, fired>>
\* replicationCron: a slave, or the master, has been silent for too long.
replicationTimeout(x) ==
    /\ phase = "repl" /\ Live(x) /\ (Has(S, x, "slave") \/ Has(S, x, "master"))
    /\ S' = freeClient(S, x) /\ UNCHANGED <<pend, cmds, phase, fired>>

beforeSleep == phase \in {"poll", "repl"} /\ phase' = "sleep" /\ UNCHANGED <<S, pend, cmds, fired>>
\* processUnblockedClients: one turn of its loop.
processUnblockedClients(over) ==
    LET x == Head(S.unblocked)
        s == [Clear(S, x, "unblocked") EXCEPT !.unblocked = Tail(@), !.bad = @ \/ x \in S.freed]
    IN  /\ phase = "sleep" /\ S.unblocked # <<>>
        /\ IF x \in pend /\ x \notin S.freed THEN processInputBuffer(s, x, over)
           ELSE S' = s /\ UNCHANGED <<pend, cmds>>
        /\ UNCHANGED <<phase, fired>>
aeMain ==
    /\ phase = "sleep" /\ S.unblocked = <<>> /\ phase' = "poll" /\ fired' = {} /\ UNCHANGED <<S, pend, cmds>>

\* PSYNC succeeds (replicationResurrectCachedMaster), or fails and the structure goes.
replicationResurrectCachedMaster ==
    /\ phase = "poll" /\ S.link = "cached"
    /\ S' = [S EXCEPT !.clients = Append(@, Master), !.link = "up", !.fl[Master] = {"master"}]
    /\ UNCHANGED <<pend, cmds, phase, fired>>
replicationDiscardCachedMaster ==
    /\ phase = "poll" /\ S.link = "cached"
    /\ S' = [freeOne(Clear(S, Master, "master"), Master) EXCEPT !.link = "down"]
    /\ UNCHANGED <<pend, cmds, phase, fired>>

Init ==
    /\ S = [clients |-> IF Master = 0 THEN <<>> ELSE <<Master>>, toclose |-> <<>>, unblocked |-> <<>>,
            slaves |-> <<>>, fl |-> [x \in Ids |-> IF x = Master THEN {"master"} ELSE {}],
            freed |-> {}, link |-> IF Master = 0 THEN "none" ELSE "up", paused |-> FALSE, bad |-> FALSE,
            twice |-> {}]
    /\ pend = {} /\ cmds = 0 /\ phase = "poll" /\ fired = {}

Next ==
    \/ \E x \in Ids : acceptCommonHandler(x) \/ readEOF(x) \/ sendReplyToClient(x)
                      \/ clientsCronHandleTimeout(x) \/ replicationTimeout(x)
    \/ \E x \in Ids, over \in BOOLEAN : readQueryFromClient(x, over)
    \/ \E over \in BOOLEAN : asyncClose(over) \/ processUnblockedClients(over)
    \/ serverCron \/ beforeSleep \/ aeMain
    \/ replicationResurrectCachedMaster \/ replicationDiscardCachedMaster

Spec == Init /\ [][Next]_vars

\* The event loop goes round, and the time of a pause runs out.
Weak(i) ==
    \/ i = 1 /\ beforeSleep
    \/ i = 2 /\ aeMain
    \/ i = 3 /\ asyncClose(TRUE)
    \/ i = 4 /\ \E over \in BOOLEAN : processUnblockedClients(over)
Strong(i) == i = 1 /\ serverCron

-----------------------------------------------------------------------------
\* Lists hold clients, no more than the server admits; one that is gone has no flags.
TypeOK ==
    /\ ToSet(S.clients) \cup ToSet(S.toclose) \cup ToSet(S.unblocked) \cup ToSet(S.slaves) \subseteq Ids
    /\ Cardinality(ToSet(S.clients) \ {Master}) <= MaxClients
    /\ \A x \in S.freed : S.fl[x] = {}

\* No list keeps a client that has been freed, and none is used: whoever frees a client
\* takes it out of every list ("When client was just unblocked because of a blocking
\* operation, remove it from the list of unblocked clients", networking.c:750).
Dangling ==
    (ToSet(S.clients) \cup ToSet(S.toclose) \cup ToSet(S.unblocked) \cup ToSet(S.slaves)) \cap S.freed
NoDangling == ~S.bad /\ Dangling = {}
\* It fails for no client but one that was queued when it was in the queue already, by the end
\* of a pause (networking.c:1737) and unblockClient (blocked.c:145): freeClient takes it out of
\* the queue once, and processUnblockedClients uses it afterwards.
DanglingQueuedTwice == Dangling \subseteq S.twice /\ (S.bad => S.twice # {})

\* The flags say exactly which lists a client is in, and it is in none of them twice.
FlagsMatchLists ==
    \A x \in Ids \ S.freed :
       /\ Has(S, x, "asap") <=> Contains(S.toclose, x)
       /\ Has(S, x, "unblocked") <=> Contains(S.unblocked, x)
       /\ Has(S, x, "slave") <=> Contains(S.slaves, x)
       /\ \A q \in {S.clients, S.toclose, S.unblocked, S.slaves} : Cardinality({i \in DOMAIN q : q[i] = x}) <= 1

\* A request that waits has a reason to wait: a pause, a block, a close; else the client
\* is in the queue that will come to it.  (What a master had sent before it was lost and
\* found again is looked at with its next input.)
NotForgotten ==
    \A x \in pend \ {Master} : Live(x) => S.paused \/ ~May(S, x) \/ Contains(S.unblocked, x)

\* The slaves of a server that has lost its master are gone too ("force our slaves to
\* resync with us as well", networking.c:675).
SlavesFollow == S.link = "up" /\ S'.link # "up" => S'.slaves = <<>>

\* A client is scheduled to be closed, and must not be for ever.
Unfinished(k) == k \in Ids /\ Contains(S.toclose, k)
=============================================================================
