---------------------------- MODULE ClientInput ----------------------------
(***************************************************************************)
(* How redis turns the bytes of a connection into commands (networking.c:   *)
(* readQueryFromClient, processInputBuffer and the two parsers), while the  *)
(* client is blocked and unblocked and while all clients are paused.        *)
(*                                                                         *)
(* The bytes are tokens: "*n" and "$n" are the starts of header lines, CR   *)
(* and LF are on their own, anything else is a byte of data.  The network   *)
(* splits them anywhere.  What a parser has consumed is taken off the query *)
(* buffer at once (the code keeps a position and trims at the end).         *)
(***************************************************************************)
EXTENDS Integers, Sequences, SequencesExt, FiniteSetsExt, TLC

CONSTANTS Streams,    \* sequences of requests [kind, args] of a client
          ReadLen,    \* REDIS_IOBUF_LEN
          Big,        \* REDIS_MBULK_BIG_ARG
          InlineMax,  \* REDIS_INLINE_MAX_SIZE
          QbMax,      \* client_max_querybuf_len
          MaxPauses,  \* bound: pauses
          IsMaster    \* is the client the link to our master?

ClientInputAssumption ==
    /\ ReadLen \in Nat \ {0} /\ Big \in Nat /\ InlineMax \in Nat /\ QbMax \in Nat
    /\ MaxPauses \in Nat /\ IsMaster \in BOOLEAN

VARIABLES
    stream,    \* what the client wants to say
    net,       \* bytes of it on their way
    cl,        \* the client: querybuf, reqtype, multibulklen, bulklen, argv, flags
    executed,  \* history: the commands processCommand has been given
    paused, pauses

vars == <<stream, net, cl, executed, paused, pauses>>

MbLen == "*0" :> 0 @@ "*1" :> 1 @@ "*2" :> 2
BulkLen == "$0" :> 0 @@ "$1" :> 1 @@ "$2" :> 2 @@ "$3" :> 3

-----------------------------------------------------------------------------
(* The protocol, as a client writes it                                      *)

EOL == <<"cr", "lf">>
StarToken(n) == CHOOSE t \in DOMAIN MbLen : MbLen[t] = n
BulkToken(n) == CHOOSE t \in DOMAIN BulkLen : BulkLen[t] = n
Encode(r) ==
    CASE r.kind = "multi" ->
            FoldLeft(LAMBDA s, a : s \o <<BulkToken(Len(a))>> \o EOL \o a \o EOL,
                     <<StarToken(Len(r.args))>> \o EOL, r.args)
      [] r.kind = "inline" -> FlattenSeq(r.args) \o EOL
      [] r.kind = "inlinelf" -> FlattenSeq(r.args) \o <<"lf">>
      [] r.kind = "bad" -> <<"*1">> \o EOL \o <<"x">> \o EOL
\* The commands the requests mean: none for an empty one, or from a bad one on.
Meant(s) ==
    LET bad == {i \in 1..Len(s) : s[i].kind = "bad"}
        good == SubSeq(s, 1, Min(bad \cup {Len(s) + 1}) - 1)
    IN  SelectSeq([i \in 1..Len(good) |-> good[i].args], LAMBDA a : a # <<>>)

-----------------------------------------------------------------------------
(* Parsing, as functions of the client c                                    *)

NewClient == [qb |-> <<>>, req |-> "none", mbl |-> 0, bl |-> -1, argv |-> <<>>,
              blocked |-> FALSE, unblocked |-> FALSE, closing |-> FALSE, reply |-> FALSE,
              alive |-> TRUE, eof |-> FALSE]

First(s, t) == LET at == {i \in 1..Len(s) : s[i] = t} IN IF at = {} THEN 0 ELSE Min(at)
After(s, n) == SubSeq(s, n + 1, Len(s))
Blocks(args) == args[1] = <<"b">>

\* addReplyError and setProtocolError: a master is sent no reply.
setProtocolError(c) == [c EXCEPT !.closing = TRUE, !.reply = @ \/ ~IsMaster]

resetClient(c) == [c EXCEPT !.req = "none", !.mbl = 0, !.bl = -1, !.argv = <<>>]

\* The result of a parser: the client, and whether a whole request is there.
Yes(c) == [c |-> c, ok |-> TRUE]
No(c) == [c |-> c, ok |-> FALSE]

\* A line ends at LF, or at CR LF; two bytes are taken off with it.
processInlineBuffer(c) ==
    LET lf == First(c.qb, "lf")
        n == IF lf > 1 /\ c.qb[lf - 1] = "cr" THEN lf - 2 ELSE lf - 1
        line == SubSeq(c.qb, 1, n)
    IN  IF lf = 0 THEN No(IF Len(c.qb) > InlineMax THEN setProtocolError(c) ELSE c)
        ELSE Yes([c EXCEPT !.qb = After(c.qb, n + 2), !.argv = IF n = 0 THEN <<>> ELSE <<line>>])

\* The loop body of processMultibulkBuffer; go: there may be more to do.
BulkHeader(c) ==
    LET cr == First(c.qb, "cr")
    IN  IF c.bl # -1 THEN [c |-> c, go |-> TRUE]
        ELSE IF cr = 0
        THEN [c |-> IF Len(c.qb) > InlineMax THEN setProtocolError(c) ELSE c, go |-> FALSE]
        ELSE IF cr + 1 > Len(c.qb) THEN [c |-> c, go |-> FALSE]
        ELSE IF cr # 2 \/ c.qb[1] \notin DOMAIN BulkLen THEN [c |-> setProtocolError(c), go |-> FALSE]
        ELSE [c |-> [c EXCEPT !.bl = BulkLen[c.qb[1]], !.qb = After(c.qb, cr + 1)], go |-> TRUE]
BulkArgument(h) ==
    LET c == h.c
    IN  IF ~h.go \/ Len(c.qb) < c.bl + 2 THEN [c |-> c, go |-> FALSE]
        ELSE [c |-> [c EXCEPT !.argv = Append(@, SubSeq(c.qb, 1, c.bl)), !.qb = After(c.qb, c.bl + 2),
                              !.bl = -1, !.mbl = @ - 1], go |-> TRUE]
Arguments(c) ==
    LET r == FoldLeft(LAMBDA h, i : IF h.go /\ h.c.mbl > 0 THEN BulkArgument(BulkHeader(h.c)) ELSE h,
                      [c |-> c, go |-> TRUE], [i \in 1..c.mbl |-> i]).c
    IN  IF r.mbl = 0 THEN Yes(r) ELSE No(r)
processMultibulkBuffer(c) ==
    LET cr == First(c.qb, "cr")
    IN  IF c.mbl > 0 THEN Arguments(c)
        ELSE IF cr = 0 THEN No(IF Len(c.qb) > InlineMax THEN setProtocolError(c) ELSE c)
        ELSE IF cr + 1 > Len(c.qb) THEN No(c)
        ELSE IF cr # 2 THEN No(setProtocolError(c))
        ELSE IF MbLen[c.qb[1]] = 0 THEN Yes([c EXCEPT !.qb = After(c.qb, cr + 1)])
        ELSE Arguments([c EXCEPT !.mbl = MbLen[c.qb[1]], !.qb = After(c.qb, cr + 1)])

\* One turn of the loop of processInputBuffer; w = [c, done, go].
Turn(w) ==
    LET c == w.c
        req == IF c.req # "none" THEN c.req ELSE IF c.qb[1] \in DOMAIN MbLen THEN "multi" ELSE "inline"
        d == [c EXCEPT !.req = req]
        p == IF req = "inline" THEN processInlineBuffer(d) ELSE processMultibulkBuffer(d)
    IN  IF ~w.go \/ c.qb = <<>> \/ paused \/ c.blocked \/ c.closing THEN [w EXCEPT !.go = FALSE]
        ELSE IF ~p.ok THEN [w EXCEPT !.c = p.c, !.go = FALSE]
        ELSE IF p.c.argv = <<>> THEN [w EXCEPT !.c = resetClient(p.c)]
        ELSE [c |-> [resetClient(p.c) EXCEPT !.reply = @ \/ ~IsMaster, !.blocked = Blocks(p.c.argv)],
              done |-> Append(w.done, p.c.argv), go |-> TRUE]
processInputBuffer(c) ==
    LET r == FoldLeft(LAMBDA w, i : Turn(w), [c |-> c, done |-> executed, go |-> TRUE],
                      [i \in 1..Len(c.qb) |-> i])
    IN  cl' = r.c /\ executed' = r.done

freeClient(c) == [c EXCEPT !.alive = FALSE, !.unblocked = FALSE, !.blocked = FALSE]

-----------------------------------------------------------------------------
(* Events                                                                   *)

\* For a big argument no more is read than belongs to it.
readlen ==
    IF cl.req = "multi" /\ cl.mbl > 0 /\ cl.bl # -1 /\ cl.bl >= Big
    THEN Min({ReadLen, cl.bl + 2 - Len(cl.qb)}) ELSE ReadLen

\* A read of no bytes is taken for the end of the connection.
readQueryFromClient(n) ==
    /\ cl.alive /\ net # <<>>
    /\ n \in 1..Min({readlen, Len(net)}) \/ (readlen = 0 /\ n = 0)
    /\ net' = After(net, n)
    /\ LET c == [cl EXCEPT !.qb = @ \o SubSeq(net, 1, n)]
       IN  IF n = 0 \/ Len(c.qb) > QbMax
           THEN cl' = freeClient(c) /\ UNCHANGED executed
           ELSE processInputBuffer(c)
    /\ UNCHANGED <<stream, paused, pauses>>

\* The client closes its side and what it has sent has been read.
readEOF ==
    /\ cl.alive /\ net = <<>> /\ cl' = [freeClient(cl) EXCEPT !.eof = TRUE]
    /\ UNCHANGED <<stream, net, executed, paused, pauses>>

\* unblockClient: what the client waits for has come, or its timeout.
unblockClient ==
    /\ cl.alive /\ cl.blocked /\ cl' = [cl EXCEPT !.blocked = FALSE, !.unblocked = TRUE]
    /\ UNCHANGED <<stream, net, executed, paused, pauses>>

\* processUnblockedClients, in beforeSleep.
processUnblockedClients ==
    /\ cl.alive /\ cl.unblocked /\ processInputBuffer([cl EXCEPT !.unblocked = FALSE])
    /\ UNCHANGED <<stream, net, paused, pauses>>

pauseClients ==
    /\ pauses < MaxPauses /\ pauses' = pauses + 1 /\ ~paused /\ paused' = TRUE
    /\ UNCHANGED <<stream, net, cl, executed>>

\* clientsArePaused at the end of a pause, from serverCron: the input is looked at again.
PauseOver_Forgets(c) == c
PauseOver(c) == IF c.alive /\ ~c.blocked THEN [c EXCEPT !.unblocked = TRUE] ELSE c
clientsArePaused ==
    /\ paused /\ paused' = FALSE /\ cl' = PauseOver(cl)
    /\ UNCHANGED <<stream, net, executed, pauses>>

\* sendReplyToClient has written everything.
sendReplyToClient ==
    /\ cl.alive /\ cl.reply
    /\ cl' = IF cl.closing THEN [freeClient(cl) EXCEPT !.reply = FALSE] ELSE [cl EXCEPT !.reply = FALSE]
    /\ UNCHANGED <<stream, net, executed, paused, pauses>>

Init ==
    /\ stream \in Streams /\ net = FlattenSeq([i \in 1..Len(stream) |-> Encode(stream[i])])
    /\ cl = NewClient /\ executed = <<>> /\ paused = FALSE /\ pauses = 0

Next ==
    \/ \E n \in 0..ReadLen : readQueryFromClient(n)
    \/ readEOF
    \/ unblockClient
    \/ processUnblockedClients
    \/ pauseClients
    \/ clientsArePaused
    \/ sendReplyToClient

Spec == Init /\ [][Next]_vars

-----------------------------------------------------------------------------
\* The parser's counters fit each other.
TypeOK ==
    /\ cl.req \in {"none", "inline", "multi"} /\ cl.mbl \in 0..2 /\ cl.bl \in -1..3
    /\ cl.bl # -1 => cl.mbl > 0
    /\ cl.argv # <<>> => cl.mbl > 0

\* However the bytes are split and whenever the client is blocked or paused, what is
\* executed is what was asked for, in order: nothing is cut, merged, skipped or repeated.
ParsedRight == IsPrefix(executed, Meant(stream))

\* Nothing that has arrived in full is left lying: a client in no special state has
\* executed all it has sent ("Put all the clients in the unblocked clients queue in order
\* to force the re-processing of the input buffer", networking.c:1727).
NothingLeft ==
    cl.alive /\ net = <<>> /\ ~paused /\ ~cl.blocked /\ ~cl.unblocked => executed = Meant(stream)

\* While clients are paused no command is executed ("While clients are paused no command is
\* processed from clients", networking.c:1692), nor while the client is blocked.
NotWhilePaused == executed' # executed => ~paused /\ ~cl.blocked /\ ~cl.closing

\* A client is closed when it has closed, broken the protocol, or overrun its buffer.
ClosedForCause == ~cl.alive => cl.eof \/ cl.closing \/ Len(cl.qb) > QbMax

\* A client to be closed after its reply has a reply on its way, which will close it
\* ("REDIS_CLOSE_AFTER_REPLY closes the connection once the reply is written to the
\* client", networking.c:1134).
CloseScheduled == cl.alive /\ cl.closing => cl.reply

=============================================================================
