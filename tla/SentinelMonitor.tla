--------------------------- MODULE SentinelMonitor ---------------------------
(***************************************************************************)
(* How a Sentinel watches one instance (sentinel.c): its command and        *)
(* Pub/Sub links, the commands that wait for replies, PING and INFO, the    *)
(* subjectively-down flag, and the TILT mode that guards against jumps of   *)
(* the clock.                                                              *)
(*                                                                         *)
(* A time is kept as its age, now minus the time, up to MaxAge; a jump of   *)
(* the clock moves all ages.  AUTH is not configured.  When a Pub/Sub link  *)
(* is too quiet is not told apart: it may be killed at any timer.  The role *)
(* that an instance reports, the other cause of S_DOWN, is left out.        *)
(***************************************************************************)
EXTENDS Integers, Sequences

CONSTANTS
    Kind,         \* "redis": a master or slave; "sentinel": no INFO and no Pub/Sub link
    PingPeriod, InfoPeriod, PublishPeriod, DownAfter, TiltTrigger, TiltPeriod, MinReconnect, MaxPending,
    Forward, Back,          \* bounds: largest jumps of the clock
    MaxAge,                 \* bound: ages that are told apart
    MaxJumps, MaxErrors,    \* bounds: jumps of the clock; links that break, cannot be set up or are too quiet
    MaxHangs                \* bound: how often the instance stops to answer

SentinelMonitorAssumption ==
    /\ Kind \in {"redis", "sentinel"}
    /\ {PingPeriod, InfoPeriod, PublishPeriod, DownAfter, TiltTrigger, TiltPeriod, MinReconnect, MaxPending, Forward, Back,
        MaxAge, MaxJumps, MaxErrors, MaxHangs} \subseteq Nat
    /\ MaxAge > DownAfter /\ MaxAge > InfoPeriod /\ MaxAge > TiltPeriod /\ MaxAge > TiltTrigger

VARIABLES
    ri,     \* the instance: links, outstanding commands, flags
    age,    \* ages of last_ping_time, last_pong_time, info_refresh, last_pub_time, cc_conn_time, previous_time, tilt_start_time
    tilt, alive, jumps, errors, hangs

vars == <<ri, age, tilt, alive, jumps, errors, hangs>>

Saturated(x) == IF x > MaxAge THEN MaxAge ELSE IF x < -MaxAge THEN -MaxAge ELSE x

-----------------------------------------------------------------------------
(* Links.  s = [ri, age]                                                    *)

Fresh(s, f) == [s.age EXCEPT ![f] = 0]
sentinelKillLink(s, link) ==
    [s EXCEPT !.ri = IF link = "cc" THEN [@ EXCEPT !.cc = FALSE, !.ccq = <<>>, !.pending = 0, !.disc = TRUE]
                     ELSE [@ EXCEPT !.pc = FALSE, !.pcq = 0, !.disc = TRUE]]

redisAsyncCommand(s, cmd) == [s EXCEPT !.ri.ccq = Append(@, cmd), !.ri.pending = @ + 1]
\* The time of the first ping without a reply counts.
sentinelSendPing(s) ==
    LET t == redisAsyncCommand(s, "ping")
    IN  IF s.ri.pinging THEN t ELSE [ri |-> [t.ri EXCEPT !.pinging = TRUE], age |-> Fresh(t, "ping")]
\* The command link: CLIENT SETNAME, and a PING at once.
ConnectCc(s, ok) ==
    IF s.ri.cc THEN s
    ELSE IF ~ok THEN sentinelKillLink(s, "cc")
    ELSE sentinelSendPing(redisAsyncCommand([ri |-> [s.ri EXCEPT !.cc = TRUE], age |-> Fresh(s, "conn")], "setname"))
\* The Pub/Sub link: CLIENT SETNAME is counted, SUBSCRIBE is not.
ConnectPc(s, ok) ==
    IF s.ri.pc \/ Kind = "sentinel" THEN s
    ELSE IF ~ok THEN sentinelKillLink(s, "pc")
    ELSE [s EXCEPT !.ri.pc = TRUE, !.ri.pcq = 1, !.ri.pending = @ + 1]
sentinelReconnectInstance(s, ok) ==
    IF ~s.ri.disc THEN s
    ELSE LET t == ConnectPc(ConnectCc(s, ok), ok)
         IN  [t EXCEPT !.ri.disc = ~(t.ri.cc /\ (t.ri.pc \/ Kind = "sentinel"))]

-----------------------------------------------------------------------------
(* The timer                                                                *)

\* INFO, or PING, or a hello message.
sentinelSendPeriodicCommands(s) ==
    IF s.ri.disc \/ s.ri.pending >= MaxPending THEN s
    ELSE IF Kind = "redis" /\ s.age.info > InfoPeriod THEN redisAsyncCommand(s, "info")
    ELSE IF s.age.pong > PingPeriod THEN sentinelSendPing(s)
    ELSE IF s.age.pub > PublishPeriod THEN redisAsyncCommand(s, "hello")
    ELSE s

sentinelCheckTiltCondition(a) == a.prev < 0 \/ a.prev > TiltTrigger

\* Links that are too quiet are killed; then the flag.
sentinelCheckSubjectivelyDown(s, quiet) ==
    LET t == IF s.ri.cc /\ s.age.conn > MinReconnect /\ s.ri.pinging
                /\ s.age.ping > DownAfter \div 2 /\ s.age.pong > DownAfter \div 2
             THEN sentinelKillLink(s, "cc") ELSE s
        u == IF t.ri.pc /\ quiet THEN sentinelKillLink(t, "pc") ELSE t
    IN  [u EXCEPT !.ri.sdown = s.ri.pinging /\ s.age.ping > DownAfter]

sentinelTimer(ok, quiet) ==
    LET tilted == sentinelCheckTiltCondition(age)
        a  == [age EXCEPT !.prev = 0, !.tilt = IF tilted THEN 0 ELSE @]
        s  == sentinelSendPeriodicCommands(sentinelReconnectInstance([ri |-> ri, age |-> a], ok))
        stays == (tilt \/ tilted) /\ a.tilt < TiltPeriod
        t  == IF stays THEN s ELSE sentinelCheckSubjectivelyDown(s, quiet)
    IN  /\ ok \/ (ri.disc /\ errors < MaxErrors)
        /\ quiet => ok /\ ri.pc /\ errors < MaxErrors
        /\ errors' = IF ok /\ ~quiet THEN errors ELSE errors + 1
        /\ tilt' = stays /\ ri' = t.ri /\ age' = t.age
        /\ UNCHANGED <<alive, jumps, hangs>>

-----------------------------------------------------------------------------
(* Replies, broken links, the instance and the clock                        *)

\* The reply to the oldest command.
reply ==
    /\ alive /\ ri.cc /\ ri.ccq # <<>>
    /\ LET c == Head(ri.ccq) IN
       /\ ri' = [ri EXCEPT !.ccq = Tail(@), !.pending = @ - 1, !.pinging = @ /\ c # "ping"]
       /\ age' = [age EXCEPT !.pong = IF c = "ping" THEN 0 ELSE @, !.info = IF c = "info" THEN 0 ELSE @,
                           !.pub = IF c = "hello" THEN 0 ELSE @]
    /\ UNCHANGED <<tilt, alive, jumps, errors, hangs>>
replyPc ==
    /\ alive /\ ri.pc /\ ri.pcq > 0 /\ ri' = [ri EXCEPT !.pcq = 0, !.pending = @ - 1]
    /\ UNCHANGED <<age, tilt, alive, jumps, errors, hangs>>
\* hiredis calls the callbacks of all commands that wait, with no reply, and then this.
sentinelDisconnectInstanceFromContext(link) ==
    /\ errors < MaxErrors /\ errors' = errors + 1
    /\ \/ /\ link = "cc" /\ ri.cc
          /\ ri' = [ri EXCEPT !.cc = FALSE, !.ccq = <<>>, !.pending = @ - Len(ri.ccq), !.disc = TRUE]
       \/ /\ link = "pc" /\ ri.pc
          /\ ri' = [ri EXCEPT !.pc = FALSE, !.pcq = 0, !.pending = @ - ri.pcq, !.disc = TRUE]
    /\ UNCHANGED <<age, tilt, alive, jumps, hangs>>
\* The instance stops to answer, between two bursts of commands, or answers again.
hang ==
    /\ alive /\ ri.ccq = <<>> /\ hangs < MaxHangs /\ alive' = FALSE /\ hangs' = hangs + 1
    /\ UNCHANGED <<ri, age, tilt, jumps, errors>>
wake == ~alive /\ hangs < MaxHangs /\ alive' = TRUE /\ UNCHANGED <<ri, age, tilt, jumps, errors, hangs>>
Later(d) == [f \in DOMAIN age |-> Saturated(age[f] + d)]
\* Time goes on; a timer comes between two ticks, and an instance that is up answers within one.
tick ==
    /\ age.prev = 0 /\ (alive => ri.ccq = <<>> /\ ri.pcq = 0)
    /\ age' = Later(1) /\ UNCHANGED <<ri, tilt, alive, jumps, errors, hangs>>
\* The clock is set, or the process was stopped.
jump(d) ==
    /\ jumps < MaxJumps /\ jumps' = jumps + 1 /\ age' = Later(d)
    /\ UNCHANGED <<ri, tilt, alive, errors, hangs>>

Init ==
    /\ ri = [cc |-> FALSE, pc |-> FALSE, ccq |-> <<>>, pcq |-> 0, pending |-> 0, disc |-> TRUE, pinging |-> TRUE, sdown |-> FALSE]
    /\ age = [ping |-> 0, pong |-> 0, info |-> MaxAge, pub |-> 0, conn |-> 0, prev |-> 0, tilt |-> 0]
    /\ tilt = FALSE /\ alive = TRUE /\ jumps = 0 /\ errors = 0 /\ hangs = 0
Timer == age.prev # 0 /\ \E ok, quiet \in BOOLEAN : sentinelTimer(ok, quiet)
TimerOk == age.prev # 0 /\ sentinelTimer(TRUE, FALSE)
Next ==
    \/ Timer \/ reply \/ replyPc \/ hang \/ wake \/ tick
    \/ \E l \in {"cc", "pc"} : sentinelDisconnectInstanceFromContext(l)
    \/ \E d \in (-Back..Forward) \ {0} : jump(d)
Spec == Init /\ [][Next]_vars
\* Time goes on, the timer runs, and replies that come are read.
Weak(i) ==
    \/ i = 1 /\ tick
    \/ i = 2 /\ TimerOk
    \/ i = 3 /\ reply
    \/ i = 4 /\ replyPc

-----------------------------------------------------------------------------
TypeOK ==
    /\ ri.pending \in -1..(MaxPending + 4) /\ ri.pcq \in 0..1 /\ Len(ri.ccq) <= MaxPending + 3
    /\ \A f \in DOMAIN age : age[f] \in -MaxAge..MaxAge

\* An instance that answers within a tick is not taken for down, whatever the clock does.
NoFalseSDown == ri'.sdown /\ ~ri.sdown => ~alive

\* pending_commands is the number of commands that wait for a reply.
PendingExact == ri.pending = Len(ri.ccq) + ri.pcq

\* An instance that does not answer is down, one that answers is not: for good, once
\* it goes on as it is.
Settled == ri.sdown <=> ~alive
=============================================================================
