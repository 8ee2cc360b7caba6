-------------------------- MODULE SentinelElection --------------------------
(***************************************************************************)
(* Redis Sentinel (sentinel.c): the sentinels that watch one master agree   *)
(* that it is down and elect a leader for an epoch.  What the leader then   *)
(* does is in SentinelFailover.                                             *)
(*                                                                         *)
(* The master does not answer.  Clocks are left out: whether a period is    *)
(* over is a choice of each step.  A question and its answer are one step;  *)
(* an answer that is late is one that is lost and asked for again.          *)
(***************************************************************************)
EXTENDS Integers, FiniteSets

CONSTANTS Sentinels,
          Quorum,       \* quorum of "sentinel monitor"
          OtherMasters, \* the sentinels watch other masters, too
          MaxEpoch, MaxLost, MaxRestarts  \* bounds

NoOne == "none"

SentinelElectionAssumption ==
    /\ IsFiniteSet(Sentinels) /\ NoOne \notin Sentinels
    /\ Quorum \in 1..Cardinality(Sentinels) /\ OtherMasters \in BOOLEAN
    /\ {MaxEpoch, MaxLost, MaxRestarts} \subseteq Nat

VARIABLES
    st,      \* per sentinel, its state of the master
    seen,    \* per sentinel, what the others have answered
    disk,    \* per sentinel, the epochs in its configuration file
    won,     \* history: who was elected for which epoch, when which was the current one, by whom
    cast,    \* history: who voted for whom in which epoch
    lost, restarts

vars == <<st, seen, disk, won, cast, lost, restarts>>

NoReply == [down |-> FALSE, leader |-> NoOne, epoch |-> 0]

Others(s) == Sentinels \ {s}
Saved(r) == [cur |-> r.cur, lepoch |-> r.lepoch]
Fresh(d) == [cur |-> d.cur, leader |-> NoOne, lepoch |-> d.lepoch, state |-> "none", fepoch |-> 0,
             sdown |-> FALSE]

-----------------------------------------------------------------------------
\* sentinelVoteLeader: at most one vote in an epoch.
NewEpoch(r, epoch) == [r EXCEPT !.cur = IF epoch > r.cur THEN epoch ELSE @]
sentinelVoteLeader_Again(r, epoch, who) ==
    LET r1 == NewEpoch(r, epoch)
    IN  IF r1.cur <= epoch THEN [r1 EXCEPT !.leader = who, !.lepoch = r1.cur] ELSE r1
sentinelVoteLeader(r, epoch, who) ==
    LET r1 == NewEpoch(r, epoch)
    IN  IF r1.lepoch < epoch /\ r1.cur <= epoch
        THEN [r1 EXCEPT !.leader = who, !.lepoch = r1.cur] ELSE r1

\* Voting writes the configuration file when something has changed.
Flush(d, r, r1) == IF Saved(r1) # Saved(r) THEN Saved(r1) ELSE d

\* A vote given now, for the history.
Given(t, r, r1) ==
    IF r1.lepoch # r.lepoch \/ r1.leader # r.leader THEN {[by |-> t, epoch |-> r1.lepoch, who |-> r1.leader]} ELSE {}

\* sentinelGetLeader, the count of the others' votes.
Voters(s, epoch, who) == {t \in Others(s) : seen[s][t].leader = who /\ seen[s][t].epoch = epoch}
Votes(s, r, who) == Cardinality(Voters(s, r.cur, who))
Most(s, r) == {w \in Sentinels : Votes(s, r, w) > 0 /\ \A v \in Sentinels : Votes(s, r, v) <= Votes(s, r, w)}

Enough_Some(n) == n >= 1
Enough(n) == n >= Quorum /\ n >= Cardinality(Sentinels) \div 2 + 1

\* sentinelGetLeader: s votes for one with most votes or, if nobody has any, for
\* itself, and counts again.  w is the one it found first.
sentinelGetLeader(s, r, w) ==
    LET v       == sentinelVoteLeader(r, r.fepoch, w)
        mine(t) == IF v.leader = t /\ v.lepoch = r.fepoch THEN 1 ELSE 0
        winner  == IF mine(v.leader) = 1 /\ Votes(s, r, v.leader) + 1 > Votes(s, r, w) THEN v.leader ELSE w
    IN  [r |-> v, elected |-> winner = s /\ Enough(Votes(s, r, s) + mine(s))]

-----------------------------------------------------------------------------
\* sentinelCheckObjectivelyDown
ODown_Self(s, r) == r.sdown
ODown(s, r) == r.sdown /\ 1 + Cardinality({t \in Others(s) : seen[s][t].down}) >= Quorum

sentinelStartFailover(r) == [r EXCEPT !.state = "wait_start", !.cur = @ + 1, !.fepoch = r.cur + 1]

\* sentinelStartFailoverIfNeeded; go: failover_start_time is long enough ago.
StartIfNeeded(s, r, go) ==
    IF ODown(s, r) /\ r.state = "none" /\ go /\ r.cur < MaxEpoch THEN sentinelStartFailover(r) ELSE r

\* sentinelHandleRedisInstance for the master: the checks, a new failover if there
\* must be one, and then the wait for the election, which ends with a leader or with
\* the election timeout.
sentinelTimer(s, late, go, timeout) ==
    LET r == StartIfNeeded(s, [st[s] EXCEPT !.sdown = late], go)
    IN  /\ \/ /\ r.state # "wait_start" /\ r # st[s]
              /\ st' = [st EXCEPT ![s] = r] /\ UNCHANGED <<disk, won, cast>>
           \/ /\ r.state = "wait_start"
              /\ \E w \in IF Most(s, r) = {} THEN {s} ELSE Most(s, r) :
                    LET g == sentinelGetLeader(s, r, w)
                        voted == Voters(s, r.fepoch, s)
                                 \cup {t \in {s} : g.r.leader = s /\ g.r.lepoch = r.fepoch}
                    IN  /\ st' = [st EXCEPT ![s] = [g.r EXCEPT !.state = IF g.elected THEN "leader"
                                                                       ELSE IF timeout THEN "none" ELSE @]]
                        /\ disk' = [disk EXCEPT ![s] = Flush(@, r, g.r)]
                        /\ cast' = cast \cup Given(s, r, g.r)
                        /\ won' = IF g.elected
                               THEN won \cup {[who |-> s, epoch |-> r.fepoch, cur |-> r.cur, by |-> voted]}
                                  ELSE won
        /\ UNCHANGED <<seen, lost, restarts>>

\* The leader's failover is over: the master is reset and followed at its new
\* address, or the failover is aborted (sentinelAbortFailover), which keeps leader.
Finish(s) ==
    /\ st[s].state = "leader"
    /\ \/ st' = [st EXCEPT ![s].state = "none", ![s].leader = NoOne]
       \/ st' = [st EXCEPT ![s].state = "none"]
    /\ UNCHANGED <<seen, disk, won, cast, lost, restarts>>

\* s asks t (SENTINEL IS-MASTER-DOWN-BY-ADDR), for a vote too during a failover, t
\* answers, and s keeps the answer (sentinelReceiveIsMasterDownReply) or it is lost.
Answer(s, r) == IF st[s].state # "none" THEN sentinelVoteLeader(r, st[s].cur, s) ELSE r
Receive(s, t, r) ==
    IF st[s].state # "none" /\ r.leader # NoOne THEN [down |-> r.sdown, leader |-> r.leader, epoch |-> r.lepoch]
    ELSE [seen[s][t] EXCEPT !.down = r.sdown]
Ask(s, t, arrives) ==
    LET r == st[t]
        v == Answer(s, r)
    IN  /\ st[s].sdown /\ (arrives \/ lost < MaxLost)
        /\ st' = [st EXCEPT ![t] = v]
        /\ disk' = [disk EXCEPT ![t] = Flush(@, r, v)]
        /\ seen' = IF arrives THEN [seen EXCEPT ![s][t] = Receive(s, t, v)] ELSE seen
        /\ lost' = IF arrives THEN lost ELSE lost + 1
        /\ cast' = cast \cup Given(t, r, v)
        /\ UNCHANGED <<won, restarts>>

\* Nothing is heard of t: after a while what it said is too old.
Forget(s, t) ==
    /\ lost < MaxLost /\ lost' = lost + 1
    /\ seen' = [seen EXCEPT ![s][t] = [@ EXCEPT !.down = FALSE, !.leader = NoOne]]
    /\ UNCHANGED <<st, disk, won, cast, restarts>>

\* sentinelProcessHelloMessage: t learns the epoch of s.
Hello(s, t) ==
    LET r == NewEpoch(st[t], st[s].cur)
    IN  /\ r # st[t]
        /\ st' = [st EXCEPT ![t] = r]
        /\ disk' = [disk EXCEPT ![t] = Saved(r)]
        /\ UNCHANGED <<seen, won, cast, lost, restarts>>

\* A failover of another master takes the next epoch: current_epoch is the sentinel's,
\* not the master's.
OtherMaster(s) ==
    /\ OtherMasters /\ st[s].cur < MaxEpoch
    /\ st' = [st EXCEPT ![s].cur = @ + 1]
    /\ UNCHANGED <<seen, disk, won, cast, lost, restarts>>

\* A sentinel starts again from its configuration file.
Restart(s) ==
    /\ restarts < MaxRestarts /\ restarts' = restarts + 1
    /\ st' = [st EXCEPT ![s] = Fresh(disk[s])]
    /\ seen' = [seen EXCEPT ![s] = [t \in Others(s) |-> NoReply]]
    /\ UNCHANGED <<disk, won, cast, lost>>

-----------------------------------------------------------------------------
Init ==
    /\ disk = [s \in Sentinels |-> [cur |-> 0, lepoch |-> 0]]
    /\ st = [s \in Sentinels |-> Fresh(disk[s])]
    /\ seen = [s \in Sentinels |-> [t \in Others(s) |-> NoReply]]
    /\ won = {} /\ cast = {} /\ lost = 0 /\ restarts = 0

Next ==
    \/ \E s \in Sentinels : \E late \in {st[s].sdown, TRUE}, go \in {st[s].state = "none", FALSE}, timeout \in BOOLEAN :
          sentinelTimer(s, late, go, timeout)
    \/ \E s \in Sentinels : Finish(s)
    \/ \E s \in Sentinels, arrives \in BOOLEAN : \E t \in Others(s) : Ask(s, t, arrives)
    \/ \E s \in Sentinels : \E t \in Others(s) : Forget(s, t)
    \/ \E s \in Sentinels : \E t \in Others(s) : Hello(s, t)
    \/ \E s \in Sentinels : OtherMaster(s)
    \/ \E s \in Sentinels : Restart(s)

Spec == Init /\ [][Next]_vars

-----------------------------------------------------------------------------
\* What the sentinels keep of the master, and what they have saved, is well formed.
TypeOK ==
    /\ \A s \in Sentinels :
          /\ st[s].cur \in 0..MaxEpoch /\ st[s].lepoch \in 0..st[s].cur
          /\ st[s].state \in {"none", "wait_start", "leader"} /\ st[s].fepoch \in 0..st[s].cur
          /\ disk[s].cur <= st[s].cur /\ disk[s].lepoch = st[s].lepoch
    /\ \A s \in Sentinels : \A t \in Others(s) : seen[s][t].leader \in Sentinels \cup {NoOne}

\* A sentinel gives one vote in an epoch, also across a restart.
OneVotePerEpoch == \A a, b \in cast : a.by = b.by /\ a.epoch = b.epoch => a.who = b.who

\* Elected before current_epoch went on: sentinelGetLeader counts the votes of
\* current_epoch, whatever epoch it was asked about.
InTime(a) == a.cur = a.epoch

\* A sentinel elected for an epoch has the votes of a majority in that epoch ("To be a
\* leader for a given epoch, we should have the majority of the Sentinels we know ...
\* that reported the same instance as leader for the same epoch", sentinel.c:3282).
Majority(a) == 2 * Cardinality(a.by) > Cardinality(Sentinels)
LeaderHasMajority == \A a \in won : InTime(a) => Majority(a)

\* So two sentinels are not elected for the same epoch, whoever restarts.
OneLeaderPerEpoch ==
    \A a, b \in won : InTime(a) /\ InTime(b) /\ a.epoch = b.epoch => a.who = b.who

\* The same without InTime, as the comment has it: the code does not keep it.
MajorityForItsEpoch == \A a \in won : Majority(a)

\* A leader was asked for by at least Quorum sentinels that found the master down:
\* no failover of a master that only the leader cannot reach.
DownForQuorum ==
    \A a \in won : restarts = 0 => Cardinality({s \in Sentinels : st[s].sdown}) >= Quorum
=============================================================================
