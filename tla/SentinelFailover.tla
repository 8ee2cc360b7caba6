-------------------------- MODULE SentinelFailover --------------------------
(***************************************************************************)
(* Redis Sentinel (sentinel.c): what an elected leader does, and how its    *)
(* configuration reaches the other sentinels and the instances.             *)
(*                                                                         *)
(* The election is one step that gives a new epoch to a sentinel: that an   *)
(* epoch has one leader is the subject of SentinelElection.  Clocks are left*)
(* out, a timeout may happen in any step; INFO and hello messages are read  *)
(* and processed in one step; the SLAVEOF commands are on their way for any *)
(* time.                                                                    *)
(***************************************************************************)
EXTENDS Integers, FiniteSets, FiniteSetsExt

CONSTANTS Sentinels, Instances, Master, \* Master is the first master
          Priority,      \* per instance, slave_priority; 0: never promote
          Offset,        \* per instance, slave_repl_offset
          ParallelSyncs, \* parallel_syncs
          MaxEpoch, MaxFails, MaxRestarts  \* bounds

SentinelFailoverAssumption ==
    /\ IsFiniteSet(Sentinels) /\ IsFiniteSet(Instances) /\ Master \in Instances
    /\ Priority \in [Instances -> Nat] /\ Offset \in [Instances -> Nat]
    /\ ParallelSyncs \in Nat \ {0} /\ {MaxEpoch, MaxFails, MaxRestarts} \subseteq Nat

VARIABLES
    st,      \* per sentinel, the master and the failover
    rec,     \* per sentinel and instance, the SRI_RECONF flags
    disk,    \* per sentinel, its configuration file
    role,    \* per instance, NoOne if it is a master, or the instance it follows
    up,      \* the instances that answer
    orders,  \* SLAVEOF commands on their way
    epoch,   \* the last epoch a leader was elected for
    fails, restarts

vars == <<st, rec, disk, role, up, orders, epoch, fails, restarts>>

NoOne == "none"
NoRec == [i \in Instances |-> "none"]
Fresh(d) == [cfg |-> d.cfg, addr |-> d.addr, state |-> "none", fepoch |-> 0, promoted |-> NoOne]

\* sentinelGetCurrentMasterAddress
CurrentAddress(r) == IF r.state = "reconf_slaves" THEN r.promoted ELSE r.addr

\* What sentinelFlushConfig writes of the master.
Saved(r) == [cfg |-> r.cfg, addr |-> CurrentAddress(r)]

\* sentinelResetMasterAndChangeAddress
ResetFlags(f) == NoRec
ChangeAddress(r, a) == [r EXCEPT !.addr = a, !.state = "none", !.promoted = NoOne]

-----------------------------------------------------------------------------
(* The choice of a slave                                                    *)

\* compareSlavesForPromotion, but for the run id.
Better(i, j) ==
    \/ Priority[i] < Priority[j]
    \/ Priority[i] = Priority[j] /\ Offset[i] > Offset[j]

Candidates(r) == {i \in up \ {r.addr} : Priority[i] # 0}
sentinelSelectSlave(r) == {i \in Candidates(r) : \A j \in Candidates(r) : ~Better(j, i)}

-----------------------------------------------------------------------------
(* The failover state machine                                               *)

sentinelAbortFailover(r) == [r EXCEPT !.state = "none", !.promoted = NoOne]

\* The master does not answer, or says that it is a slave.
Down(r) == r.addr \notin up \/ role[r.addr] # NoOne

\* s is elected and goes on.
Elect(s) ==
    /\ st[s].state = "none" /\ Down(st[s]) /\ epoch < MaxEpoch
    /\ epoch' = epoch + 1
    /\ st' = [st EXCEPT ![s].state = "select_slave", ![s].fepoch = epoch + 1]
    /\ UNCHANGED <<rec, disk, role, up, orders, fails, restarts>>

sentinelFailoverSelectSlave(s) ==
    /\ st[s].state = "select_slave"
    /\ \/ \E i \in sentinelSelectSlave(st[s]) :
             st' = [st EXCEPT ![s].state = "send_noone", ![s].promoted = i]
       \/ /\ sentinelSelectSlave(st[s]) = {}
          /\ st' = [st EXCEPT ![s] = sentinelAbortFailover(@)]
    /\ UNCHANGED <<rec, disk, role, up, orders, epoch, fails, restarts>>

sentinelFailoverSendSlaveOfNoOne(s) ==
    LET r == st[s]
    IN  /\ r.state = "send_noone"
        /\ \/ /\ r.promoted \in up
              /\ st' = [st EXCEPT ![s].state = "wait_promotion"]
              /\ orders' = orders \cup {[to |-> r.promoted, of |-> NoOne]}
           \/ /\ r.promoted \notin up
              /\ st' = [st EXCEPT ![s] = sentinelAbortFailover(@)] /\ UNCHANGED orders
        /\ UNCHANGED <<rec, disk, role, up, epoch, fails, restarts>>

\* The failover timeout while the promoted slave does not turn into a master.
sentinelFailoverWaitPromotion(s) ==
    /\ st[s].state = "wait_promotion"
    /\ st' = [st EXCEPT ![s] = sentinelAbortFailover(@)]
    /\ UNCHANGED <<rec, disk, role, up, orders, epoch, fails, restarts>>

\* The slaves that are not reconfigured, and those that are being so.
Todo(s, f) == {i \in Instances \ {st[s].addr, st[s].promoted} : f[i] # "done" /\ i \in up}
InProgress(f) == {i \in Instances : f[i] \in {"sent", "inprog"}}

\* sentinelFailoverReconfNextSlave: SLAVEOF to as many as parallel_syncs allows, and
\* a slave that does not move for too long is taken as done.
Sendable(s, f) == {i \in Todo(s, f) : f[i] = "none"}
Room(f) == ParallelSyncs - Cardinality(InProgress(f))
ReconfNextSlave(s, f) ==
    {g \in [Instances -> {"none", "sent", "inprog", "done"}] :
        LET now == {i \in Sendable(s, f) : g[i] = "sent"}
        IN  /\ \A i \in Instances : g[i] = f[i] \/ i \in now \/ (f[i] = "sent" /\ g[i] = "done")
            /\ Cardinality(now) = IF Room(f) < 0 THEN 0 ELSE Min({Room(f), Cardinality(Sendable(s, f))})}

\* sentinelFailoverReconfNextSlave with sentinelFailoverDetectEnd and, at the end,
\* sentinelFailoverSwitchToPromotedSlave.
Switch(r) == ChangeAddress(r, r.promoted)
sentinelFailoverReconfNextSlave(s, timeout) ==
    LET r == st[s]
    IN  /\ r.state = "reconf_slaves"
        /\ \E g \in ReconfNextSlave(s, rec[s]) :
              LET ends == r.promoted \in up /\ (timeout \/ Todo(s, g) = {})
                  late == {i \in Sendable(s, g) : ends /\ timeout}
                  sent == {i \in Instances : g[i] = "sent" /\ rec[s][i] = "none"} \cup late
                  n == Switch(r)
              IN  /\ orders' = orders \cup {[to |-> i, of |-> r.promoted] : i \in sent}
                  /\ IF ends
                     THEN /\ st' = [st EXCEPT ![s] = n]
                          /\ rec' = [rec EXCEPT ![s] = ResetFlags(@)]
                          /\ disk' = [disk EXCEPT ![s] = Saved(n)]
                     ELSE /\ rec' = [rec EXCEPT ![s] = g]
                          /\ UNCHANGED <<st, disk>>
        /\ UNCHANGED <<role, up, epoch, fails, restarts>>

-----------------------------------------------------------------------------
(* sentinelRefreshInstanceInfo, for an instance i that s has as a slave     *)

\* sentinelMasterLooksSane
Sane(r) == r.addr \in up /\ role[r.addr] = NoOne

\* The wait before i is given another master: hello messages and the leader's INFO
\* come in shorter periods, so what they say of i has arrived.
Waited(r, i) ==
    \A t \in Sentinels :
        /\ st[t].cfg <= r.cfg
        /\ st[t].state = "wait_promotion" => st[t].promoted # i

\* The promoted slave says it is a master: the configuration takes the new epoch.
Promoted_NoEpoch(r) == [r EXCEPT !.state = "reconf_slaves"]
Promoted(r) == [r EXCEPT !.cfg = r.fepoch, !.state = "reconf_slaves"]

InfoPromoted(s) ==
    LET r == st[s]
    IN  /\ r.state = "wait_promotion" /\ r.promoted \in up /\ role[r.promoted] = NoOne
        /\ st' = [st EXCEPT ![s] = Promoted(r)]
        /\ disk' = [disk EXCEPT ![s] = Saved(Promoted(r))]
        /\ UNCHANGED <<rec, role, up, orders, epoch, fails, restarts>>

\* Another instance that is a master, or follows the wrong one, gets SLAVEOF.
Stray(r, i) == IF role[i] = NoOne THEN i # r.promoted ELSE role[i] # r.addr
InfoStray(s, i) ==
    LET r == st[s]
    IN  /\ i \in up /\ i # r.addr /\ Sane(r) /\ Waited(r, i) /\ Stray(r, i)
        /\ [to |-> i, of |-> r.addr] \notin orders
        /\ orders' = orders \cup {[to |-> i, of |-> r.addr]}
        /\ UNCHANGED <<st, rec, disk, role, up, epoch, fails, restarts>>

\* The way of a slave that is reconfigured: it follows the new master, then is in sync.
InfoReconf(s, i) ==
    LET r == st[s]
        f == IF rec[s][i] = "sent" /\ role[i] = r.promoted THEN "inprog" ELSE rec[s][i]
        g == IF f = "inprog" /\ role[i] # NoOne /\ role[i] \in up THEN "done" ELSE f
    IN  /\ i \in up /\ i # r.addr /\ role[i] # NoOne
        /\ rec[s][i] \in {"sent", "inprog"} /\ g # rec[s][i]
        /\ rec' = [rec EXCEPT ![s][i] = g]
        /\ UNCHANGED <<st, disk, role, up, orders, epoch, fails, restarts>>

-----------------------------------------------------------------------------
\* sentinelSendHello of s, processed by t: the newest configuration wins.
Newer(h, r) == r.cfg < h.cfg
sentinelProcessHelloMessage(s, t) ==
    LET h == st[s]
        r == st[t]
        a == CurrentAddress(h)
        r1 == [r EXCEPT !.cfg = h.cfg]
        r2 == IF a # r.addr THEN ChangeAddress(r1, a) ELSE r1
    IN  /\ s # t /\ Newer(h, r) /\ r2 # r
        /\ st' = [st EXCEPT ![t] = r2]
        /\ rec' = IF a # r.addr THEN [rec EXCEPT ![t] = ResetFlags(@)] ELSE rec
        /\ disk' = [disk EXCEPT ![t] = IF a # r.addr THEN Saved(r2) ELSE @]
        /\ UNCHANGED <<role, up, orders, epoch, fails, restarts>>

-----------------------------------------------------------------------------
\* An instance executes a SLAVEOF.
Obey(o) ==
    /\ o \in orders /\ o.to \in up
    /\ role' = [role EXCEPT ![o.to] = o.of]
    /\ orders' = orders \ {o}
    /\ UNCHANGED <<st, rec, disk, up, epoch, fails, restarts>>

Fail(i) ==
    /\ i \in up /\ fails < MaxFails
    /\ up' = up \ {i} /\ fails' = fails + 1
    /\ UNCHANGED <<st, rec, disk, role, orders, epoch, restarts>>
Recover(i) ==
    /\ i \notin up /\ up' = up \cup {i}
    /\ UNCHANGED <<st, rec, disk, role, orders, epoch, fails, restarts>>

\* A sentinel starts again from its configuration file.
Restart(s) ==
    /\ restarts < MaxRestarts /\ restarts' = restarts + 1
    /\ st' = [st EXCEPT ![s] = Fresh(disk[s])]
    /\ rec' = [rec EXCEPT ![s] = NoRec]
    /\ UNCHANGED <<disk, role, up, orders, epoch, fails>>

-----------------------------------------------------------------------------
Init ==
    /\ disk = [s \in Sentinels |-> [cfg |-> 0, addr |-> Master]]
    /\ st = [s \in Sentinels |-> Fresh(disk[s])]
    /\ rec = [s \in Sentinels |-> NoRec]
    /\ role = [i \in Instances |-> IF i = Master THEN NoOne ELSE Master]
    /\ up = Instances /\ orders = {} /\ epoch = 0 /\ fails = 0 /\ restarts = 0

Step(s) ==
    \/ sentinelFailoverSelectSlave(s)
    \/ sentinelFailoverSendSlaveOfNoOne(s)
    \/ \E timeout \in BOOLEAN : sentinelFailoverReconfNextSlave(s, timeout)

Next ==
    \/ \E s \in Sentinels : Elect(s)
    \/ \E s \in Sentinels : Step(s)
    \/ \E s \in Sentinels : sentinelFailoverWaitPromotion(s)
    \/ \E s \in Sentinels : InfoPromoted(s)
    \/ \E s \in Sentinels, i \in Instances : InfoStray(s, i)
    \/ \E s \in Sentinels, i \in Instances : InfoReconf(s, i)
    \/ \E s, t \in Sentinels : sentinelProcessHelloMessage(s, t)
    \/ \E o \in orders : Obey(o)
    \/ \E i \in Instances : Fail(i)
    \/ \E i \in Instances : Recover(i)
    \/ \E s \in Sentinels : Restart(s)

Spec == Init /\ [][Next]_vars

\* The timer runs, INFO and hello are periodic, instances come back and obey.  At
\* the last epoch the failover does not time out before the slave is promoted.
WeakSentinel(s) == Step(s)
WeakPromoted(s) == InfoPromoted(s)
WeakInfo(s) == \E i \in Instances : InfoStray(s, i) \/ InfoReconf(s, i)
WeakHello(s) == \E t \in Sentinels : sentinelProcessHelloMessage(s, t)
Weak(j) ==
    \/ j = 1 /\ \E i \in Instances : Recover(i)
    \/ j = 2 /\ \E o \in orders : Obey(o)

-----------------------------------------------------------------------------
\* What the sentinels keep, and what they have saved, is well formed.
TypeOK ==
    /\ \A s \in Sentinels :
          /\ st[s].cfg \in 0..epoch /\ st[s].addr \in Instances /\ st[s].fepoch \in 0..epoch
          /\ st[s].state \in {"none", "select_slave", "send_noone", "wait_promotion", "reconf_slaves"}
          /\ (st[s].promoted = NoOne) <=> (st[s].state \in {"none", "select_slave"})
          /\ disk[s].cfg \in 0..epoch /\ disk[s].addr \in Instances
    /\ role \in [Instances -> Instances \cup {NoOne}] /\ up \subseteq Instances

\* Sentinels that have the same configuration epoch have the same master.
SameEpochSameMaster ==
    \A s, t \in Sentinels : st[s].cfg = st[t].cfg => CurrentAddress(st[s]) = CurrentAddress(st[t])

\* A slave is only being reconfigured while there is a promoted slave, whose address
\* INFO compares with, and no more of them than parallel_syncs at a time.
ReconfOfPromoted ==
    \A s \in Sentinels :
        /\ InProgress(rec[s]) # {} => st[s].promoted # NoOne
        /\ Cardinality(InProgress(rec[s])) <= ParallelSyncs

\* An instance with priority 0 is never made a master.
PriorityZeroNotPromoted == \A i \in Instances \ {Master} : role[i] = NoOne => Priority[i] # 0

\* A running sentinel never falls back to an older configuration.  (One that starts
\* again may: a newer epoch with the same address is not saved.)
ConfigEpochGrows == restarts' = restarts => \A s \in Sentinels : st'[s].cfg >= st[s].cfg

\* All sentinels have the same master, and every instance follows it: for good, in the end.
Settled ==
    \E m \in Instances :
        /\ \A s \in Sentinels : st[s].addr = m
        /\ \A i \in Instances : role[i] = IF i = m THEN NoOne ELSE m
=============================================================================
