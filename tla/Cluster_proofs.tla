---------------------------- MODULE Cluster_proofs ----------------------------
(***************************************************************************)
(* Theorems about what several servers decide together.                     *)
(*                                                                         *)
(* Sentinel (SentinelElection): the election of a leading sentinel, for any  *)
(* set of sentinels, any quorum, any number of epochs, lost answers and      *)
(* restarts, and whether or not failovers of other masters take epochs.      *)
(* A vote is on disk before it is sent, so that a sentinel's leader_epoch    *)
(* never falls, not even in a restart, and it votes only for a greater one;  *)
(* what another sentinel keeps of an answer is a vote that was cast; and any *)
(* two majorities have a member in common.                                   *)
(*                                                                         *)
(* Redis Cluster: about moving a slot (ClusterSlots, as Z), for any number   *)
(* of nodes, keys and clients: no key is lost and no request is answered     *)
(* from a copy that is out of date; about the failure detector               *)
(* (ClusterFailDetect, as D), for any number of masters, slaves and          *)
(* partitions: FAIL needs a majority of the masters, and so does ok; and     *)
(* about elections and configuration (ClusterElection, as E), for any nodes, *)
(* slots, restarts and messages lost or late: epochs and slots in the tables *)
(* of every node agree with one another.                                     *)
(***************************************************************************)
EXTENDS SentinelElection, FiniteSetsExt, FiniteSetTheorems, FunctionTheorems, WellFoundedInduction, TLAPS

Names == Sentinels \cup {NoOne}
States == [cur : Nat, leader : Names, lepoch : Nat, state : {"none", "wait_start", "leader"},
           fepoch : Nat, sdown : BOOLEAN]
Ballots == [by : Sentinels, epoch : Nat, who : Sentinels]

\* The types, and the order of the epochs.
Typed ==
    /\ st \in [Sentinels -> States]
    /\ disk \in [Sentinels -> [cur : Nat, lepoch : Nat]]
    /\ DOMAIN seen = Sentinels
    /\ \A s \in Sentinels : seen[s] \in [Others(s) -> [down : BOOLEAN, leader : Names, epoch : Nat]]
    /\ won \in SUBSET [who : Sentinels, epoch : Nat, cur : Nat, by : SUBSET Sentinels]
    /\ cast \in SUBSET Ballots
    /\ restarts \in Nat

EpochsOK ==
    \A s \in Sentinels :
       /\ st[s].cur <= MaxEpoch /\ st[s].lepoch <= st[s].cur /\ st[s].fepoch <= st[s].cur
       /\ disk[s].lepoch = st[s].lepoch /\ disk[s].cur <= st[s].cur
       /\ disk[s].lepoch <= disk[s].cur

Ballot(t, e, w) == [by |-> t, epoch |-> e, who |-> w]

\* What a sentinel holds for its own vote was cast, and none has cast one for a later epoch.
OwnVotes ==
    /\ \A c \in cast : c.epoch <= st[c.by].lepoch
    /\ \A s \in Sentinels : st[s].leader # NoOne => Ballot(s, st[s].lepoch, st[s].leader) \in cast

\* What a sentinel has heard of votes was cast.
HeardVotes ==
    \A s \in Sentinels : \A t \in Others(s) :
       seen[s][t].leader # NoOne => Ballot(t, seen[s][t].epoch, seen[s][t].leader) \in cast

\* Those that a leader counts have voted for it, and are enough if it was elected in time.
WinnersOK ==
    \A a \in won : /\ \A t \in a.by : Ballot(t, a.epoch, a.who) \in cast
                   /\ InTime(a) => Majority(a)

Votings == OwnVotes /\ OneVotePerEpoch /\ HeardVotes /\ WinnersOK

\* As long as nobody restarts, who is said to have found the master down has done so.
Down == {s \in Sentinels : st[s].sdown}
DownKnown ==
    restarts = 0 =>
       /\ \A s \in Sentinels : \A t \in Others(s) : seen[s][t].down => st[t].sdown
       /\ \A s \in Sentinels : st[s].state # "none" => Cardinality(Down) >= Quorum
       /\ won # {} => Cardinality(Down) >= Quorum

IInv == Typed /\ EpochsOK /\ Votings /\ DownKnown

-----------------------------------------------------------------------------

\* sentinelVoteLeader gives a vote, for a later epoch than that of the last one, or none.
LEMMA VoteLeader ==
    ASSUME NEW r \in States, NEW e \in Nat, NEW w \in Sentinels, NEW v,
           v = sentinelVoteLeader(r, e, w), r.lepoch <= r.cur
    PROVE  /\ v \in States
           /\ v.state = r.state /\ v.fepoch = r.fepoch /\ v.sdown = r.sdown
           /\ v.cur = IF e > r.cur THEN e ELSE r.cur
           /\ v.lepoch <= v.cur
           /\ \/ v.lepoch = r.lepoch /\ v.leader = r.leader
              \/ v.lepoch > r.lepoch /\ v.leader = w
<1> DEFINE r1 == NewEpoch(r, e)
<1>1. r1 \in States /\ r1 = [r EXCEPT !.cur = IF e > r.cur THEN e ELSE r.cur]
  BY DEF NewEpoch, States
<1>2. CASE r.lepoch < e /\ r1.cur <= e
  <2>1. v = [r1 EXCEPT !.leader = w, !.lepoch = r1.cur]
    BY <1>1, <1>2 DEF sentinelVoteLeader, States
  <2>2. v \in States /\ v.leader = w /\ v.lepoch = r1.cur /\ v.cur = r1.cur
        /\ v.state = r1.state /\ v.fepoch = r1.fepoch /\ v.sdown = r1.sdown
    BY <1>1, <2>1 DEF States, Names
  <2>3. /\ r1.state = r.state /\ r1.fepoch = r.fepoch /\ r1.sdown = r.sdown
        /\ r1.cur = IF e > r.cur THEN e ELSE r.cur
    BY <1>1 DEF States
  <2>4. r1.lepoch = r.lepoch /\ r.lepoch \in Nat /\ r.cur \in Nat
    BY <1>1 DEF States
  <2> QED
    BY <1>2, <2>2, <2>3, <2>4
<1>3. CASE ~(r.lepoch < e /\ r1.cur <= e)
  <2>1. v = r1
    BY <1>1, <1>3 DEF sentinelVoteLeader, States
  <2> QED
    BY <1>1, <2>1 DEF States
<1> QED
  BY <1>2, <1>3

\* A sentinel x gives the vote v, or none, and keeps it: nobody has voted twice.
LEMMA NewVote ==
    ASSUME SentinelElectionAssumption, Typed, OwnVotes, OneVotePerEpoch,
           NEW x \in Sentinels, NEW r \in States, NEW v \in States, NEW kept \in States,
           r.leader = st[x].leader, r.lepoch = st[x].lepoch,
           kept.leader = v.leader, kept.lepoch = v.lepoch,
           \/ v.lepoch = r.lepoch /\ v.leader = r.leader
           \/ v.lepoch > r.lepoch /\ v.leader \in Sentinels,
           st' = [st EXCEPT ![x] = kept], cast' = cast \cup Given(x, r, v)
    PROVE  cast \subseteq cast' /\ cast' \in SUBSET Ballots /\ OwnVotes' /\ OneVotePerEpoch'
<1>1. st'[x] = kept /\ \A s \in Sentinels \ {x} : st'[s] = st[s]
  BY DEF Typed
<1>2. CASE v.lepoch = r.lepoch /\ v.leader = r.leader
  <2>1. cast' = cast
    BY <1>2 DEF Given
  <2>2. \A s \in Sentinels : st'[s].leader = st[s].leader /\ st'[s].lepoch = st[s].lepoch
    BY <1>1, <1>2
  <2> QED
    BY <2>1, <2>2 DEF Typed, OwnVotes, OneVotePerEpoch, Ballots, Ballot
<1>3. CASE v.lepoch > r.lepoch /\ v.leader \in Sentinels
  <2> DEFINE b == Ballot(x, v.lepoch, v.leader)
  <2>1. cast' = cast \cup {b}
    BY <1>3 DEF Given, Ballot, States
  <2>2. b \in Ballots /\ b.by = x /\ b.epoch = v.lepoch /\ b.who = v.leader
    BY <1>3 DEF Ballots, Ballot, States
  <2>3. \A c \in cast : c \in Ballots /\ c.epoch <= st[c.by].lepoch
    BY DEF Typed, OwnVotes
  <2>4. st[x].lepoch < v.lepoch /\ st[x].lepoch \in Nat /\ v.lepoch \in Nat
    BY <1>3 DEF States
  <2>5. OwnVotes'
    <3>1. \A c \in cast' : c.epoch <= st'[c.by].lepoch
      <4> SUFFICES ASSUME NEW c \in cast' PROVE c.epoch <= st'[c.by].lepoch
        OBVIOUS
      <4>1. CASE c = b
        BY <4>1, <1>1, <2>2, <2>4
      <4>2. CASE c \in cast /\ c.by = x
        <5>1. c.epoch \in Nat /\ c.epoch <= st[x].lepoch
          BY <4>2, <2>3 DEF Ballots
        <5> QED
          BY <4>2, <5>1, <1>1, <2>4
      <4>3. CASE c \in cast /\ c.by # x
        BY <4>3, <1>1, <2>3 DEF Ballots
      <4> QED
        BY <2>1, <4>1, <4>2, <4>3
    <3>2. \A s \in Sentinels : st'[s].leader # NoOne => Ballot(s, st'[s].lepoch, st'[s].leader) \in cast'
      BY <1>1, <2>1 DEF OwnVotes
    <3> QED
      BY <3>1, <3>2 DEF OwnVotes, Ballot
  <2>6. OneVotePerEpoch'
    <3>1. \A c \in cast : c.by = x => c.epoch # b.epoch
      BY <2>2, <2>3, <2>4 DEF Ballots
    <3> QED
      BY <2>1, <2>2, <3>1 DEF OneVotePerEpoch
  <2> QED
    BY <2>1, <2>2, <2>5, <2>6 DEF Typed
<1> QED
  BY <1>2, <1>3

\* Nothing of what is known of votes is lost when more are cast.
LEMMA VotesStay ==
    ASSUME HeardVotes, WinnersOK, cast \subseteq cast', UNCHANGED <<seen, won>>
    PROVE  HeardVotes' /\ WinnersOK'
BY DEF HeardVotes, WinnersOK, Ballot, InTime, Majority

\* The epochs of one sentinel go on, and those of the others stay.
LEMMA EpochsStay ==
    ASSUME SentinelElectionAssumption, Typed, EpochsOK, NEW x \in Sentinels,
           NEW v \in States, NEW d \in [cur : Nat, lepoch : Nat],
           v.cur <= MaxEpoch, v.lepoch <= v.cur, v.fepoch <= v.cur,
           d.lepoch = v.lepoch, d.cur <= v.cur, d.lepoch <= d.cur,
           st' = [st EXCEPT ![x] = v], disk' = [disk EXCEPT ![x] = d]
    PROVE  EpochsOK'
BY DEF Typed, EpochsOK

\* As long as nobody restarts, a master once found down stays down.
LEMMA DownGrows ==
    ASSUME SentinelElectionAssumption, Typed, NEW x \in Sentinels, NEW v,
           st' = [st EXCEPT ![x] = v], st[x].sdown => v.sdown
    PROVE  /\ Down \subseteq Down' /\ Cardinality(Down) <= Cardinality(Down')
           /\ Cardinality(Down) \in Nat /\ Cardinality(Down') \in Nat
<1>1. Down \subseteq Down' /\ Down' \subseteq Sentinels
  BY DEF Down, Typed
<1>2. IsFiniteSet(Down')
  BY <1>1, FS_Subset DEF SentinelElectionAssumption
<1> QED
  BY <1>1, <1>2, FS_Subset, FS_CardinalityType

\* With a majority each, two sets of sentinels have a member in common.
LEMMA MajoritiesMeet ==
    ASSUME SentinelElectionAssumption, NEW A \in SUBSET Sentinels, NEW B \in SUBSET Sentinels,
           2 * Cardinality(A) > Cardinality(Sentinels), 2 * Cardinality(B) > Cardinality(Sentinels)
    PROVE  A \cap B # {}
<1>1. IsFiniteSet(A) /\ IsFiniteSet(B) /\ IsFiniteSet(Sentinels)
  BY FS_Subset DEF SentinelElectionAssumption
<1>2. A \cup B \in SUBSET Sentinels
  OBVIOUS
<1>3. IsFiniteSet(A \cup B) /\ Cardinality(A \cup B) <= Cardinality(Sentinels)
  BY <1>1, <1>2, FS_Subset
<1>4. SUFFICES ASSUME A \cap B = {} PROVE FALSE
  OBVIOUS
<1>5. Cardinality(A \cup B) = Cardinality(A) + Cardinality(B) - Cardinality(A \cap B)
  BY <1>1, FS_Union
<1>6. Cardinality(A \cap B) = 0
  BY <1>4, FS_EmptySet
<1>7. /\ Cardinality(A) \in Nat /\ Cardinality(B) \in Nat /\ Cardinality(Sentinels) \in Nat
      /\ Cardinality(A \cup B) \in Nat
  BY <1>1, <1>3, FS_CardinalityType
<1> QED
  BY <1>3, <1>5, <1>6, <1>7

LEMMA QuorumType ==
    ASSUME SentinelElectionAssumption
    PROVE  Quorum \in Nat /\ Cardinality(Sentinels) \in Nat /\ Quorum <= Cardinality(Sentinels)
<1>1. Cardinality(Sentinels) \in Nat
  BY FS_CardinalityType DEF SentinelElectionAssumption
<1> QED
  BY <1>1 DEF SentinelElectionAssumption

\* ODown: those that s has heard say so, and s itself, are at least Quorum.
LEMMA ODownForQuorum ==
    ASSUME SentinelElectionAssumption, NEW s \in Sentinels, NEW r, ODown(s, r),
           NEW D \in SUBSET Sentinels, s \in D,
           \A t \in Others(s) : seen[s][t].down => t \in D
    PROVE  Cardinality(D) >= Quorum
<1> DEFINE said == {t \in Others(s) : seen[s][t].down}
<1>1. said \cup {s} \in SUBSET D /\ s \notin said
  BY DEF Others
<1>2. IsFiniteSet(D) /\ IsFiniteSet(said) /\ IsFiniteSet(said \cup {s})
  BY <1>1, FS_Subset DEF SentinelElectionAssumption
<1>3. Cardinality(said \cup {s}) = Cardinality(said) + 1
  BY <1>1, <1>2, FS_AddElement
<1>4. Cardinality(said \cup {s}) <= Cardinality(D)
  BY <1>1, <1>2, FS_Subset
<1>5. Cardinality(said) + 1 >= Quorum
  BY <1>2, FS_CardinalityType DEF ODown
<1>6. Cardinality(D) \in Nat /\ Cardinality(said) \in Nat /\ Quorum \in Nat
  BY <1>2, FS_CardinalityType, 0 <= 1 DEF SentinelElectionAssumption
<1> QED
  BY <1>3, <1>4, <1>5, <1>6

LEMMA MoreThanHalf ==
    ASSUME NEW n \in Nat, NEW N \in Nat, n >= N \div 2 + 1
    PROVE  2 * n > N
OBVIOUS

\* Enough: the votes counted for s in the current epoch are those of a majority.
LEMMA EnoughIsMajority ==
    ASSUME SentinelElectionAssumption, NEW s \in Sentinels, NEW r,
           NEW own \in BOOLEAN, Enough(Votes(s, r, s) + IF own THEN 1 ELSE 0)
    PROVE  2 * Cardinality(Voters(s, r.cur, s) \cup {t \in {s} : own}) > Cardinality(Sentinels)
<1> DEFINE V == Voters(s, r.cur, s)
           N == Cardinality(Sentinels)
<1>1. V \in SUBSET Sentinels /\ s \notin V
  BY DEF Voters, Others
<1>2. IsFiniteSet(V) /\ IsFiniteSet(Sentinels)
  BY <1>1, FS_Subset DEF SentinelElectionAssumption
<1>3. Cardinality(V) \in Nat /\ N \in Nat
  BY <1>2, FS_CardinalityType
<1>4. Cardinality(V) + (IF own THEN 1 ELSE 0) >= N \div 2 + 1
  BY DEF Enough, Votes
<1>5. 2 * (Cardinality(V) + (IF own THEN 1 ELSE 0)) > N
  BY <1>3, <1>4, MoreThanHalf
<1>6. CASE own
  <2>1. V \cup {t \in {s} : own} = V \cup {s}
    BY <1>6
  <2>2. Cardinality(V \cup {s}) = Cardinality(V) + 1
    BY <1>1, <1>2, FS_AddElement
  <2> QED
    BY <1>5, <1>6, <2>1, <2>2
<1>7. CASE ~own
  <2>1. V \cup {t \in {s} : own} = V
    BY <1>7
  <2>2. 2 * Cardinality(V) > N
    BY <1>3, <1>5, <1>7
  <2> QED
    BY <2>1, <2>2
<1> QED
  BY <1>6, <1>7

-----------------------------------------------------------------------------
\* Single fields that a step sets.
LEMMA Starting ==
    ASSUME NEW r \in States, NEW q, q = sentinelStartFailover(r)
    PROVE  /\ q \in States /\ q.state = "wait_start"
           /\ q.cur = r.cur + 1 /\ q.fepoch = r.cur + 1
           /\ q.leader = r.leader /\ q.lepoch = r.lepoch /\ q.sdown = r.sdown
<1>1. q = [r EXCEPT !.state = "wait_start", !.cur = r.cur + 1, !.fepoch = r.cur + 1]
  BY DEF sentinelStartFailover, States
<1>2. r.cur + 1 \in Nat
  BY DEF States
<1> QED
  BY <1>1, <1>2 DEF States

LEMMA OtherSdown ==
    ASSUME NEW r \in States, NEW b \in BOOLEAN, NEW q, q = [r EXCEPT !.sdown = b]
    PROVE  /\ q \in States /\ q.cur = r.cur /\ q.leader = r.leader /\ q.lepoch = r.lepoch
           /\ q.state = r.state /\ q.fepoch = r.fepoch /\ q.sdown = b
BY DEF States

LEMMA OtherState ==
    ASSUME NEW r \in States, NEW new \in {"none", "wait_start", "leader"}, NEW q,
           q = [r EXCEPT !.state = new]
    PROVE  /\ q \in States /\ q.cur = r.cur /\ q.leader = r.leader /\ q.lepoch = r.lepoch
           /\ q.state = new /\ q.fepoch = r.fepoch /\ q.sdown = r.sdown
BY DEF States

\* What the timer does: sets sdown and perhaps starts a failover, and then votes.
LEMMA Starts ==
    ASSUME SentinelElectionAssumption, IInv, NEW s \in Sentinels, NEW go \in BOOLEAN,
           NEW r0 \in States,
           r0.cur = st[s].cur, r0.leader = st[s].leader, r0.lepoch = st[s].lepoch,
           r0.state = st[s].state, r0.fepoch = st[s].fepoch, st[s].sdown => r0.sdown,
           NEW r, r = StartIfNeeded(s, r0, go)
    PROVE  /\ r \in States /\ r.leader = st[s].leader /\ r.lepoch = st[s].lepoch
           /\ r.cur >= st[s].cur /\ r.cur <= MaxEpoch /\ r.lepoch <= r.cur /\ r.fepoch <= r.cur
           /\ st[s].sdown => r.sdown
           /\ \/ r.state = st[s].state /\ r.cur = st[s].cur
              \/ r.state = "wait_start" /\ ODown(s, r) /\ r.sdown
<1>1. MaxEpoch \in Nat
  BY DEF SentinelElectionAssumption
<1>3. st[s].cur <= MaxEpoch /\ st[s].lepoch <= st[s].cur /\ st[s].fepoch <= st[s].cur
  BY DEF IInv, EpochsOK
<1>4. CASE ODown(s, r0) /\ r0.state = "none" /\ go /\ r0.cur < MaxEpoch
  <2>1. r = sentinelStartFailover(r0)
    BY <1>4 DEF StartIfNeeded
  <2>2. r \in States /\ r.cur = r0.cur + 1 /\ r.fepoch = r0.cur + 1 /\ r.state = "wait_start"
        /\ r.leader = r0.leader /\ r.lepoch = r0.lepoch /\ r.sdown = r0.sdown
    BY <2>1, Starting
  <2>3. ODown(s, r) /\ r.sdown
    BY <1>4, <2>2 DEF ODown
  <2>4. r0.cur \in Nat /\ r0.lepoch \in Nat /\ r0.lepoch <= r0.cur /\ r0.cur < MaxEpoch
    BY <1>3, <1>4 DEF States
  <2>5. r.cur <= MaxEpoch /\ r.cur >= st[s].cur /\ r.lepoch <= r.cur /\ r.fepoch <= r.cur
    <3>1. r.cur <= MaxEpoch
      BY <1>1, <2>2, <2>4
    <3> QED
      BY <2>2, <2>4, <3>1
  <2> QED
    BY <2>2, <2>3, <2>5
<1>5. CASE ~(ODown(s, r0) /\ r0.state = "none" /\ go /\ r0.cur < MaxEpoch)
  <2>1. r = r0
    BY <1>5 DEF StartIfNeeded
  <2>2. r0.cur \in Nat
    BY DEF States
  <2>3. r.cur <= MaxEpoch /\ r.cur >= st[s].cur /\ r.lepoch <= r.cur /\ r.fepoch <= r.cur
    BY <1>3, <2>1, <2>2
  <2>4. r \in States /\ r.leader = st[s].leader /\ r.lepoch = st[s].lepoch
    BY <2>1
  <2>5. (st[s].sdown => r.sdown) /\ r.state = st[s].state /\ r.cur = st[s].cur
    BY <2>1
  <2> QED
    BY <2>3, <2>4, <2>5
<1> QED
  BY <1>4, <1>5

\* The vote of the timer step, taken apart: with an election, those that s counts have
\* voted for it and are a majority if it is in time.
LEMMA TimerVotes ==
    ASSUME SentinelElectionAssumption, Typed, Votings, NEW s \in Sentinels,
           NEW r \in States, r.leader = st[s].leader, r.lepoch = st[s].lepoch,
           r.lepoch <= r.cur, r.fepoch <= r.cur,
           NEW w \in Sentinels, NEW g, g = sentinelGetLeader(s, r, w),
           NEW kept \in States, kept.leader = g.r.leader, kept.lepoch = g.r.lepoch,
           st' = [st EXCEPT ![s] = kept], cast' = cast \cup Given(s, r, g.r),
           NEW voted,
           voted = Voters(s, r.fepoch, s) \cup {t \in {s} : g.r.leader = s /\ g.r.lepoch = r.fepoch},
           won' = IF g.elected THEN won \cup {[who |-> s, epoch |-> r.fepoch, cur |-> r.cur, by |-> voted]}
                               ELSE won,
           UNCHANGED seen
    PROVE  /\ cast' \in SUBSET Ballots /\ Votings'
           /\ won' \in SUBSET [who : Sentinels, epoch : Nat, cur : Nat, by : SUBSET Sentinels]
<1>1. g.r = sentinelVoteLeader(r, r.fepoch, w)
  BY DEF sentinelGetLeader
<1>2. r.fepoch \in Nat /\ r.cur \in Nat
  BY DEF States
<1>3. /\ g.r \in States
      /\ \/ g.r.lepoch = r.lepoch /\ g.r.leader = r.leader
         \/ g.r.lepoch > r.lepoch /\ g.r.leader = w
  BY <1>1, <1>2, VoteLeader
<1>4. cast \subseteq cast' /\ cast' \in SUBSET Ballots /\ OwnVotes' /\ OneVotePerEpoch'
  BY <1>3, NewVote DEF Votings
<1>5. HeardVotes'
  BY <1>4 DEF Votings, HeardVotes, Ballot
<1>6. \A t \in voted : t \in Sentinels /\ Ballot(t, r.fepoch, s) \in cast'
  <2> SUFFICES ASSUME NEW t \in voted PROVE t \in Sentinels /\ Ballot(t, r.fepoch, s) \in cast'
    OBVIOUS
  <2>1. CASE t \in Voters(s, r.fepoch, s)
    <3>1. t \in Others(s) /\ seen[s][t].leader = s /\ seen[s][t].epoch = r.fepoch /\ s # NoOne
      BY <2>1 DEF Voters, SentinelElectionAssumption
    <3>2. Ballot(t, r.fepoch, s) \in cast
      BY <3>1 DEF Votings, HeardVotes
    <3> QED
      BY <1>4, <3>1, <3>2 DEF Others
  <2>2. CASE t = s /\ g.r.leader = s /\ g.r.lepoch = r.fepoch
    <3>1. st'[s].leader = s /\ st'[s].lepoch = r.fepoch /\ s # NoOne
      BY <2>2 DEF Typed, SentinelElectionAssumption
    <3>2. Ballot(s, st'[s].lepoch, st'[s].leader) \in cast'
      BY <1>4, <3>1 DEF OwnVotes, Ballot
    <3> QED
      BY <2>2, <3>1, <3>2
  <2> QED
    BY <2>1, <2>2
<1>7. CASE ~g.elected
  <2>1. WinnersOK'
    BY <1>4, <1>7 DEF Votings, WinnersOK, Ballot, InTime, Majority
  <2> QED
    BY <1>4, <1>5, <1>7, <2>1 DEF Votings, Typed
<1>8. CASE g.elected
  <2> DEFINE a == [who |-> s, epoch |-> r.fepoch, cur |-> r.cur, by |-> voted]
  <2>1. won' = won \cup {a}
    BY <1>8
  <2>2. InTime(a) => Majority(a)
    <3> SUFFICES ASSUME r.cur = r.fepoch PROVE 2 * Cardinality(voted) > Cardinality(Sentinels)
      BY DEF InTime, Majority
    <3> DEFINE own == g.r.leader = s /\ g.r.lepoch = r.fepoch
    <3>1. Enough(Votes(s, r, s) + IF own THEN 1 ELSE 0)
      BY <1>8 DEF sentinelGetLeader
    <3>2. voted = Voters(s, r.cur, s) \cup {t \in {s} : own}
      OBVIOUS
    <3>3. own \in BOOLEAN
      OBVIOUS
    <3> HIDE DEF own
    <3> QED
      BY <3>1, <3>2, <3>3, EnoughIsMajority
  <2>3. \A t \in a.by : Ballot(t, a.epoch, a.who) \in cast'
    BY <1>6
  <2>4. WinnersOK'
    <3>1. \A b \in won : /\ \A t \in b.by : Ballot(t, b.epoch, b.who) \in cast'
                         /\ InTime(b) => Majority(b)
      BY <1>4 DEF Votings, WinnersOK
    <3> HIDE DEF a
    <3> QED
      BY <2>1, <2>2, <2>3, <3>1 DEF WinnersOK, Ballot, InTime, Majority
  <2>5. a \in [who : Sentinels, epoch : Nat, cur : Nat, by : SUBSET Sentinels]
    BY <1>2, <1>6
  <2> QED
    BY <1>4, <1>5, <2>1, <2>4, <2>5 DEF Votings, Typed
<1> QED
  BY <1>7, <1>8

\* A timer step keeps the invariant.
LEMMA TimerKeeps ==
    ASSUME SentinelElectionAssumption, IInv, NEW s \in Sentinels, NEW late \in {st[s].sdown, TRUE},
           NEW go \in BOOLEAN, NEW timeout \in BOOLEAN, sentinelTimer(s, late, go, timeout)
    PROVE  IInv'
<1>1. st[s] \in States /\ disk[s] \in [cur : Nat, lepoch : Nat] /\ late \in BOOLEAN
  BY DEF IInv, Typed, States
<1>2. PICK r0 \in States :
         /\ r0 = [st[s] EXCEPT !.sdown = late]
         /\ r0.cur = st[s].cur /\ r0.leader = st[s].leader /\ r0.lepoch = st[s].lepoch
         /\ r0.state = st[s].state /\ r0.fepoch = st[s].fepoch /\ (st[s].sdown => r0.sdown)
  <2>1. PICK r0 : r0 = [st[s] EXCEPT !.sdown = late]
    OBVIOUS
  <2>2. r0 \in States /\ r0.cur = st[s].cur /\ r0.leader = st[s].leader /\ r0.lepoch = st[s].lepoch
        /\ r0.state = st[s].state /\ r0.fepoch = st[s].fepoch /\ r0.sdown = late
    BY <1>1, <2>1, OtherSdown
  <2>3. st[s].sdown => late
    OBVIOUS
  <2> QED
    BY <2>1, <2>2, <2>3
<1>3. PICK r \in States :
         /\ r = StartIfNeeded(s, r0, go)
         /\ r.leader = st[s].leader /\ r.lepoch = st[s].lepoch
         /\ r.cur >= st[s].cur /\ r.cur <= MaxEpoch /\ r.lepoch <= r.cur /\ r.fepoch <= r.cur
         /\ st[s].sdown => r.sdown
         /\ \/ r.state = st[s].state /\ r.cur = st[s].cur
            \/ r.state = "wait_start" /\ ODown(s, r) /\ r.sdown
  BY <1>2, Starts
<1>4. UNCHANGED <<seen, lost, restarts>>
  BY DEF sentinelTimer
<1>5. disk[s].lepoch = r.lepoch /\ disk[s].cur <= st[s].cur /\ disk[s].lepoch <= disk[s].cur
  BY <1>3 DEF IInv, EpochsOK
<1>6. ASSUME NEW v \in States, st' = [st EXCEPT ![s] = v], v.sdown = r.sdown,
             v.state # "none" => r.state # "none",
             \/ won' = won
             \/ r.state = "wait_start"
      PROVE  DownKnown'
  <2> SUFFICES ASSUME restarts = 0
               PROVE  /\ \A x \in Sentinels : \A t \in Others(x) : seen[x][t].down => st'[t].sdown
                      /\ \A x \in Sentinels : st'[x].state # "none" => Cardinality(Down') >= Quorum
                      /\ won' # {} => Cardinality(Down') >= Quorum
    BY <1>4 DEF DownKnown
  <2>1. /\ Down \subseteq Down' /\ Cardinality(Down) <= Cardinality(Down')
        /\ Cardinality(Down) \in Nat /\ Cardinality(Down') \in Nat /\ Quorum \in Nat
    <3>1. Typed /\ (st[s].sdown => v.sdown)
      BY <1>3, <1>6 DEF IInv
    <3> QED
      BY <1>6, <3>1, DownGrows, QuorumType
  <2>2. st'[s] = v /\ \A x \in Sentinels \ {s} : st'[x] = st[x]
    BY <1>6 DEF IInv, Typed
  <2>3. \A x \in Sentinels : \A t \in Others(x) : seen[x][t].down => t \in Down'
    BY <2>1 DEF IInv, DownKnown, Down, Others
  <2>4. \A x \in Sentinels : st[x].state # "none" => Cardinality(Down') >= Quorum
    BY <2>1 DEF IInv, DownKnown
  <2>5. r.state # "none" => Cardinality(Down') >= Quorum
    <3>1. CASE r.state = st[s].state
      BY <3>1, <2>4
    <3>2. CASE ODown(s, r) /\ r.sdown
      <4>1. s \in Down' /\ Down' \in SUBSET Sentinels
        BY <1>6, <2>2, <3>2 DEF Down
      <4> QED
        BY <2>3, <3>2, <4>1, ODownForQuorum
    <3> QED
      BY <1>3, <3>1, <3>2
  <2>6. won' # {} => Cardinality(Down') >= Quorum
    BY <1>6, <2>1, <2>5 DEF IInv, DownKnown
  <2> QED
    BY <1>6, <2>2, <2>3, <2>4, <2>5, <2>6 DEF Down
<1>7. CASE r.state # "wait_start"
  <2>1. st' = [st EXCEPT ![s] = r] /\ UNCHANGED <<disk, won, cast>>
    BY <1>2, <1>3, <1>7 DEF sentinelTimer
  <2>2. st'[s] = r /\ \A x \in Sentinels \ {s} : st'[x] = st[x]
    BY <2>1 DEF IInv, Typed
  <2>3. Typed'
    BY <1>4, <2>1 DEF IInv, Typed
  <2>4. EpochsOK'
    BY <1>3, <1>7, <2>1, <2>2 DEF IInv, EpochsOK
  <2>5. OwnVotes'
    BY <1>3, <2>1, <2>2 DEF IInv, Votings, OwnVotes, Typed, Ballots, Ballot
  <2>6. OneVotePerEpoch' /\ HeardVotes' /\ WinnersOK'
    BY <1>4, <2>1 DEF IInv, Votings, OneVotePerEpoch, HeardVotes, WinnersOK, Ballot, InTime, Majority
  <2>7. DownKnown'
    BY <1>6, <2>1
  <2> QED
    BY <2>3, <2>4, <2>5, <2>6, <2>7 DEF IInv, Votings
<1>8. CASE r.state = "wait_start"
  <2>1. PICK w \in IF Most(s, r) = {} THEN {s} ELSE Most(s, r) :
           LET g == sentinelGetLeader(s, r, w)
               voted == Voters(s, r.fepoch, s)
                        \cup {t \in {s} : g.r.leader = s /\ g.r.lepoch = r.fepoch}
           IN  /\ st' = [st EXCEPT ![s] = [g.r EXCEPT !.state = IF g.elected THEN "leader"
                                                               ELSE IF timeout THEN "none" ELSE @]]
               /\ disk' = [disk EXCEPT ![s] = Flush(@, r, g.r)]
               /\ cast' = cast \cup Given(s, r, g.r)
               /\ won' = IF g.elected
                      THEN won \cup {[who |-> s, epoch |-> r.fepoch, cur |-> r.cur, by |-> voted]}
                         ELSE won
    BY <1>2, <1>3, <1>8 DEF sentinelTimer
  <2>2. w \in Sentinels
    BY DEF Most
  <2>3. PICK g : g = sentinelGetLeader(s, r, w)
    OBVIOUS
  <2>4. /\ g.r \in States /\ g.r.state = r.state /\ g.r.fepoch = r.fepoch /\ g.r.sdown = r.sdown
        /\ g.r.cur = r.cur /\ g.r.lepoch <= g.r.cur
        /\ \/ g.r.lepoch = r.lepoch /\ g.r.leader = r.leader
           \/ g.r.lepoch > r.lepoch /\ g.r.leader = w
    <3>1. g.r = sentinelVoteLeader(r, r.fepoch, w)
      BY <2>3 DEF sentinelGetLeader
    <3>2. r.fepoch \in Nat /\ r.cur \in Nat /\ ~(r.fepoch > r.cur)
      BY <1>3 DEF States
    <3> QED
      BY <1>3, <2>2, <3>1, <3>2, VoteLeader
  <2>5. PICK kept \in States :
           /\ st' = [st EXCEPT ![s] = kept]
           /\ kept.leader = g.r.leader /\ kept.lepoch = g.r.lepoch /\ kept.cur = g.r.cur
           /\ kept.fepoch = g.r.fepoch /\ kept.sdown = g.r.sdown
    <3> DEFINE new == IF g.elected THEN "leader" ELSE IF timeout THEN "none" ELSE g.r.state
    <3>1. st' = [st EXCEPT ![s] = [g.r EXCEPT !.state = new]]
      BY <2>1, <2>3
    <3>2. new \in {"none", "wait_start", "leader"}
      BY <2>4 DEF States
    <3> HIDE DEF new
    <3>3. PICK kept : kept = [g.r EXCEPT !.state = new]
      OBVIOUS
    <3>4. /\ kept \in States /\ kept.cur = g.r.cur /\ kept.leader = g.r.leader
          /\ kept.lepoch = g.r.lepoch /\ kept.fepoch = g.r.fepoch /\ kept.sdown = g.r.sdown
      BY <2>4, <3>2, <3>3, OtherState
    <3> QED
      BY <3>1, <3>3, <3>4
  <2>6. PICK d \in [cur : Nat, lepoch : Nat] :
           /\ disk' = [disk EXCEPT ![s] = d]
           /\ d.lepoch = kept.lepoch /\ d.cur <= kept.cur /\ d.lepoch <= d.cur
    <3>1. disk' = [disk EXCEPT ![s] = Flush(disk[s], r, g.r)]
      BY <2>1, <2>3
    <3>2. CASE Saved(g.r) = Saved(r)
      <4>1. g.r.lepoch = r.lepoch
        BY <3>2 DEF Saved
      <4>2. disk' = [disk EXCEPT ![s] = disk[s]]
        BY <3>1, <3>2 DEF Flush
      <4>3. disk[s].cur \in Nat /\ st[s].cur \in Nat /\ r.cur \in Nat
        BY <1>1 DEF States
      <4>4. disk[s].cur <= kept.cur
        BY <1>3, <1>5, <2>4, <2>5, <4>3
      <4> QED
        BY <1>1, <1>5, <2>5, <4>1, <4>2, <4>4
    <3>3. CASE Saved(g.r) # Saved(r)
      <4>1. disk' = [disk EXCEPT ![s] = Saved(g.r)]
        BY <3>1, <3>3 DEF Flush
      <4>2. PICK d : d = Saved(g.r)
        OBVIOUS
      <4>3. d \in [cur : Nat, lepoch : Nat] /\ d.cur = g.r.cur /\ d.lepoch = g.r.lepoch
        BY <2>4, <4>2 DEF Saved, States
      <4>4. d.lepoch = kept.lepoch /\ d.cur <= kept.cur /\ d.lepoch <= d.cur
        BY <2>4, <2>5, <4>3
      <4> QED
        BY <4>1, <4>2, <4>3, <4>4
    <3> QED
      BY <3>2, <3>3
  <2>7. cast' \in SUBSET Ballots /\ Votings'
        /\ won' \in SUBSET [who : Sentinels, epoch : Nat, cur : Nat, by : SUBSET Sentinels]
    <3> DEFINE voted == Voters(s, r.fepoch, s) \cup {t \in {s} : g.r.leader = s /\ g.r.lepoch = r.fepoch}
    <3>1. /\ cast' = cast \cup Given(s, r, g.r)
          /\ won' = IF g.elected
                    THEN won \cup {[who |-> s, epoch |-> r.fepoch, cur |-> r.cur, by |-> voted]} ELSE won
      BY <2>1, <2>3
    <3> HIDE DEF voted
    <3>2. voted = Voters(s, r.fepoch, s) \cup {t \in {s} : g.r.leader = s /\ g.r.lepoch = r.fepoch}
      BY DEF voted
    <3>3. /\ Typed /\ Votings /\ r.leader = st[s].leader /\ r.lepoch = st[s].lepoch
          /\ r.lepoch <= r.cur /\ r.fepoch <= r.cur /\ UNCHANGED seen
      BY <1>3, <1>4 DEF IInv
    <3>4. kept.leader = g.r.leader /\ kept.lepoch = g.r.lepoch /\ st' = [st EXCEPT ![s] = kept]
      BY <2>5
    <3> QED
      BY <2>2, <2>3, <3>1, <3>2, <3>3, <3>4, TimerVotes
  <2>8. Typed'
    BY <1>4, <2>5, <2>6, <2>7 DEF IInv, Typed
  <2>9. EpochsOK'
    <3>1. kept.cur <= MaxEpoch /\ kept.lepoch <= kept.cur /\ kept.fepoch <= kept.cur
      BY <1>3, <2>4, <2>5
    <3> QED
      BY <2>5, <2>6, <3>1, EpochsStay DEF IInv
  <2>10. DownKnown'
    BY <1>6, <1>8, <2>4, <2>5
  <2> QED
    BY <2>7, <2>8, <2>9, <2>10 DEF IInv
<1> QED
  BY <1>7, <1>8

-----------------------------------------------------------------------------
\* What t answers: its own state, with a vote if s is holding an election.
LEMMA Answers ==
    ASSUME SentinelElectionAssumption, IInv, NEW s \in Sentinels, NEW t \in Sentinels,
           NEW v, v = Answer(s, st[t])
    PROVE  /\ v \in States /\ v.state = st[t].state /\ v.fepoch = st[t].fepoch /\ v.sdown = st[t].sdown
           /\ v.cur >= st[t].cur /\ v.cur <= MaxEpoch /\ v.lepoch <= v.cur /\ v.fepoch <= v.cur
           /\ \/ v.lepoch = st[t].lepoch /\ v.leader = st[t].leader
              \/ v.lepoch > st[t].lepoch /\ v.leader \in Sentinels
<1>1. /\ st[s] \in States /\ st[t] \in States /\ MaxEpoch \in Nat
      /\ st[t].lepoch <= st[t].cur /\ st[t].fepoch <= st[t].cur
      /\ st[t].cur <= MaxEpoch /\ st[s].cur <= MaxEpoch
  BY DEF IInv, Typed, EpochsOK, SentinelElectionAssumption
<1>2. /\ st[s].cur \in Nat /\ st[t].cur \in Nat /\ st[t].fepoch \in Nat
  BY <1>1 DEF States
<1>3. CASE st[s].state # "none"
  <2>1. v = sentinelVoteLeader(st[t], st[s].cur, s)
    BY <1>3 DEF Answer
  <2>2. /\ v \in States
        /\ v.state = st[t].state /\ v.fepoch = st[t].fepoch /\ v.sdown = st[t].sdown
        /\ v.cur = IF st[s].cur > st[t].cur THEN st[s].cur ELSE st[t].cur
        /\ v.lepoch <= v.cur
        /\ \/ v.lepoch = st[t].lepoch /\ v.leader = st[t].leader
           \/ v.lepoch > st[t].lepoch /\ v.leader = s
    <3>1. PICK r \in States, e \in Nat : r = st[t] /\ e = st[s].cur
      BY <1>1, <1>2
    <3>2. v = sentinelVoteLeader(r, e, s) /\ r.lepoch <= r.cur
      BY <1>1, <2>1, <3>1
    <3> QED
      BY <3>1, <3>2, VoteLeader
  <2>3. v.cur >= st[t].cur /\ v.cur <= MaxEpoch /\ v.fepoch <= v.cur
    BY <1>1, <1>2, <2>2
  <2> QED
    BY <2>2, <2>3
<1>4. CASE st[s].state = "none"
  <2>1. v = st[t]
    BY <1>4 DEF Answer
  <2> QED
    BY <1>1, <1>2, <2>1
<1> QED
  BY <1>3, <1>4

\* A question and its answer keep the invariant.
LEMMA AskKeeps ==
    ASSUME SentinelElectionAssumption, IInv, NEW s \in Sentinels, NEW arrives \in BOOLEAN,
           NEW t \in Others(s), Ask(s, t, arrives)
    PROVE  IInv'
<1>0. t \in Sentinels /\ t # s
  BY DEF Others
<1>1. PICK v : v = Answer(s, st[t])
  OBVIOUS
<1>2. /\ v \in States /\ v.state = st[t].state /\ v.fepoch = st[t].fepoch /\ v.sdown = st[t].sdown
      /\ v.cur >= st[t].cur /\ v.cur <= MaxEpoch /\ v.lepoch <= v.cur /\ v.fepoch <= v.cur
      /\ \/ v.lepoch = st[t].lepoch /\ v.leader = st[t].leader
         \/ v.lepoch > st[t].lepoch /\ v.leader \in Sentinels
  BY <1>0, <1>1, Answers
<1>3. /\ st' = [st EXCEPT ![t] = v] /\ cast' = cast \cup Given(t, st[t], v)
      /\ disk' = [disk EXCEPT ![t] = Flush(disk[t], st[t], v)]
      /\ seen' = IF arrives THEN [seen EXCEPT ![s][t] = Receive(s, t, v)] ELSE seen
      /\ UNCHANGED <<won, restarts>>
  BY <1>1 DEF Ask
<1>4. st'[t] = v /\ \A x \in Sentinels \ {t} : st'[x] = st[x]
  BY <1>0, <1>3 DEF IInv, Typed
<1>5. /\ st[t] \in States /\ disk[t] \in [cur : Nat, lepoch : Nat]
      /\ disk[t].lepoch = st[t].lepoch /\ disk[t].cur <= st[t].cur /\ disk[t].lepoch <= disk[t].cur
  BY <1>0 DEF IInv, Typed, EpochsOK
<1>6. cast \subseteq cast' /\ cast' \in SUBSET Ballots /\ OwnVotes' /\ OneVotePerEpoch'
  BY <1>0, <1>2, <1>3, <1>5, NewVote DEF IInv, Votings
<1>7. PICK d \in [cur : Nat, lepoch : Nat] :
         /\ disk' = [disk EXCEPT ![t] = d]
         /\ d.lepoch = v.lepoch /\ d.cur <= v.cur /\ d.lepoch <= d.cur
  <2>1. CASE Saved(v) = Saved(st[t])
    <3>1. v.lepoch = st[t].lepoch /\ v.cur = st[t].cur
      BY <2>1 DEF Saved
    <3>2. disk' = [disk EXCEPT ![t] = disk[t]]
      BY <1>3, <2>1 DEF Flush
    <3> QED
      BY <1>5, <3>1, <3>2
  <2>2. CASE Saved(v) # Saved(st[t])
    <3>1. disk' = [disk EXCEPT ![t] = Saved(v)]
      BY <1>3, <2>2 DEF Flush
    <3>2. PICK d : d = Saved(v)
      OBVIOUS
    <3>3. d \in [cur : Nat, lepoch : Nat] /\ d.cur = v.cur /\ d.lepoch = v.lepoch
      BY <1>2, <3>2 DEF Saved, States
    <3>4. d.cur <= v.cur /\ d.lepoch <= d.cur
      BY <1>2, <3>3
    <3> QED
      BY <3>1, <3>2, <3>3, <3>4
  <2> QED
    BY <2>1, <2>2
<1>8. PICK m \in [down : BOOLEAN, leader : Names, epoch : Nat] :
         /\ m = Receive(s, t, v)
         /\ m.down => v.sdown
         /\ \/ m.leader = v.leader /\ m.epoch = v.lepoch
            \/ m.leader = seen[s][t].leader /\ m.epoch = seen[s][t].epoch
  <2>1. seen[s][t] \in [down : BOOLEAN, leader : Names, epoch : Nat]
    BY DEF IInv, Typed
  <2>2. v.sdown \in BOOLEAN /\ v.leader \in Names /\ v.lepoch \in Nat
    BY <1>2 DEF States
  <2>3. PICK m : m = Receive(s, t, v)
    OBVIOUS
  <2>4. CASE st[s].state # "none" /\ v.leader # NoOne
    <3>1. m = [down |-> v.sdown, leader |-> v.leader, epoch |-> v.lepoch]
      BY <2>3, <2>4 DEF Receive
    <3> QED
      BY <2>2, <2>3, <3>1
  <2>5. CASE ~(st[s].state # "none" /\ v.leader # NoOne)
    <3>1. m = [seen[s][t] EXCEPT !.down = v.sdown]
      BY <2>3, <2>5 DEF Receive
    <3>2. /\ m \in [down : BOOLEAN, leader : Names, epoch : Nat] /\ m.down = v.sdown
          /\ m.leader = seen[s][t].leader /\ m.epoch = seen[s][t].epoch
      BY <2>1, <2>2, <3>1
    <3> QED
      BY <2>3, <3>2
  <2> QED
    BY <2>4, <2>5
<1>9. \A x \in Sentinels : \A y \in Others(x) :
         seen'[x][y] = IF arrives /\ x = s /\ y = t THEN m ELSE seen[x][y]
  BY <1>3, <1>8 DEF IInv, Typed
<1>10. Typed'
  <2>1. st' \in [Sentinels -> States] /\ disk' \in [Sentinels -> [cur : Nat, lepoch : Nat]]
    BY <1>0, <1>2, <1>3, <1>7 DEF IInv, Typed
  <2>2. DOMAIN seen' = Sentinels
    BY <1>3 DEF IInv, Typed
  <2>3. \A x \in Sentinels : seen'[x] \in [Others(x) -> [down : BOOLEAN, leader : Names, epoch : Nat]]
    BY <1>3, <1>8 DEF IInv, Typed
  <2> QED
    BY <1>3, <1>6, <2>1, <2>2, <2>3 DEF IInv, Typed
<1>11. EpochsOK'
  BY <1>0, <1>2, <1>3, <1>7, EpochsStay DEF IInv
<1>12. HeardVotes'
  <2> SUFFICES ASSUME NEW x \in Sentinels, NEW y \in Others(x), seen'[x][y].leader # NoOne
               PROVE  Ballot(y, seen'[x][y].epoch, seen'[x][y].leader) \in cast'
    BY DEF HeardVotes, Ballot
  <2>1. \/ seen'[x][y].leader = seen[x][y].leader /\ seen'[x][y].epoch = seen[x][y].epoch
        \/ y = t /\ seen'[x][y].leader = v.leader /\ seen'[x][y].epoch = v.lepoch
    BY <1>8, <1>9
  <2>2. CASE seen'[x][y].leader = seen[x][y].leader /\ seen'[x][y].epoch = seen[x][y].epoch
    BY <1>6, <2>2 DEF IInv, Votings, HeardVotes
  <2>3. CASE y = t /\ seen'[x][y].leader = v.leader /\ seen'[x][y].epoch = v.lepoch
    <3>1. st'[t].leader # NoOne => Ballot(t, st'[t].lepoch, st'[t].leader) \in cast'
      BY <1>0, <1>6 DEF OwnVotes, Ballot
    <3> QED
      BY <1>4, <2>3, <3>1
  <2> QED
    BY <2>1, <2>2, <2>3
<1>13. WinnersOK'
  BY <1>3, <1>6 DEF IInv, Votings, WinnersOK, Ballot, InTime, Majority
<1>14. DownKnown'
  <2> SUFFICES ASSUME restarts = 0
               PROVE  /\ \A x \in Sentinels : \A y \in Others(x) : seen'[x][y].down => st'[y].sdown
                      /\ \A x \in Sentinels : st'[x].state # "none" => Cardinality(Down') >= Quorum
                      /\ won' # {} => Cardinality(Down') >= Quorum
    BY <1>3 DEF DownKnown
  <2>1. \A x \in Sentinels : st'[x].sdown = st[x].sdown /\ st'[x].state = st[x].state
    BY <1>2, <1>4
  <2>2. Down' = Down
    BY <2>1 DEF Down
  <2>3. \A x \in Sentinels : \A y \in Others(x) : seen[x][y].down => st'[y].sdown
    BY <2>1 DEF IInv, DownKnown, Others
  <2> QED
    BY <1>2, <1>3, <1>8, <1>9, <2>1, <2>2, <2>3 DEF IInv, DownKnown
<1> QED
  BY <1>6, <1>10, <1>11, <1>12, <1>13, <1>14 DEF IInv, Votings

\* A step that casts no vote and does not touch what was heard: x may forget its own
\* vote, but not its epoch.
LEMMA QuietKeeps ==
    ASSUME SentinelElectionAssumption, IInv, NEW x \in Sentinels, NEW v \in States,
           NEW d \in [cur : Nat, lepoch : Nat],
           st' = [st EXCEPT ![x] = v], disk' = [disk EXCEPT ![x] = d],
           v.leader \in {st[x].leader, NoOne}, v.lepoch = st[x].lepoch,
           v.cur <= MaxEpoch, v.lepoch <= v.cur, v.fepoch <= v.cur,
           d.lepoch = v.lepoch, d.cur <= v.cur, d.lepoch <= d.cur,
           v.sdown = st[x].sdown, v.state \in {st[x].state, "none"},
           UNCHANGED <<seen, won, cast, restarts>>
    PROVE  IInv'
<1>1. st'[x] = v /\ \A s \in Sentinels \ {x} : st'[s] = st[s]
  BY DEF IInv, Typed
<1>2. Typed'
  BY DEF IInv, Typed
<1>3. EpochsOK'
  BY EpochsStay DEF IInv
<1>4. OwnVotes'
  <2>1. \A s \in Sentinels : st'[s].lepoch = st[s].lepoch /\ st'[s].leader \in {st[s].leader, NoOne}
    BY <1>1
  <2> QED
    BY <2>1 DEF IInv, Votings, OwnVotes, Typed, Ballots, Ballot
<1>5. OneVotePerEpoch' /\ HeardVotes' /\ WinnersOK'
  BY DEF IInv, Votings, OneVotePerEpoch, HeardVotes, WinnersOK, Ballot, InTime, Majority
<1>6. DownKnown'
  <2>1. \A s \in Sentinels : st'[s].sdown = st[s].sdown /\ st'[s].state \in {st[s].state, "none"}
    BY <1>1
  <2>2. Down' = Down
    BY <2>1 DEF Down
  <2>3. restarts = 0 => \A s \in Sentinels : \A t \in Others(s) : seen[s][t].down => st'[t].sdown
    BY <2>1 DEF IInv, DownKnown, Others
  <2> QED
    BY <2>1, <2>2, <2>3 DEF IInv, DownKnown
<1> QED
  BY <1>2, <1>3, <1>4, <1>5, <1>6 DEF IInv, Votings

-----------------------------------------------------------------------------
LEMMA InitialState == SentinelElectionAssumption /\ Init => IInv
<1> SUFFICES ASSUME SentinelElectionAssumption, Init PROVE IInv
  OBVIOUS
<1>1. disk = [s \in Sentinels |-> [cur |-> 0, lepoch |-> 0]] /\ MaxEpoch \in Nat
  BY DEF Init, SentinelElectionAssumption
<1>2. \A s \in Sentinels :
         st[s] = [cur |-> 0, leader |-> NoOne, lepoch |-> 0, state |-> "none", fepoch |-> 0, sdown |-> FALSE]
  BY <1>1 DEF Init, Fresh
<1>3. NoReply \in [down : BOOLEAN, leader : Names, epoch : Nat] /\ ~NoReply.down /\ NoReply.leader = NoOne
  BY DEF NoReply, Names
<1>4. Typed
  <2>1. st \in [Sentinels -> States]
    BY <1>1 DEF Init, Fresh, States, Names
  <2> QED
    BY <1>1, <1>3, <2>1 DEF Init, Typed
<1>5. EpochsOK
  BY <1>1, <1>2 DEF EpochsOK
<1>6. \A s \in Sentinels : \A t \in Others(s) : ~seen[s][t].down /\ seen[s][t].leader = NoOne
  BY <1>3 DEF Init
<1>7. Votings
  BY <1>2, <1>6 DEF Init, Votings, OwnVotes, OneVotePerEpoch, HeardVotes, WinnersOK
<1>8. DownKnown
  BY <1>2, <1>6 DEF Init, DownKnown
<1> QED
  BY <1>4, <1>5, <1>7, <1>8 DEF IInv

\* A later epoch in s, which is its own or has come with a hello message.
LEMMA LaterEpoch ==
    ASSUME SentinelElectionAssumption, IInv, NEW x \in Sentinels, NEW e \in Nat,
           e >= st[x].cur, e <= MaxEpoch, st' = [st EXCEPT ![x] = [st[x] EXCEPT !.cur = e]],
           \/ disk' = disk
           \/ disk' = [disk EXCEPT ![x] = [cur |-> e, lepoch |-> st[x].lepoch]],
           UNCHANGED <<seen, won, cast, restarts>>
    PROVE  IInv'
<1>1. /\ st[x] \in States /\ disk[x] \in [cur : Nat, lepoch : Nat]
      /\ st[x].lepoch <= st[x].cur /\ st[x].fepoch <= st[x].cur
      /\ disk[x].lepoch = st[x].lepoch /\ disk[x].cur <= st[x].cur /\ disk[x].lepoch <= disk[x].cur
  BY DEF IInv, Typed, EpochsOK
<1>2. PICK v : v = [st[x] EXCEPT !.cur = e]
  OBVIOUS
<1>3. /\ v \in States /\ v.cur = e /\ v.leader = st[x].leader /\ v.lepoch = st[x].lepoch
      /\ v.state = st[x].state /\ v.fepoch = st[x].fepoch /\ v.sdown = st[x].sdown
  BY <1>1, <1>2 DEF States
<1>4. st[x].cur \in Nat /\ st[x].lepoch \in Nat /\ st[x].fepoch \in Nat
  BY <1>1 DEF States
<1>5. v.cur <= MaxEpoch /\ v.lepoch <= v.cur /\ v.fepoch <= v.cur
  BY <1>1, <1>3, <1>4
<1>6. PICK d \in [cur : Nat, lepoch : Nat] :
         /\ disk' = [disk EXCEPT ![x] = d] /\ d.lepoch = v.lepoch /\ d.cur <= v.cur /\ d.lepoch <= d.cur
  <2>1. CASE disk' = disk
    <3>1. disk' = [disk EXCEPT ![x] = disk[x]]
      BY <2>1 DEF IInv, Typed
    <3>2. disk[x].cur <= v.cur
      BY <1>1, <1>3, <1>4
    <3> QED
      BY <1>1, <1>3, <3>1, <3>2
  <2>2. CASE disk' = [disk EXCEPT ![x] = [cur |-> e, lepoch |-> st[x].lepoch]]
    <3>1. PICK d : d = [cur |-> e, lepoch |-> st[x].lepoch]
      OBVIOUS
    <3>2. d \in [cur : Nat, lepoch : Nat] /\ d.cur = e /\ d.lepoch = st[x].lepoch
      BY <1>4, <3>1
    <3>3. d.cur <= v.cur /\ d.lepoch <= d.cur
      BY <1>3, <1>5, <3>2
    <3> QED
      BY <1>3, <2>2, <3>1, <3>2, <3>3
  <2> QED
    BY <2>1, <2>2
<1>7. st' = [st EXCEPT ![x] = v]
  BY <1>2
<1> QED
  BY <1>3, <1>5, <1>6, <1>7, QuietKeeps

LEMMA FinishKeeps == ASSUME SentinelElectionAssumption, IInv, NEW s \in Sentinels, Finish(s) PROVE IInv'
<1>1. /\ st[s] \in States /\ disk[s] \in [cur : Nat, lepoch : Nat]
      /\ st[s].cur <= MaxEpoch /\ st[s].lepoch <= st[s].cur /\ st[s].fepoch <= st[s].cur
      /\ disk[s].lepoch = st[s].lepoch /\ disk[s].cur <= st[s].cur /\ disk[s].lepoch <= disk[s].cur
  BY DEF IInv, Typed, EpochsOK
<1>2. PICK v : v = [[st[s] EXCEPT !.state = "none"] EXCEPT !.leader = NoOne]
  OBVIOUS
<1>3. PICK u : u = [st[s] EXCEPT !.state = "none"]
  OBVIOUS
<1>4. /\ u \in States /\ u.cur = st[s].cur /\ u.lepoch = st[s].lepoch
      /\ u.state = "none" /\ u.fepoch = st[s].fepoch /\ u.sdown = st[s].sdown
  BY <1>1, <1>3, OtherState
<1>5. /\ v \in States /\ v.cur = st[s].cur /\ v.leader = NoOne /\ v.lepoch = st[s].lepoch
      /\ v.state = "none" /\ v.fepoch = st[s].fepoch /\ v.sdown = st[s].sdown
  <2>1. v = [u EXCEPT !.leader = NoOne]
    BY <1>2, <1>3
  <2> QED
    BY <1>4, <2>1 DEF States, Names
<1>6. /\ \/ st' = [st EXCEPT ![s] = v]
         \/ st' = [st EXCEPT ![s] = u]
      /\ disk' = [disk EXCEPT ![s] = disk[s]] /\ UNCHANGED <<seen, won, cast, restarts>>
  BY <1>2, <1>3 DEF Finish, IInv, Typed
<1>7. CASE st' = [st EXCEPT ![s] = v]
  BY <1>1, <1>5, <1>6, <1>7, QuietKeeps
<1>8. u.leader = st[s].leader
  BY <1>1, <1>3 DEF States
<1>9. CASE st' = [st EXCEPT ![s] = u]
  BY <1>1, <1>4, <1>6, <1>8, <1>9, QuietKeeps
<1> QED
  BY <1>6, <1>7, <1>9

LEMMA HelloKeeps ==
    ASSUME SentinelElectionAssumption, IInv, NEW s \in Sentinels, NEW t \in Others(s), Hello(s, t)
    PROVE  IInv'
<1>1. t \in Sentinels /\ st[s] \in States /\ st[t] \in States
      /\ st[s].cur <= MaxEpoch /\ st[t].cur <= MaxEpoch
  BY DEF IInv, Typed, EpochsOK, Others
<1>2. PICK e : e = IF st[s].cur > st[t].cur THEN st[s].cur ELSE st[t].cur
  OBVIOUS
<1>3. st[s].cur \in Nat /\ st[t].cur \in Nat
  BY <1>1 DEF States
<1>4. e \in Nat /\ e >= st[t].cur /\ e <= MaxEpoch
  BY <1>1, <1>2, <1>3
<1>5. NewEpoch(st[t], st[s].cur) = [st[t] EXCEPT !.cur = e]
  BY <1>2 DEF NewEpoch
<1>6. Saved([st[t] EXCEPT !.cur = e]) = [cur |-> e, lepoch |-> st[t].lepoch]
  BY <1>1 DEF Saved, States
<1>7. /\ st' = [st EXCEPT ![t] = [st[t] EXCEPT !.cur = e]]
      /\ disk' = [disk EXCEPT ![t] = [cur |-> e, lepoch |-> st[t].lepoch]]
      /\ UNCHANGED <<seen, won, cast, restarts>>
  BY <1>5, <1>6 DEF Hello
<1> QED
  BY <1>1, <1>4, <1>7, LaterEpoch

LEMMA OtherMasterKeeps ==
    ASSUME SentinelElectionAssumption, IInv, NEW s \in Sentinels, OtherMaster(s) PROVE IInv'
<1>1. st[s].cur \in Nat /\ MaxEpoch \in Nat /\ st[s].cur < MaxEpoch
  BY DEF IInv, Typed, States, SentinelElectionAssumption, OtherMaster
<1>2. PICK e : e = st[s].cur + 1
  OBVIOUS
<1>3. e \in Nat /\ e >= st[s].cur /\ e <= MaxEpoch
  BY <1>1, <1>2
<1>4. /\ st' = [st EXCEPT ![s] = [st[s] EXCEPT !.cur = e]] /\ disk' = disk
      /\ UNCHANGED <<seen, won, cast, restarts>>
  BY <1>2 DEF OtherMaster
<1> QED
  BY <1>3, <1>4, LaterEpoch

LEMMA ForgetKeeps ==
    ASSUME SentinelElectionAssumption, IInv, NEW s \in Sentinels, NEW t \in Others(s), Forget(s, t)
    PROVE  IInv'
<1>1. seen[s][t] \in [down : BOOLEAN, leader : Names, epoch : Nat]
  BY DEF IInv, Typed
<1>2. PICK m : m = [[seen[s][t] EXCEPT !.down = FALSE] EXCEPT !.leader = NoOne]
  OBVIOUS
<1>3. m \in [down : BOOLEAN, leader : Names, epoch : Nat] /\ ~m.down /\ m.leader = NoOne
  BY <1>1, <1>2 DEF Names
<1>4. seen' = [seen EXCEPT ![s] = [seen[s] EXCEPT ![t] = m]] /\ UNCHANGED <<st, disk, won, cast, restarts>>
  BY <1>2 DEF Forget
<1>5. \A x \in Sentinels : \A y \in Others(x) :
         seen'[x][y] = IF x = s /\ y = t THEN m ELSE seen[x][y]
  BY <1>4 DEF IInv, Typed
<1>6. Typed'
  <2>1. DOMAIN seen' = Sentinels
        /\ \A x \in Sentinels : seen'[x] \in [Others(x) -> [down : BOOLEAN, leader : Names, epoch : Nat]]
    BY <1>3, <1>4 DEF IInv, Typed
  <2> QED
    BY <1>4, <2>1 DEF IInv, Typed
<1>7. EpochsOK' /\ OwnVotes' /\ OneVotePerEpoch' /\ WinnersOK'
  BY <1>4 DEF IInv, EpochsOK, Votings, OwnVotes, OneVotePerEpoch, WinnersOK, Ballot, InTime, Majority
<1>8. HeardVotes'
  BY <1>3, <1>4, <1>5 DEF IInv, Votings, HeardVotes, Ballot
<1>9. DownKnown'
  <2>1. Down' = Down
    BY <1>4 DEF Down
  <2> QED
    BY <1>3, <1>4, <1>5, <2>1 DEF IInv, DownKnown
<1> QED
  BY <1>6, <1>7, <1>8, <1>9 DEF IInv, Votings

LEMMA RestartKeeps ==
    ASSUME SentinelElectionAssumption, IInv, NEW s \in Sentinels, Restart(s) PROVE IInv'
<1>1. /\ disk[s] \in [cur : Nat, lepoch : Nat] /\ st[s] \in States
      /\ st[s].cur <= MaxEpoch /\ disk[s].lepoch = st[s].lepoch
      /\ disk[s].cur <= st[s].cur /\ disk[s].lepoch <= disk[s].cur
  BY DEF IInv, Typed, EpochsOK
<1>2. PICK v : v = Fresh(disk[s])
  OBVIOUS
<1>3. /\ v \in States /\ v.cur = disk[s].cur /\ v.leader = NoOne /\ v.lepoch = st[s].lepoch
      /\ v.fepoch = 0
  BY <1>1, <1>2 DEF Fresh, States, Names
<1>4. /\ st' = [st EXCEPT ![s] = v] /\ disk' = [disk EXCEPT ![s] = disk[s]]
      /\ seen' = [seen EXCEPT ![s] = [t \in Others(s) |-> NoReply]]
      /\ restarts' = restarts + 1 /\ UNCHANGED <<won, cast>>
  BY <1>2 DEF Restart, IInv, Typed
<1>5. st'[s] = v /\ \A x \in Sentinels \ {s} : st'[x] = st[x]
  BY <1>4 DEF IInv, Typed
<1>6. NoReply \in [down : BOOLEAN, leader : Names, epoch : Nat] /\ NoReply.leader = NoOne
  BY DEF NoReply, Names
<1>7. Typed'
  <2>1. DOMAIN seen' = Sentinels
        /\ \A x \in Sentinels : seen'[x] \in [Others(x) -> [down : BOOLEAN, leader : Names, epoch : Nat]]
    BY <1>4, <1>6 DEF IInv, Typed
  <2>2. restarts' \in Nat
    BY <1>4 DEF IInv, Typed
  <2> QED
    BY <1>1, <1>3, <1>4, <2>1, <2>2 DEF IInv, Typed
<1>8. EpochsOK'
  <2>1. disk[s].cur \in Nat /\ st[s].cur \in Nat /\ st[s].lepoch \in Nat /\ MaxEpoch \in Nat
    BY <1>1 DEF States, SentinelElectionAssumption
  <2>2. /\ v.cur <= MaxEpoch /\ v.lepoch <= v.cur /\ v.fepoch <= v.cur
        /\ disk[s].lepoch = v.lepoch /\ disk[s].cur <= v.cur
    BY <1>1, <1>3, <2>1
  <2> QED
    BY <1>1, <1>3, <1>4, <2>2, EpochsStay DEF IInv
<1>9. OwnVotes'
  <2>1. \A x \in Sentinels : st'[x].lepoch = st[x].lepoch /\ st'[x].leader \in {st[x].leader, NoOne}
    BY <1>3, <1>5
  <2> QED
    BY <1>4, <2>1 DEF IInv, Votings, OwnVotes, Typed, Ballots, Ballot
<1>10. OneVotePerEpoch' /\ WinnersOK'
  BY <1>4 DEF IInv, Votings, OneVotePerEpoch, WinnersOK, Ballot, InTime, Majority
<1>11. HeardVotes'
  <2>1. \A x \in Sentinels : \A y \in Others(x) : seen'[x][y] = IF x = s THEN NoReply ELSE seen[x][y]
    BY <1>4 DEF IInv, Typed
  <2> QED
    BY <1>4, <1>6, <2>1 DEF IInv, Votings, HeardVotes, Ballot
<1>12. restarts' # 0
  BY <1>4 DEF IInv, Typed
<1> QED
  BY <1>7, <1>8, <1>9, <1>10, <1>11, <1>12 DEF IInv, Votings, DownKnown

LEMMA StepKeeps == SentinelElectionAssumption /\ IInv /\ [Next]_vars => IInv'
<1> SUFFICES ASSUME SentinelElectionAssumption, IInv, [Next]_vars PROVE IInv'
  OBVIOUS
<1>1. ASSUME NEW s \in Sentinels, NEW late \in {st[s].sdown, TRUE}, NEW go \in {st[s].state = "none", FALSE},
             NEW timeout \in BOOLEAN, sentinelTimer(s, late, go, timeout)
      PROVE  IInv'
  <2>1. go \in BOOLEAN
    OBVIOUS
  <2> QED
    BY <1>1, <2>1, TimerKeeps
<1>2. ASSUME NEW s \in Sentinels, Finish(s) PROVE IInv'
  BY <1>2, FinishKeeps
<1>3. ASSUME NEW s \in Sentinels, NEW arrives \in BOOLEAN, NEW t \in Others(s), Ask(s, t, arrives)
      PROVE  IInv'
  BY <1>3, AskKeeps
<1>4. ASSUME NEW s \in Sentinels, NEW t \in Others(s), Forget(s, t) PROVE IInv'
  BY <1>4, ForgetKeeps
<1>5. ASSUME NEW s \in Sentinels, NEW t \in Others(s), Hello(s, t) PROVE IInv'
  BY <1>5, HelloKeeps
<1>6. ASSUME NEW s \in Sentinels, OtherMaster(s) PROVE IInv'
  BY <1>6, OtherMasterKeeps
<1>7. ASSUME NEW s \in Sentinels, Restart(s) PROVE IInv'
  BY <1>7, RestartKeeps
<1>8. CASE UNCHANGED vars
  BY <1>8 DEF vars, IInv, Typed, EpochsOK, Votings, OwnVotes, OneVotePerEpoch, HeardVotes, WinnersOK,
              DownKnown, Down, Ballot, InTime, Majority
<1> QED
  BY <1>1, <1>2, <1>3, <1>4, <1>5, <1>6, <1>7, <1>8 DEF Next

(* The inductive invariant: votes, answers and elections agree (sentinel.c:3194-3392). *)
THEOREM ElectionInvariant == ASSUME SentinelElectionAssumption PROVE Spec => []IInv
<1>1. Init => IInv
  BY InitialState
<1>2. IInv /\ [Next]_vars => IInv'
  BY StepKeeps
<1> QED
  BY <1>1, <1>2, PTL DEF Spec

-----------------------------------------------------------------------------
\* What the sentinels keep of the master is well formed: no epoch of a sentinel is ahead of its
\* current_epoch, and the vote in its configuration file is the last one it gave.
THEOREM StateIsTyped == ASSUME SentinelElectionAssumption PROVE Spec => []TypeOK
<1>1. IInv => TypeOK
  <2> SUFFICES ASSUME IInv PROVE TypeOK
    OBVIOUS
  <2>1. MaxEpoch \in Nat
    BY DEF SentinelElectionAssumption
  <2>2. ASSUME NEW s \in Sentinels
        PROVE  /\ st[s].cur \in 0..MaxEpoch /\ st[s].lepoch \in 0..st[s].cur
               /\ st[s].state \in {"none", "wait_start", "leader"} /\ st[s].fepoch \in 0..st[s].cur
               /\ disk[s].cur <= st[s].cur /\ disk[s].lepoch = st[s].lepoch
    <3>1. st[s] \in States
      BY DEF IInv, Typed
    <3> QED
      BY <2>1, <3>1 DEF IInv, EpochsOK, States
  <2>3. ASSUME NEW s \in Sentinels, NEW t \in Others(s) PROVE seen[s][t].leader \in Sentinels \cup {NoOne}
    BY DEF IInv, Typed, Names
  <2> QED
    BY <2>2, <2>3 DEF TypeOK
<1> QED
  BY <1>1, ElectionInvariant, PTL

\* A sentinel gives one vote in an epoch (sentinelVoteLeader), also when it restarts between
\* two questions: leader_epoch is written before the answer is sent.
THEOREM VotesOncePerEpoch == ASSUME SentinelElectionAssumption PROVE Spec => []OneVotePerEpoch
<1>1. IInv => OneVotePerEpoch
  BY DEF IInv, Votings
<1> QED
  BY <1>1, ElectionInvariant, PTL

\* sentinelGetLeader: who is elected for an epoch before current_epoch goes on has the votes
\* of a majority of the sentinels in that epoch.
THEOREM ElectedByMajority == ASSUME SentinelElectionAssumption PROVE Spec => []LeaderHasMajority
<1>1. IInv => LeaderHasMajority
  BY DEF IInv, Votings, WinnersOK, LeaderHasMajority
<1> QED
  BY <1>1, ElectionInvariant, PTL

\* Two sentinels are never elected for the same epoch before it is over, whoever restarts and
\* whatever answers are lost: their majorities have a voter in common, and it votes once.
THEOREM ElectsOneLeader == ASSUME SentinelElectionAssumption PROVE Spec => []OneLeaderPerEpoch
<1>1. IInv => OneLeaderPerEpoch
  <2> SUFFICES ASSUME IInv, NEW a \in won, NEW b \in won, InTime(a), InTime(b), a.epoch = b.epoch
               PROVE  a.who = b.who
    BY DEF OneLeaderPerEpoch
  <2>1. /\ \A t \in a.by : Ballot(t, a.epoch, a.who) \in cast
        /\ \A t \in b.by : Ballot(t, b.epoch, b.who) \in cast
        /\ Majority(a) /\ Majority(b)
    BY DEF IInv, Votings, WinnersOK
  <2>2. a.by \in SUBSET Sentinels /\ b.by \in SUBSET Sentinels
    BY DEF IInv, Typed
  <2>3. PICK t \in a.by : t \in b.by
    BY <2>1, <2>2, MajoritiesMeet DEF Majority
  <2>4. Ballot(t, a.epoch, a.who) \in cast /\ Ballot(t, a.epoch, b.who) \in cast
    BY <2>1, <2>3
  <2> QED
    BY <2>4 DEF IInv, Votings, OneVotePerEpoch, Ballot
<1> QED
  BY <1>1, ElectionInvariant, PTL

\* sentinelCheckObjectivelyDown: as long as no sentinel restarts, there is no leader of a
\* failover unless at least Quorum sentinels have found the master down.
THEOREM ElectedForQuorum == ASSUME SentinelElectionAssumption PROVE Spec => []DownForQuorum
<1>1. IInv => DownForQuorum
  BY DEF IInv, DownKnown, DownForQuorum, Down
<1> QED
  BY <1>1, ElectionInvariant, PTL

-----------------------------------------------------------------------------
(* Moving a slot                                                            *)

CONSTANTS Nodes, Src, Dst, Keys, Clients, Pairs, Ops, MaxWrites, MaxTimeouts
VARIABLES slots, epoch, mine, migrating, importing, db, call, tool, cl, last, stale, writes, timeouts

Z == INSTANCE ClusterSlots

\* After MIGRATE has timed out a key may be at both nodes.  This is harmless for GET and
\* SET of one key, which stay with the copy at Src, but not for what takes the key away
\* from Src, nor for commands with several keys, which may find the other copy.
TimeoutsHarmless == MaxTimeouts = 0 \/ (~Pairs /\ Ops \subseteq {"get", "set"})

-----------------------------------------------------------------------------
(* The invariant                                                           *)

Single(keys) == \E k \in keys : keys = {k}

\* The tables go through the steps of the tool.
Tables ==
    /\ \A n \in Nodes : /\ slots[n] \in {Src, Dst}
                        /\ n # Dst => importing[n] = Z!NoNode
                        /\ n # Src => migrating[n] = Z!NoNode
    /\ tool # "closing" => slots[Src] = Src /\ slots[Dst] = Src
    /\ slots[Dst] = Dst => importing[Dst] = Z!NoNode /\ epoch[Dst] >= mine[Src]
    /\ slots[Dst] # Dst /\ tool # "start" => importing[Dst] = Src
    /\ tool \in {"start", "importing"} => migrating[Src] = Z!NoNode
    /\ tool \in {"migrating", "closing"} /\ slots[Src] = Src => migrating[Src] = Dst

\* MIGRATE has copied the key and not yet deleted it.
Restored(k) == call.st = "ok" /\ call.key = k

\* Where the last value of a key is.
Value(k) ==
    /\ db[Src][k] = Z!NoKey => db[Dst][k] = last[k]
    /\ db[Src][k] # Z!NoKey /\ ~Restored(k) => db[Src][k] = last[k]
    /\ Restored(k) => /\ db[Dst][k] = last[k]
                      /\ MaxTimeouts # 0 => db[Src][k] = last[k]
    /\ MaxTimeouts = 0 /\ db[Src][k] # Z!NoKey /\ ~Restored(k) => db[Dst][k] = Z!NoKey
    /\ tool \in {"start", "importing"} => db[Dst][k] = Z!NoKey
    /\ tool = "closing" => db[Src][k] = Z!NoKey
Values == \A k \in Keys : Value(k)

\* MIGRATE runs only while the tool moves keys, and what it sends is there.
Calls ==
    /\ call \in [st : {"none", "sent", "ok"}, key : Keys \cup {Z!NoNode}, value : Nat]
    /\ call.st # "none" => /\ tool = "migrating" /\ call.key \in Keys
                           /\ db[Src][call.key] # Z!NoKey
    /\ call.st = "sent" => call.value = db[Src][call.key]

\* A client asks Dst only for what Src does not have.
Request(r) ==
    /\ r.st # "idle" => r.op \in Ops /\ r.keys # {} /\ (Pairs \/ Single(r.keys))
    /\ r.st # "idle" /\ r.op = "pop" => Single(r.keys)
    /\ r.st = "sent" /\ r.asking => /\ tool \in {"migrating", "closing"} /\ r.at = Dst
                                    /\ \E k \in r.keys : db[Src][k] = Z!NoKey
    /\ r.st = "blocked" => r.op = "pop" /\ ~r.asking /\ r.at \in {Src, Dst}
RequestsOK == \A c \in Clients : Request(cl[c])

SlotsInv == Z!TypeOK /\ Tables /\ Values /\ Calls /\ RequestsOK /\ Z!NoStaleValue

-----------------------------------------------------------------------------
(* The largest element of a set of numbers                                 *)

NatLess == {p \in Nat \X Nat : p[1] < p[2]}

LEMMA Smallest ==
    ASSUME NEW S \in SUBSET Nat, S # {}
    PROVE  \E m \in S : \A q \in S : m <= q
<1>1. IsWellFoundedOn(NatLess, Nat)
  <2>1. IsWellFoundedOn(OpToRel(<, Nat), Nat)
    BY NatLessThanWellFounded
  <2>2. OpToRel(<, Nat) = NatLess
    BY DEF OpToRel, NatLess
  <2> QED
    BY <2>1, <2>2
<1>2. PICK m \in S : \A q \in S : ~(<<q, m>> \in NatLess)
  BY <1>1, WFMin
<1>3. ASSUME NEW q \in S, ~(m <= q) PROVE FALSE
  <2>1. <<q, m>> \in NatLess
    BY <1>3 DEF NatLess
  <2> QED
    BY <1>2, <2>1
<1> QED
  BY <1>3

\* Otherwise take a smallest subset without a maximum, and an element from it.
LEMMA HasLargest ==
    ASSUME NEW S \in SUBSET Nat, IsFiniteSet(S), S # {}
    PROVE  \E m \in S : \A q \in S : m >= q
<1> DEFINE Largest(X) == \E m \in X : \A q \in X : m >= q
           Sizes == {i \in Nat : \E X \in SUBSET S : X # {} /\ ~Largest(X) /\ Cardinality(X) = i}
<1> SUFFICES ASSUME ~Largest(S) PROVE FALSE
  OBVIOUS
<1>1. Cardinality(S) \in Sizes
  BY FS_CardinalityType
<1>2. PICK i \in Sizes : \A j \in Sizes : i <= j
  <2> HIDE DEF Sizes
  <2>1. Sizes \in SUBSET Nat
    BY DEF Sizes
  <2> QED
    BY <1>1, <2>1, Smallest
<1>3. PICK X \in SUBSET S : X # {} /\ ~Largest(X) /\ Cardinality(X) = i
  OBVIOUS
<1>4. PICK x \in X : TRUE
  BY <1>3
<1> DEFINE Y == X \ {x}
<1>5. IsFiniteSet(X) /\ IsFiniteSet(Y) /\ Cardinality(Y) = i - 1 /\ Cardinality(Y) \in Nat
  BY <1>3, <1>4, FS_Subset, FS_RemoveElement, FS_CardinalityType
<1>6. Y # {}
  BY <1>3, <1>4
<1>7. Cardinality(Y) \notin Sizes
  <2>1. i \in Nat
    OBVIOUS
  <2>2. ~ (i <= Cardinality(Y))
    <3> HIDE DEF Y
    <3> QED
      BY <1>5, <2>1
  <2> HIDE DEF Sizes
  <2> QED
    BY <1>2, <2>2
<1>8. Largest(Y)
  BY <1>5, <1>6, <1>7
<1>9. PICK m \in Y : \A q \in Y : m >= q
  BY <1>8
<1>10. Largest(X)
  <2>1. m \in Nat /\ x \in Nat /\ m \in X /\ X \subseteq Nat
    BY <1>9
  <2>2. CASE m >= x
    BY <1>9, <2>1, <2>2
  <2>3. CASE x >= m
    BY <1>9, <2>1, <2>3
  <2> QED
    BY <2>1, <2>2, <2>3
<1> QED
  BY <1>3, <1>10

LEMMA MaxIsLargest ==
    ASSUME NEW S \in SUBSET Nat, IsFiniteSet(S), S # {}
    PROVE  Max(S) \in S /\ (\A q \in S : Max(S) >= q) /\ Z!Max(S) = Max(S)
BY HasLargest DEF Max, Z!Max

LEMMA ImageIsFinite ==
    ASSUME NEW X, IsFiniteSet(X), NEW f \in [X -> Nat]
    PROVE  IsFiniteSet({f[x] : x \in X})
<1> DEFINE T == {f[x] : x \in X}
<1>1. PICK n \in Nat : ExistsSurjection(1..n, X)
  BY FS_NatSurjection
<1>2. PICK g \in Surjection(1..n, X) : TRUE
  BY <1>1 DEF ExistsSurjection
<1>3. f \in Surjection(X, T)
  <2>1. f \in [X -> T] /\ \A t \in T : \E x \in X : f[x] = t
    OBVIOUS
  <2> HIDE DEF T
  <2> QED
    BY <2>1, Fun_IsSurj
<1>4. ExistsSurjection(1..n, T)
  <2> HIDE DEF T
  <2> QED
    BY <1>2, <1>3, Fun_SurjTransitive DEF ExistsSurjection
<1> QED
  BY <1>4, FS_NatSurjection

\* Counting is the same inside and outside the instance.
LEMMA SlotsCounts ==
    /\ \A S : Z!Cardinality(S) = Cardinality(S)
    /\ Z!SlotsAssumption => IsFiniteSet(Nodes) /\ IsFiniteSet(Keys)
<1>1. \A S : Z!Cardinality(S) = Cardinality(S)
  BY DEF Z!Cardinality, Cardinality
<1>2. \A S : Z!IsFiniteSet(S) <=> IsFiniteSet(S)
  BY DEF Z!IsFiniteSet, IsFiniteSet
<1> QED
  BY <1>1, <1>2 DEF Z!SlotsAssumption

\* The key that SET writes is new, and the epoch that SETSLOT NODE takes is the greatest.
LEMMA NewIsPresent ==
    ASSUME Z!SlotsAssumption, last \in [Keys -> Nat]
    PROVE  Z!Max({last[k] : k \in Keys}) + 1 \in Nat \ {Z!NoKey}
<1> DEFINE S == {last[k] : k \in Keys}
<1>1. S \in SUBSET Nat /\ S # {}
  BY DEF Z!SlotsAssumption
<1>2. IsFiniteSet(S)
  BY SlotsCounts, ImageIsFinite
<1>3. Z!Max(S) \in Nat
  BY <1>1, <1>2, MaxIsLargest
<1> QED
  BY <1>3 DEF Z!NoKey

LEMMA NewEpochIsGreater ==
    ASSUME Z!SlotsAssumption, mine \in [Nodes -> Nat]
    PROVE  /\ Z!Max({mine[k] : k \in Nodes}) + 1 \in Nat
           /\ Z!Max({mine[k] : k \in Nodes}) + 1 >= mine[Src]
<1> DEFINE S == {mine[k] : k \in Nodes}
<1>1. S \in SUBSET Nat /\ mine[Src] \in S
  BY DEF Z!SlotsAssumption
<1>2. IsFiniteSet(S)
  BY SlotsCounts, ImageIsFinite
<1>3. Z!Max(S) \in Nat /\ Z!Max(S) >= mine[Src]
  BY <1>1, <1>2, MaxIsLargest
<1> QED
  BY <1>1, <1>3

\* Requests with one key.
LEMMA OneKey ==
    ASSUME Z!SlotsAssumption, NEW keys \in SUBSET Keys, keys # {}
    PROVE  /\ Cardinality(keys) \in Nat /\ IsFiniteSet(keys)
           /\ Single(keys) <=> Cardinality(keys) = 1
           /\ Cardinality(keys) > 1 <=> ~Single(keys)
<1>1. IsFiniteSet(keys) /\ Cardinality(keys) \in Nat
  BY SlotsCounts, FS_Subset, FS_CardinalityType
<1>2. Cardinality(keys) # 0
  BY <1>1, FS_EmptySet
<1>3. Single(keys) <=> Cardinality(keys) = 1
  <2>1. Cardinality(keys) = 1 <=> \E k : keys = {k}
    BY <1>1, FS_Singleton
  <2> QED
    BY <2>1 DEF Single
<1> QED
  BY <1>1, <1>2, <1>3

\* What a client was told stays true: tools go on, and keys that have left Src stay away.
Onward ==
    /\ tool \in {"migrating", "closing"} => tool' \in {"migrating", "closing"}
    /\ \A k \in Keys :
          tool \in {"migrating", "closing"} /\ db[Src][k] = Z!NoKey => db'[Src][k] = Z!NoKey

LEMMA RequestsStay ==
    ASSUME Z!TypeOK, RequestsOK, Onward,
           \A c \in Clients : cl'[c] = cl[c] \/ Request(cl[c])'
    PROVE  RequestsOK'
<1> SUFFICES ASSUME NEW c \in Clients, cl'[c] = cl[c] PROVE Request(cl[c])'
  BY DEF RequestsOK
<1>1. Request(cl[c]) /\ cl[c].keys \subseteq Keys
  BY DEF RequestsOK, Z!TypeOK, Z!Requests
<1> QED
  BY <1>1 DEF Request, Onward

-----------------------------------------------------------------------------
(* Initially, and clients that do not change keys                          *)

LEMMA InitSlots ==
    ASSUME Z!SlotsAssumption, Z!Init
    PROVE  SlotsInv
<1>1. last \in [Keys -> Nat] /\ db \in [Nodes -> [Keys -> Nat]]
  BY DEF Z!Init, Z!NoKey
<1>2. Z!TypeOK
  <2>1. /\ slots \in [Nodes -> Nodes] /\ epoch \in [Nodes -> Nat] /\ mine \in [Nodes -> Nat]
        /\ migrating \in [Nodes -> Nodes \cup {Z!NoNode}]
        /\ importing \in [Nodes -> Nodes \cup {Z!NoNode}]
    BY DEF Z!Init, Z!SlotsAssumption
  <2>2. Z!Idle \in Z!Requests /\ Z!Idle.st = "idle"
    BY DEF Z!Idle, Z!Requests, Z!NoNode
  <2>3. cl \in [Clients -> Z!Requests] /\ \A c \in Clients : cl[c].st = "idle"
    BY <2>2 DEF Z!Init
  <2>4. call.st = "none"
    BY DEF Z!Init, Z!NoCall
  <2>5. stale \in BOOLEAN /\ tool = "start" /\ writes = 0 /\ timeouts = 0
    BY DEF Z!Init
  <2>6. 0 \in 0..MaxWrites /\ 0 \in 0..MaxTimeouts
    BY DEF Z!SlotsAssumption
  <2> QED
    BY <1>1, <2>1, <2>3, <2>4, <2>5, <2>6 DEF Z!TypeOK
<1>3. Tables
  BY DEF Z!Init, Tables, Z!SlotsAssumption, Z!NoNode
<1>4. Values
  BY DEF Z!Init, Values, Value, Z!SlotsAssumption, Z!NoKey, Z!NoCall, Restored
<1>5. Calls
  BY DEF Z!Init, Calls, Z!NoCall, Z!NoKey, Z!NoNode
<1>6. RequestsOK
  BY DEF Z!Init, RequestsOK, Request, Z!Idle
<1> QED
  BY <1>2, <1>3, <1>4, <1>5, <1>6 DEF SlotsInv, Z!NoStaleValue, Z!Init

\* Steps of clients that change nothing else.
LEMMA ClientStep ==
    ASSUME SlotsInv, UNCHANGED <<Z!nodes, db, call, tool, last, stale, timeouts>>, Z!TypeOK',
           \A c \in Clients : cl'[c] = cl[c] \/ Request(cl[c])'
    PROVE  SlotsInv'
<1>1. Tables' /\ Values' /\ Calls' /\ Z!NoStaleValue'
  BY DEF SlotsInv, Tables, Values, Value, Calls, Z!NoStaleValue, Z!nodes, Restored
<1>2. Onward
  BY DEF Onward
<1>3. RequestsOK'
  BY <1>2, RequestsStay DEF SlotsInv
<1> QED
  BY <1>1, <1>3 DEF SlotsInv

LEMMA AskStep ==
    ASSUME Z!SlotsAssumption, SlotsInv, NEW c \in Clients, NEW n \in Nodes, NEW op \in Ops,
           NEW ks \in Z!KeySets, Z!Ask(c, n, op, ks)
    PROVE  SlotsInv'
<1> DEFINE r == [st |-> "sent", op |-> op, keys |-> ks, at |-> n, asking |-> FALSE]
<1>1. /\ cl' = [cl EXCEPT ![c] = r]
      /\ UNCHANGED <<Z!nodes, db, call, tool, last, stale, timeouts>>
      /\ writes' = IF op \in {"set", "del"} THEN writes + 1 ELSE writes
      /\ op \in {"set", "del"} => writes < MaxWrites
      /\ op = "pop" => Cardinality(ks) = 1
  BY SlotsCounts DEF Z!Ask
<1>2. ks \in SUBSET Keys /\ ks # {} /\ (Pairs \/ Single(ks))
  BY DEF Z!KeySets, Z!SlotsAssumption, Single
<1>3. r \in Z!Requests
  BY <1>2 DEF Z!Requests, Z!SlotsAssumption
<1>4. writes' \in 0..MaxWrites
  <2>1. writes \in 0..MaxWrites /\ MaxWrites \in Nat
    BY DEF SlotsInv, Z!TypeOK, Z!SlotsAssumption
  <2> QED
    BY <1>1, <2>1
<1>5. cl' \in [Clients -> Z!Requests] /\ \A d \in Clients : cl'[d] = cl[d] \/ cl'[d] = r
  BY <1>1, <1>3 DEF SlotsInv, Z!TypeOK
<1>6. Z!TypeOK'
  BY <1>1, <1>4, <1>5 DEF SlotsInv, Z!TypeOK, Z!nodes
<1>7. ASSUME NEW d \in Clients, cl'[d] = r PROVE Request(cl[d])'
  BY <1>1, <1>2, <1>7, OneKey DEF Request
<1> QED
  BY <1>1, <1>5, <1>6, <1>7, ClientStep

\* Redirections: ASK comes from Src for a key that Src does not have.
LEMMA RedirectStep ==
    ASSUME Z!SlotsAssumption, SlotsInv, NEW c \in Clients, Z!Redirect(c)
    PROVE  SlotsInv'
<1> DEFINE r == cl[c]
           q == Z!getNodeByQuery(r.at, r.keys, r.asking)
           a == q.how \in {"ask", "tryagain"}
           s == [r EXCEPT !.at = q.to, !.asking = a]
<1>1. /\ cl' = [cl EXCEPT ![c] = s] /\ r.st = "sent" /\ q.how # "serve"
      /\ UNCHANGED <<Z!nodes, db, call, tool, last, stale, writes, timeouts>>
  BY DEF Z!Redirect
<1>2. r \in Z!Requests /\ r.at \in Nodes /\ Request(r) /\ r.keys \subseteq Keys
  BY <1>1 DEF SlotsInv, Z!TypeOK, RequestsOK, Z!Requests
<1>3. q.to \in Nodes /\ (a => q.to = Dst /\ tool \in {"migrating", "closing"}
                              /\ \E k \in r.keys : db[Src][k] = Z!NoKey)
  <2>1. CASE slots[r.at] = r.at /\ migrating[r.at] # Z!NoNode /\ Z!Missing(r.at, r.keys) # {}
    <3>1. q.to = migrating[r.at]
      BY <2>1 DEF Z!getNodeByQuery
    <3>2. r.at = Src
      BY <2>1, <1>2 DEF SlotsInv, Tables
    <3>3. tool \in {"migrating", "closing"} /\ migrating[Src] = Dst
      BY <2>1, <3>2 DEF SlotsInv, Tables, Z!TypeOK
    <3> QED
      BY <2>1, <3>1, <3>2, <3>3 DEF Z!Missing, Z!SlotsAssumption
  <2>2. CASE ~(slots[r.at] = r.at /\ migrating[r.at] # Z!NoNode) /\ importing[r.at] # Z!NoNode /\ r.asking
    <3>1. q.to = r.at
      BY <2>2 DEF Z!getNodeByQuery
    <3>2. /\ r.at = Dst /\ tool \in {"migrating", "closing"}
          /\ \E k \in r.keys : db[Src][k] = Z!NoKey
      BY <1>1, <1>2, <2>2 DEF Request
    <3> QED
      BY <1>2, <3>1, <3>2
  <2>3. CASE /\ ~(slots[r.at] = r.at /\ migrating[r.at] # Z!NoNode /\ Z!Missing(r.at, r.keys) # {})
             /\ ~(/\ ~(slots[r.at] = r.at /\ migrating[r.at] # Z!NoNode)
                  /\ importing[r.at] # Z!NoNode /\ r.asking)
    <3>1. q = [to |-> slots[r.at], how |-> "moved"]
      BY <1>1, <2>3 DEF Z!getNodeByQuery
    <3>2. q.to = slots[r.at] /\ q.how = "moved"
      BY <3>1
    <3>3. slots[r.at] \in Nodes
      BY <1>2 DEF SlotsInv, Z!TypeOK
    <3> QED
      BY <3>2, <3>3
  <2> QED
    BY <2>1, <2>2, <2>3
<1>4. /\ s.st = "sent" /\ s.op = r.op /\ s.keys = r.keys /\ s.at = q.to /\ s.asking = a
      /\ s \in Z!Requests
  <2> HIDE DEF q
  <2>1. a \in BOOLEAN
    OBVIOUS
  <2> HIDE DEF a
  <2> QED
    BY <1>1, <1>2, <1>3, <2>1 DEF Z!Requests
<1> HIDE DEF s
<1>5. cl' \in [Clients -> Z!Requests] /\ \A d \in Clients : cl'[d] = cl[d] \/ cl'[d] = s
  BY <1>1, <1>4 DEF SlotsInv, Z!TypeOK
<1>6. Z!TypeOK'
  <2> HIDE DEF q, a
  <2> QED
    BY <1>1, <1>3, <1>4, <1>5 DEF SlotsInv, Z!TypeOK, Z!nodes
<1>7. ASSUME NEW d \in Clients, cl'[d] = s PROVE Request(cl[d])'
  <2> HIDE DEF q, a
  <2> QED
    BY <1>1, <1>2, <1>3, <1>4, <1>7 DEF Request
<1> QED
  <2> HIDE DEF q, a
  <2> QED
    BY <1>1, <1>5, <1>6, <1>7, ClientStep

LEMMA RedirectBlockedStep ==
    ASSUME Z!SlotsAssumption, SlotsInv, NEW c \in Clients, Z!clusterRedirectBlockedClientIfNeeded(c)
    PROVE  SlotsInv'
<1> DEFINE r == cl[c]
           s == [r EXCEPT !.st = "sent", !.at = slots[r.at]]
<1>1. /\ cl' = [cl EXCEPT ![c] = s] /\ r.st = "blocked"
      /\ UNCHANGED <<Z!nodes, db, call, tool, last, stale, writes, timeouts>>
  BY DEF Z!clusterRedirectBlockedClientIfNeeded
<1>2. r \in Z!Requests /\ r.at \in Nodes /\ Request(r) /\ ~r.asking /\ slots[r.at] \in Nodes
  BY <1>1 DEF SlotsInv, Z!TypeOK, RequestsOK, Request
<1>3. /\ s.st = "sent" /\ s.op = r.op /\ s.keys = r.keys /\ s.at = slots[r.at]
      /\ s.asking = r.asking /\ s \in Z!Requests
  BY <1>1, <1>2 DEF Z!Requests
<1> HIDE DEF s
<1>4. cl' \in [Clients -> Z!Requests] /\ \A d \in Clients : cl'[d] = cl[d] \/ cl'[d] = s
  BY <1>1, <1>3 DEF SlotsInv, Z!TypeOK
<1>5. Z!TypeOK'
  BY <1>1, <1>2, <1>3, <1>4 DEF SlotsInv, Z!TypeOK, Z!nodes
<1>6. ASSUME NEW d \in Clients, cl'[d] = s PROVE Request(cl[d])'
  BY <1>1, <1>2, <1>3, <1>6 DEF Request
<1> QED
  BY <1>1, <1>4, <1>5, <1>6, ClientStep

-----------------------------------------------------------------------------
(* Commands that run: at Src, and at Dst                                   *)

\* Some keys of one node are given the value v.
Written(at, keys, v) ==
    \A k \in Keys :
        /\ \A n \in Nodes : db'[n][k] = IF n = at /\ k \in keys THEN v ELSE db[n][k]
        /\ last'[k] = IF k \in keys THEN v ELSE last[k]

\* What Src still has may be written there; it may be taken away if Dst has no copy.
LEMMA WriteAtSrc ==
    ASSUME Z!SlotsAssumption, SlotsInv, UNCHANGED <<Z!nodes, call, tool>>, NEW v \in Nat,
           NEW keys \in SUBSET Keys, Written(Src, keys, v), call.st = "none",
           v = Z!NoKey \/ MaxTimeouts = 0 => \A k \in keys : db[Dst][k] = Z!NoKey,
           tool \in {"migrating", "closing"} => \A k \in keys : db[Src][k] # Z!NoKey
    PROVE  Values' /\ Calls' /\ Onward
<1>1. Src \in Nodes /\ Dst \in Nodes /\ Src # Dst
  BY DEF Z!SlotsAssumption
<1>2. ASSUME NEW k \in Keys
      PROVE  /\ db'[Src][k] = (IF k \in keys THEN v ELSE db[Src][k]) /\ db'[Dst][k] = db[Dst][k]
             /\ last'[k] = IF k \in keys THEN v ELSE last[k]
  BY <1>1 DEF Written
<1>3. Values'
  <2> SUFFICES ASSUME NEW k \in Keys
               PROVE  /\ (db[Src][k])' = Z!NoKey => (db[Dst][k])' = (last[k])'
                      /\ (db[Src][k])' # Z!NoKey => (db[Src][k])' = (last[k])'
                      /\ MaxTimeouts = 0 /\ (db[Src][k])' # Z!NoKey => (db[Dst][k])' = Z!NoKey
                      /\ tool \in {"start", "importing"} => (db[Dst][k])' = Z!NoKey
                      /\ tool = "closing" => (db[Src][k])' = Z!NoKey
    BY DEF Values, Value, Restored
  <2>1. ~Restored(k)
    BY DEF Restored
  <2>2. CASE k \notin keys
    BY <1>2, <2>1, <2>2 DEF SlotsInv, Values, Value
  <2>3. CASE k \in keys
    BY <1>2, <2>1, <2>3 DEF SlotsInv, Values, Value
  <2> QED
    BY <2>2, <2>3
<1>4. Calls'
  BY DEF SlotsInv, Calls
<1>5. Onward
  BY <1>2 DEF Onward
<1> QED
  BY <1>3, <1>4, <1>5

\* What Src no longer has, or is about to delete without fail, may be written at Dst.
LEMMA WriteAtDst ==
    ASSUME Z!SlotsAssumption, SlotsInv, UNCHANGED <<Z!nodes, call, tool>>, NEW v \in Nat,
           NEW keys \in SUBSET Keys, Written(Dst, keys, v),
           \A k \in keys : db[Src][k] = Z!NoKey \/ (Restored(k) /\ MaxTimeouts = 0),
           v = Z!NoKey \/ tool \in {"migrating", "closing"}
    PROVE  Values' /\ Calls' /\ Onward
<1>1. Src \in Nodes /\ Dst \in Nodes /\ Src # Dst
  BY DEF Z!SlotsAssumption
<1>2. ASSUME NEW k \in Keys
      PROVE  /\ db'[Src][k] = db[Src][k] /\ db'[Dst][k] = (IF k \in keys THEN v ELSE db[Dst][k])
             /\ last'[k] = IF k \in keys THEN v ELSE last[k]
  BY <1>1 DEF Written
<1>3. Values'
  <2> SUFFICES ASSUME NEW k \in Keys PROVE Value(k)'
    BY DEF Values
  <2>1. Value(k) /\ Restored(k)' = Restored(k) /\ (Restored(k) => db[Src][k] # Z!NoKey)
    BY DEF SlotsInv, Values, Restored, Calls
  <2>2. CASE k \notin keys
    BY <1>2, <2>1, <2>2 DEF Value
  <2>3. CASE k \in keys
    BY <1>2, <2>1, <2>3 DEF Value
  <2> QED
    BY <2>2, <2>3
<1>4. Calls'
  BY <1>2 DEF SlotsInv, Calls
<1>5. Onward
  BY <1>2 DEF Onward
<1> QED
  BY <1>3, <1>4, <1>5

\* A command is served at Src only while it has all its keys or Dst has none ...
LEMMA ServedAtSrc ==
    ASSUME Z!SlotsAssumption, SlotsInv, NEW r \in Z!Requests, r.at = Src, r.keys # {}, ~Z!Blocked(Src),
           Z!getNodeByQuery(Src, r.keys, r.asking).how = "serve"
    PROVE  /\ call.st = "none"
           /\ \A k \in r.keys : db[Src][k] = last[k]
           /\ \/ tool \in {"start", "importing"} /\ \A k \in r.keys : db[Dst][k] = Z!NoKey
              \/ tool = "migrating" /\ \A k \in r.keys : db[Src][k] # Z!NoKey
<1>1. call.st = "none" /\ r.keys \subseteq Keys /\ Src \in Nodes
  BY DEF Z!Blocked, Z!SlotsAssumption, Z!Requests
<1>2. importing[Src] = Z!NoNode
  BY <1>1 DEF SlotsInv, Tables, Z!SlotsAssumption
<1>3. /\ ~(slots[Src] = Src /\ migrating[Src] # Z!NoNode /\ Z!Missing(Src, r.keys) # {})
      /\ slots[Src] = Src
  BY <1>2 DEF Z!getNodeByQuery
<1>4. CASE tool \in {"start", "importing"}
  BY <1>1, <1>4 DEF SlotsInv, Values, Value, Restored
<1>5. CASE tool \in {"migrating", "closing"}
  <2>1. migrating[Src] # Z!NoNode
    BY <1>3, <1>5 DEF SlotsInv, Tables, Z!SlotsAssumption, Z!NoNode
  <2>2. \A k \in r.keys : db[Src][k] # Z!NoKey
    BY <1>3, <2>1 DEF Z!Missing
  <2>3. tool = "migrating"
    BY <1>1, <1>5, <2>2 DEF SlotsInv, Values, Value
  <2> QED
    BY <1>1, <2>2, <2>3 DEF SlotsInv, Values, Value, Restored
<1> QED
  BY <1>1, <1>4, <1>5 DEF SlotsInv, Z!TypeOK

\* ... at Dst only when Src has not, or will not have, any of its keys, ...
LEMMA ServedAtDst ==
    ASSUME Z!SlotsAssumption, TimeoutsHarmless, SlotsInv, NEW r \in Z!Requests, Request(r),
           r.st = "sent", r.at = Dst,
           Z!getNodeByQuery(Dst, r.keys, r.asking).how = "serve"
    PROVE  /\ tool \in {"migrating", "closing"}
           /\ \A k \in r.keys : db[Dst][k] = last[k]
           /\ \A k \in r.keys : db[Src][k] = Z!NoKey \/ (Restored(k) /\ MaxTimeouts = 0)
<1>1. r.keys \subseteq Keys /\ Dst \in Nodes /\ r.keys # {} /\ (Pairs \/ Single(r.keys))
  BY DEF Z!SlotsAssumption, Request, Z!Requests
<1>2. migrating[Dst] = Z!NoNode
  BY <1>1 DEF SlotsInv, Tables, Z!SlotsAssumption
<1>3. CASE slots[Dst] = Dst
  <2>1. tool = "closing"
    BY <1>3 DEF SlotsInv, Tables, Z!SlotsAssumption
  <2> QED
    BY <1>1, <2>1 DEF SlotsInv, Values, Value
<1>4. CASE slots[Dst] # Dst
  <2>1. /\ importing[Dst] # Z!NoNode /\ r.asking
        /\ ~(Cardinality(r.keys) > 1 /\ Z!Missing(Dst, r.keys) # {})
    BY <1>2, <1>4, SlotsCounts DEF Z!getNodeByQuery
  <2>2. tool \in {"migrating", "closing"} /\ \E k \in r.keys : db[Src][k] = Z!NoKey
    BY <2>1 DEF Request
  <2>3. CASE Single(r.keys)
    BY <1>1, <2>2, <2>3 DEF Single, SlotsInv, Values, Value
  <2>4. CASE ~Single(r.keys)
    <3>1. MaxTimeouts = 0
      BY <1>1, <2>4 DEF TimeoutsHarmless
    <3>2. \A k \in r.keys : db[Dst][k] # Z!NoKey
      BY <1>1, <2>1, <2>4, OneKey DEF Z!Missing
    <3> QED
      BY <1>1, <2>2, <3>1, <3>2 DEF SlotsInv, Values, Value
  <2> QED
    BY <2>3, <2>4
<1> QED
  BY <1>3, <1>4

\* ... and nowhere else.
LEMMA ServedNowhereElse ==
    ASSUME Z!SlotsAssumption, SlotsInv, NEW n \in Nodes, n \notin {Src, Dst},
           NEW keys, NEW asking
    PROVE  Z!getNodeByQuery(n, keys, asking).how # "serve"
<1>1. slots[n] # n /\ importing[n] = Z!NoNode /\ migrating[n] = Z!NoNode
  BY DEF SlotsInv, Tables
<1>2. Z!getNodeByQuery(n, keys, asking) = [to |-> slots[n], how |-> "moved"]
  BY <1>1 DEF Z!getNodeByQuery
<1> QED
  BY <1>2

\* Writing keys keeps the types.
LEMMA WrittenTypes ==
    ASSUME SlotsInv, NEW at \in Nodes, NEW keys \in SUBSET Keys, NEW v \in Nat,
           db' = [db EXCEPT ![at] = [k \in Keys |-> IF k \in keys THEN v ELSE db[at][k]]],
           last' = [k \in Keys |-> IF k \in keys THEN v ELSE last[k]]
    PROVE  /\ db' \in [Nodes -> [Keys -> Nat]] /\ last' \in [Keys -> Nat]
           /\ Written(at, keys, v)
<1> DEFINE row == [k \in Keys |-> IF k \in keys THEN v ELSE db[at][k]]
<1>1. db \in [Nodes -> [Keys -> Nat]] /\ last \in [Keys -> Nat]
  BY DEF SlotsInv, Z!TypeOK
<1>2. row \in [Keys -> Nat] /\ \A k \in Keys : row[k] = IF k \in keys THEN v ELSE db[at][k]
  BY <1>1
<1>3. last' \in [Keys -> Nat] /\ \A k \in Keys : last'[k] = IF k \in keys THEN v ELSE last[k]
  BY <1>1
<1>4. db' = [db EXCEPT ![at] = row]
  OBVIOUS
<1> HIDE DEF row
<1>5. /\ db' \in [Nodes -> [Keys -> Nat]] /\ db'[at] = row
      /\ \A n \in Nodes : n # at => db'[n] = db[n]
  BY <1>1, <1>2, <1>4
<1>6. Written(at, keys, v)
  <2> SUFFICES ASSUME NEW k \in Keys, NEW n \in Nodes
               PROVE  /\ db'[n][k] = IF n = at /\ k \in keys THEN v ELSE db[n][k]
                      /\ last'[k] = IF k \in keys THEN v ELSE last[k]
    BY DEF Written
  <2> QED
    BY <1>2, <1>3, <1>5
<1> QED
  BY <1>3, <1>5, <1>6

\* A command that has run leaves the invariant, if it saw the last values of its keys and
\* wrote what may be written.
LEMMA AfterCommand ==
    ASSUME SlotsInv, cl' \in [Clients -> Z!Requests],
           \A c \in Clients : cl'[c] = cl[c] \/ Request(cl[c])',
           \A c \in Clients : cl'[c].st # "idle" => cl'[c].at \in Nodes,
           UNCHANGED <<Z!nodes, call, tool, writes, timeouts>>, stale' = FALSE,
           db' \in [Nodes -> [Keys -> Nat]], last' \in [Keys -> Nat],
           Values', Calls', Onward
    PROVE  SlotsInv'
<1>1. Z!TypeOK'
  BY DEF SlotsInv, Z!TypeOK, Z!nodes
<1>2. Tables'
  BY DEF SlotsInv, Tables, Z!nodes
<1>3. RequestsOK'
  BY RequestsStay DEF SlotsInv
<1> QED
  BY <1>1, <1>2, <1>3 DEF SlotsInv, Z!NoStaleValue

LEMMA ServeStep ==
    ASSUME Z!SlotsAssumption, TimeoutsHarmless, SlotsInv, NEW c \in Clients, Z!Serve(c)
    PROVE  SlotsInv'
<1> DEFINE r == cl[c]
           writesKeys == r.op \in {"set", "del"} \/ (r.op = "pop" /\ Z!Missing(r.at, r.keys) = {})
           blocks == r.op = "pop" /\ Z!Missing(r.at, r.keys) # {}
           keys == IF writesKeys THEN r.keys ELSE {}
           v == Z!New(r)
           b == [r EXCEPT !.st = "blocked", !.asking = FALSE]
           s == IF blocks THEN b ELSE Z!Idle
<1>1. /\ r.st = "sent" /\ ~Z!Blocked(r.at)
      /\ Z!getNodeByQuery(r.at, r.keys, r.asking).how = "serve"
      /\ stale' = (stale \/ (r.op # "set" /\ Z!Wrong(r)))
      /\ cl' = [cl EXCEPT ![c] = s]
      /\ UNCHANGED <<Z!nodes, call, tool, writes, timeouts>>
  BY DEF Z!Serve
<1>2. /\ r \in Z!Requests /\ r.at \in Nodes /\ Request(r) /\ r.keys \subseteq Keys
      /\ r.keys # {} /\ r.op \in Ops
  BY <1>1 DEF SlotsInv, Z!TypeOK, RequestsOK, Z!Requests, Request
<1>3. v \in Nat /\ (v = Z!NoKey => r.op # "set") /\ keys \in SUBSET Keys
  BY <1>2, NewIsPresent DEF Z!New, SlotsInv, Z!TypeOK, Z!NoKey
<1>4. /\ db' = [db EXCEPT ![r.at] = [k \in Keys |-> IF k \in keys THEN v ELSE db[r.at][k]]]
      /\ last' = [k \in Keys |-> IF k \in keys THEN v ELSE last[k]]
  <2>1. /\ db' = [db EXCEPT ![r.at] = [k \in Keys |-> IF k \in r.keys /\ writesKeys THEN v
                                                      ELSE db[r.at][k]]]
        /\ last' = [k \in Keys |-> IF k \in r.keys /\ writesKeys THEN v ELSE last[k]]
    BY DEF Z!Serve
  <2>2. \A k \in Keys : k \in keys <=> k \in r.keys /\ writesKeys
    OBVIOUS
  <2> QED
    BY <2>1, <2>2
<1>5. keys # {} /\ v = Z!NoKey => MaxTimeouts = 0
  BY <1>2, <1>3 DEF TimeoutsHarmless
<1>6. keys \subseteq r.keys
  OBVIOUS
<1>7. /\ cl' \in [Clients -> Z!Requests]
      /\ \A d \in Clients : cl'[d] = cl[d] \/ Request(cl[d])'
      /\ \A d \in Clients : cl'[d].st # "idle" => cl'[d].at \in Nodes
  <2>1. r.at \in {Src, Dst}
    BY <1>1, <1>2, ServedNowhereElse
  <2>2. /\ b.st = "blocked" /\ b.op = r.op /\ b.keys = r.keys /\ b.at = r.at /\ ~b.asking
        /\ b \in Z!Requests
    BY <1>2 DEF Z!Requests
  <2>3. /\ Z!Idle.st = "idle" /\ Z!Idle \in Z!Requests
    BY DEF Z!Requests, Z!Idle, Z!NoNode
  <2>4. blocks => r.op = "pop"
    OBVIOUS
  <2>5. s = IF blocks THEN b ELSE Z!Idle
    OBVIOUS
  <2> HIDE DEF s, blocks, b, r
  <2>6. /\ s \in Z!Requests
        /\ \/ s.st = "idle"
           \/ /\ s.st = "blocked" /\ s.op = "pop" /\ s.keys = r.keys /\ s.at = r.at
              /\ ~s.asking
    BY <2>2, <2>3, <2>4, <2>5
  <2>7. cl' \in [Clients -> Z!Requests] /\ \A d \in Clients : cl'[d] = cl[d] \/ cl'[d] = s
    BY <1>1, <2>6 DEF SlotsInv, Z!TypeOK
  <2>8. ASSUME NEW d \in Clients, cl'[d] = s PROVE Request(cl[d])' /\ (s.st # "idle" => s.at \in Nodes)
    <3>1. r.op = "pop" \/ s.st = "idle"
      BY <2>2, <2>3, <2>4, <2>5
    <3> QED
      BY <1>1, <1>2, <2>1, <2>6, <2>8, <3>1 DEF Request
  <2> QED
    BY <1>1, <2>7, <2>8 DEF SlotsInv, Z!TypeOK
<1> HIDE DEF keys, v, s, r
<1>8. /\ db' \in [Nodes -> [Keys -> Nat]] /\ last' \in [Keys -> Nat] /\ Written(r.at, keys, v)
  BY <1>2, <1>3, <1>4, WrittenTypes
<1>9. Values' /\ Calls' /\ Onward /\ ~Z!Wrong(r)
  <2>1. CASE r.at = Src
    <3>1. /\ call.st = "none"
          /\ \A k \in r.keys : db[Src][k] = last[k]
          /\ \/ tool \in {"start", "importing"} /\ \A k \in r.keys : db[Dst][k] = Z!NoKey
             \/ tool = "migrating" /\ \A k \in r.keys : db[Src][k] # Z!NoKey
      BY <1>1, <1>2, <2>1, ServedAtSrc
    <3>2. v = Z!NoKey \/ MaxTimeouts = 0 => \A k \in keys : db[Dst][k] = Z!NoKey
      <4> SUFFICES ASSUME NEW k \in keys, MaxTimeouts = 0 PROVE db[Dst][k] = Z!NoKey
        BY <1>5
      <4> QED
        BY <1>3, <1>6, <3>1 DEF SlotsInv, Values, Value, Restored
    <3>3. tool \in {"migrating", "closing"} => \A k \in keys : db[Src][k] # Z!NoKey
      BY <1>6, <3>1
    <3>4. Values' /\ Calls' /\ Onward
      BY <1>1, <1>3, <1>8, <2>1, <3>1, <3>2, <3>3, WriteAtSrc
    <3> QED
      BY <2>1, <3>1, <3>4 DEF Z!Wrong
  <2>2. CASE r.at = Dst
    <3>1. /\ tool \in {"migrating", "closing"}
          /\ \A k \in r.keys : db[Dst][k] = last[k]
          /\ \A k \in r.keys : db[Src][k] = Z!NoKey \/ (Restored(k) /\ MaxTimeouts = 0)
      BY <1>1, <1>2, <2>2, ServedAtDst
    <3>2. Values' /\ Calls' /\ Onward
      BY <1>1, <1>3, <1>6, <1>8, <2>2, <3>1, WriteAtDst
    <3> QED
      BY <2>2, <3>1, <3>2 DEF Z!Wrong
  <2> QED
    BY <1>1, <1>2, <2>1, <2>2, ServedNowhereElse
<1>10. stale' = FALSE
  BY <1>1, <1>9 DEF SlotsInv, Z!NoStaleValue
<1> QED
  BY <1>1, <1>7, <1>8, <1>9, <1>10, AfterCommand

LEMMA ServeBlockedStep ==
    ASSUME Z!SlotsAssumption, TimeoutsHarmless, SlotsInv, NEW c \in Clients, Z!ServeBlocked(c)
    PROVE  SlotsInv'
<1> DEFINE r == cl[c]
<1>1. /\ r.st = "blocked" /\ ~Z!Blocked(r.at) /\ Z!Missing(r.at, r.keys) = {}
      /\ stale' = (stale \/ Z!Wrong(r))
      /\ db' = [db EXCEPT ![r.at] = [k \in Keys |-> IF k \in r.keys THEN Z!NoKey ELSE db[r.at][k]]]
      /\ last' = [k \in Keys |-> IF k \in r.keys THEN Z!NoKey ELSE last[k]]
      /\ cl' = [cl EXCEPT ![c] = Z!Idle]
      /\ UNCHANGED <<Z!nodes, call, tool, writes, timeouts>>
  BY DEF Z!ServeBlocked
<1>2. /\ r \in Z!Requests /\ r.at \in Nodes /\ Request(r) /\ r.keys \in SUBSET Keys
      /\ r.at \in {Src, Dst}
  BY <1>1 DEF SlotsInv, Z!TypeOK, RequestsOK, Z!Requests, Request
<1>3. MaxTimeouts = 0
  BY <1>1, <1>2 DEF Request, TimeoutsHarmless
<1>4. \A k \in r.keys : db[r.at][k] # Z!NoKey
  BY <1>1 DEF Z!Missing
<1>5. /\ cl' \in [Clients -> Z!Requests]
      /\ \A d \in Clients : cl'[d] = cl[d] \/ Request(cl[d])'
      /\ \A d \in Clients : cl'[d].st # "idle" => cl'[d].at \in Nodes
  <2>1. Z!Idle \in Z!Requests /\ Z!Idle.st = "idle"
    BY DEF Z!Idle, Z!Requests, Z!NoNode
  <2>2. cl' \in [Clients -> Z!Requests] /\ \A d \in Clients : cl'[d] = cl[d] \/ cl'[d] = Z!Idle
    BY <1>1, <2>1 DEF SlotsInv, Z!TypeOK
  <2>3. ASSUME NEW d \in Clients, cl'[d] = Z!Idle PROVE Request(cl[d])'
    BY <2>1, <2>3 DEF Request
  <2> QED
    BY <2>1, <2>2, <2>3 DEF SlotsInv, Z!TypeOK
<1> HIDE DEF r
<1>6. Z!NoKey \in Nat
  BY DEF Z!NoKey
<1>7. db' \in [Nodes -> [Keys -> Nat]] /\ last' \in [Keys -> Nat] /\ Written(r.at, r.keys, Z!NoKey)
  BY <1>1, <1>2, <1>6, WrittenTypes
<1>8. Values' /\ Calls' /\ Onward /\ ~Z!Wrong(r)
  <2>1. CASE r.at = Src
    <3>1. call.st = "none"
      BY <1>1, <2>1 DEF Z!Blocked
    <3>2. \A k \in r.keys : db[Src][k] = last[k] /\ db[Dst][k] = Z!NoKey
      BY <1>2, <1>3, <1>4, <2>1, <3>1 DEF SlotsInv, Values, Value, Restored
    <3>3. Values' /\ Calls' /\ Onward
      BY <1>1, <1>2, <1>4, <1>6, <1>7, <2>1, <3>1, <3>2, WriteAtSrc
    <3> QED
      BY <2>1, <3>2, <3>3 DEF Z!Wrong
  <2>2. CASE r.at = Dst
    <3>1. \A k \in r.keys : db[Src][k] = Z!NoKey \/ (Restored(k) /\ MaxTimeouts = 0)
      BY <1>2, <1>3, <1>4, <2>2 DEF SlotsInv, Values, Value
    <3>2. \A k \in r.keys : db[Dst][k] = last[k]
      BY <1>2, <3>1 DEF SlotsInv, Values, Value
    <3>3. Values' /\ Calls' /\ Onward
      BY <1>1, <1>2, <1>6, <1>7, <2>2, <3>1, WriteAtDst
    <3> QED
      BY <2>2, <3>2, <3>3 DEF Z!Wrong
  <2> QED
    BY <1>2, <2>1, <2>2
<1>9. stale' = FALSE
  BY <1>1, <1>8 DEF SlotsInv, Z!NoStaleValue
<1> QED
  BY <1>1, <1>5, <1>7, <1>8, <1>9, AfterCommand

-----------------------------------------------------------------------------
(* SETSLOT, heartbeats and MIGRATE: no client takes part                    *)

LEMMA OtherStep ==
    ASSUME SlotsInv, UNCHANGED <<cl, stale>>, Z!TypeOK', Tables', Values', Calls', Onward
    PROVE  SlotsInv'
BY RequestsStay DEF SlotsInv, Z!NoStaleValue

LEMMA SetslotStep ==
    ASSUME Z!SlotsAssumption, SlotsInv, Z!setslotImporting \/ Z!setslotMigrating
    PROVE  SlotsInv'
<1>1. /\ UNCHANGED <<slots, epoch, mine, db, call, cl, last, stale, writes, timeouts>>
      /\ Src \in Nodes /\ Dst \in Nodes /\ Src # Dst
  BY DEF Z!setslotImporting, Z!setslotMigrating, Z!SlotsAssumption
<1>2. CASE Z!setslotImporting
  <2>1. /\ tool = "start" /\ tool' = "importing" /\ migrating' = migrating
        /\ importing' = [importing EXCEPT ![Dst] = Src]
    BY <1>2 DEF Z!setslotImporting
  <2>2. /\ importing' \in [Nodes -> Nodes \cup {Z!NoNode}] /\ importing'[Dst] = Src
        /\ \A n \in Nodes : n # Dst => importing'[n] = importing[n]
    BY <1>1, <2>1 DEF SlotsInv, Z!TypeOK
  <2>3. Z!TypeOK'
    BY <1>1, <2>1, <2>2 DEF SlotsInv, Z!TypeOK
  <2>4. Tables'
    BY <1>1, <2>1, <2>2 DEF SlotsInv, Tables
  <2>5. Values'
    BY <1>1, <2>1 DEF SlotsInv, Values, Value, Restored
  <2>6. Calls' /\ Onward
    BY <1>1, <2>1 DEF SlotsInv, Calls, Onward
  <2> QED
    BY <1>1, <2>3, <2>4, <2>5, <2>6, OtherStep
<1>3. CASE Z!setslotMigrating
  <2>1. /\ tool = "importing" /\ tool' = "migrating" /\ importing' = importing
        /\ migrating' = [migrating EXCEPT ![Src] = Dst]
    BY <1>3 DEF Z!setslotMigrating
  <2>2. /\ migrating' \in [Nodes -> Nodes \cup {Z!NoNode}] /\ migrating'[Src] = Dst
        /\ \A n \in Nodes : n # Src => migrating'[n] = migrating[n]
    BY <1>1, <2>1 DEF SlotsInv, Z!TypeOK
  <2>3. Z!TypeOK'
    BY <1>1, <2>1, <2>2 DEF SlotsInv, Z!TypeOK
  <2>4. Tables'
    BY <1>1, <2>1, <2>2 DEF SlotsInv, Tables
  <2>5. Values'
    BY <1>1, <2>1 DEF SlotsInv, Values, Value, Restored
  <2>6. Calls' /\ Onward
    BY <1>1, <2>1 DEF SlotsInv, Calls, Onward
  <2> QED
    BY <1>1, <2>3, <2>4, <2>5, <2>6, OtherStep
<1> QED
  BY <1>2, <1>3

\* The slot is closed only when Src has no keys: all last values are at Dst.
LEMMA SetslotNodeStep ==
    ASSUME Z!SlotsAssumption, SlotsInv, NEW n \in Nodes, Z!setslotNode(n)
    PROVE  SlotsInv'
<1> DEFINE e == IF n = Dst /\ importing[n] # Z!NoNode
                THEN Z!Max({mine[k] : k \in Nodes}) + 1 ELSE mine[Dst]
           m == IF Z!Missing(n, Keys) = Keys THEN Z!NoNode ELSE migrating[n]
           i == IF n = Dst THEN Z!NoNode ELSE importing[n]
<1>1. /\ Z!Moved /\ slots[n] # Dst
      /\ migrating' = [migrating EXCEPT ![n] = m]
      /\ importing' = [importing EXCEPT ![n] = i]
      /\ mine' = [mine EXCEPT ![Dst] = e] /\ slots' = [slots EXCEPT ![n] = Dst]
      /\ epoch' = [epoch EXCEPT ![n] = e] /\ tool' = "closing"
      /\ UNCHANGED <<db, call, cl, last, stale, writes, timeouts>>
  BY DEF Z!setslotNode
<1>2. /\ tool \in {"migrating", "closing"} /\ call.st = "none"
      /\ \A k \in Keys : db[Src][k] = Z!NoKey
  BY <1>1 DEF Z!Moved, Z!Missing, Z!Blocked
<1>3. Src \in Nodes /\ Dst \in Nodes /\ Src # Dst /\ Src # Z!NoNode
  BY DEF Z!SlotsAssumption, Z!NoNode
<1>4. e \in Nat /\ (n = Dst => e >= mine[Src])
  <2>1. n = Dst => importing[n] = Src
    BY <1>1, <1>2 DEF SlotsInv, Tables
  <2> QED
    BY <1>3, <2>1, NewEpochIsGreater DEF SlotsInv, Z!TypeOK
<1>5. m \in {Z!NoNode, migrating[n]} /\ i \in {Z!NoNode, importing[n]} /\ (n = Dst => i = Z!NoNode)
  OBVIOUS
<1> HIDE DEF e, m, i
<1>6. /\ migrating' \in [Nodes -> Nodes \cup {Z!NoNode}] /\ migrating'[n] = m
      /\ \A x \in Nodes : x # n => migrating'[x] = migrating[x]
  BY <1>1, <1>5 DEF SlotsInv, Z!TypeOK
<1>7. /\ importing' \in [Nodes -> Nodes \cup {Z!NoNode}] /\ importing'[n] = i
      /\ \A x \in Nodes : x # n => importing'[x] = importing[x]
  BY <1>1, <1>5 DEF SlotsInv, Z!TypeOK
<1>8. /\ slots' \in [Nodes -> Nodes] /\ slots'[n] = Dst
      /\ \A x \in Nodes : x # n => slots'[x] = slots[x]
  BY <1>1, <1>3 DEF SlotsInv, Z!TypeOK
<1>9. /\ epoch' \in [Nodes -> Nat] /\ epoch'[n] = e
      /\ \A x \in Nodes : x # n => epoch'[x] = epoch[x]
  BY <1>1, <1>4 DEF SlotsInv, Z!TypeOK
<1>10. mine' \in [Nodes -> Nat] /\ mine'[Src] = mine[Src]
  BY <1>1, <1>3, <1>4 DEF SlotsInv, Z!TypeOK
<1>11. Z!TypeOK'
  BY <1>1, <1>6, <1>7, <1>8, <1>9, <1>10 DEF SlotsInv, Z!TypeOK
<1>12. Tables'
  <2>1. ASSUME NEW x \in Nodes
        PROVE  /\ slots'[x] \in {Src, Dst} /\ (x # Dst => importing'[x] = Z!NoNode)
               /\ (x # Src => migrating'[x] = Z!NoNode)
    BY <1>5, <1>6, <1>7, <1>8 DEF SlotsInv, Tables
  <2>2. slots'[Dst] = Dst => importing'[Dst] = Z!NoNode /\ epoch'[Dst] >= mine'[Src]
    BY <1>3, <1>4, <1>5, <1>7, <1>8, <1>9, <1>10 DEF SlotsInv, Tables
  <2>3. slots'[Dst] # Dst => importing'[Dst] = Src
    BY <1>2, <1>3, <1>7, <1>8 DEF SlotsInv, Tables
  <2>4. slots'[Src] = Src => migrating'[Src] = Dst
    BY <1>2, <1>3, <1>6, <1>8 DEF SlotsInv, Tables
  <2> QED
    BY <1>1, <2>1, <2>2, <2>3, <2>4 DEF Tables
<1>13. Values'
  BY <1>1, <1>2 DEF SlotsInv, Values, Value, Restored
<1>14. Calls' /\ Onward
  BY <1>1, <1>2 DEF SlotsInv, Calls, Onward
<1> QED
  BY <1>1, <1>11, <1>12, <1>13, <1>14, OtherStep

\* Only Dst takes the slot from others by a heartbeat; Src, when it learns of it, has no
\* keys left to delete.
LEMMA HeartbeatStep ==
    ASSUME Z!SlotsAssumption, SlotsInv, NEW m \in Nodes, NEW n \in Nodes, Z!Heartbeat(m, n)
    PROVE  SlotsInv'
<1> DEFINE row == IF slots[n] = n THEN [k \in Keys |-> Z!NoKey] ELSE db[n]
<1>1. /\ slots[m] = m /\ slots[n] # m /\ epoch[n] < mine[m]
      /\ slots' = [slots EXCEPT ![n] = m] /\ epoch' = [epoch EXCEPT ![n] = mine[m]]
      /\ db' = [db EXCEPT ![n] = row]
      /\ UNCHANGED <<mine, migrating, importing, call, tool, cl, last, stale, writes, timeouts>>
  BY DEF Z!Heartbeat
<1>2. Src \in Nodes /\ Dst \in Nodes /\ Src # Dst /\ Src # Z!NoNode
  BY DEF Z!SlotsAssumption, Z!NoNode
<1>3. n # Dst
  <2> SUFFICES ASSUME n = Dst PROVE FALSE
    OBVIOUS
  <2>1. m = Src
    BY <1>1, <1>2 DEF SlotsInv, Tables
  <2>2. slots[Dst] = Dst
    BY <1>1, <2>1, <1>2 DEF SlotsInv, Tables
  <2>3. epoch[Dst] >= mine[Src] /\ epoch[Dst] \in Nat /\ mine[Src] \in Nat
    BY <1>2, <2>2 DEF SlotsInv, Tables, Z!TypeOK
  <2> QED
    BY <1>1, <2>1, <2>3
<1>4. m \in {Src, Dst} /\ (n = Src => m = Dst /\ tool = "closing")
  BY <1>1, <1>2 DEF SlotsInv, Tables
<1>5. \A x \in Nodes : db'[x] = db[x]
  <2>1. slots[n] = n => n = Src
    BY <1>3 DEF SlotsInv, Tables
  <2>2. n = Src => \A k \in Keys : db[Src][k] = Z!NoKey
    BY <1>4 DEF SlotsInv, Values, Value
  <2>3. db[n] \in [Keys -> Nat] /\ db \in [Nodes -> [Keys -> Nat]]
    BY DEF SlotsInv, Z!TypeOK
  <2>4. row = db[n]
    BY <2>1, <2>2, <2>3
  <2> HIDE DEF row
  <2> QED
    BY <1>1, <2>3, <2>4
<1>6. db' = db
  <2>1. db' = [x \in Nodes |-> db'[x]]
    BY <1>1 DEF SlotsInv, Z!TypeOK
  <2>2. db = [x \in Nodes |-> db[x]]
    BY DEF SlotsInv, Z!TypeOK
  <2> QED
    BY <1>5, <2>1, <2>2
<1>7. /\ slots' \in [Nodes -> Nodes] /\ slots'[n] = m
      /\ \A x \in Nodes : x # n => slots'[x] = slots[x]
  BY <1>1 DEF SlotsInv, Z!TypeOK
<1>8. /\ epoch' \in [Nodes -> Nat] /\ \A x \in Nodes : x # n => epoch'[x] = epoch[x]
  BY <1>1 DEF SlotsInv, Z!TypeOK
<1>9. Z!TypeOK'
  BY <1>1, <1>6, <1>7, <1>8 DEF SlotsInv, Z!TypeOK
<1>10. Tables'
  BY <1>1, <1>2, <1>3, <1>4, <1>7, <1>8 DEF SlotsInv, Tables
<1>11. Values'
  BY <1>1, <1>6 DEF SlotsInv, Values, Value, Restored
<1>12. Calls' /\ Onward
  BY <1>1, <1>6 DEF SlotsInv, Calls, Onward
<1> QED
  BY <1>1, <1>9, <1>10, <1>11, <1>12, OtherStep

\* RESTORE-ASKING is always served, and the key is deleted only after it.
LEMMA MigrateStep ==
    ASSUME Z!SlotsAssumption, SlotsInv,
           (\E k \in Keys : Z!migrateCommand(k)) \/ Z!migrateTimeout
    PROVE  SlotsInv'
<1>1. UNCHANGED <<Z!nodes, db, tool, cl, last, stale, writes>>
  BY DEF Z!migrateCommand, Z!migrateTimeout
<1>2. CASE \E k \in Keys : Z!migrateCommand(k)
  <2>1. PICK k \in Keys : Z!migrateCommand(k)
    BY <1>2
  <2>2. /\ tool = "migrating" /\ call.st = "none" /\ db[Src][k] # Z!NoKey
        /\ call' = [st |-> "sent", key |-> k, value |-> db[Src][k]] /\ timeouts' = timeouts
    BY <2>1 DEF Z!migrateCommand, Z!Blocked
  <2>3. db[Src][k] \in Nat
    BY DEF SlotsInv, Z!TypeOK, Z!SlotsAssumption
  <2>4. call'.st = "sent" /\ call'.key = k /\ call'.value = db[Src][k]
    BY <2>2
  <2>5. Z!TypeOK'
    BY <1>1, <2>2, <2>4 DEF SlotsInv, Z!TypeOK, Z!nodes
  <2>6. Values'
    BY <1>1, <2>2, <2>4 DEF SlotsInv, Values, Value, Restored, Z!nodes
  <2>7. Calls' /\ Onward
    BY <1>1, <2>2, <2>3, <2>4 DEF SlotsInv, Calls, Onward, Z!nodes
  <2>8. Tables'
    BY <1>1 DEF SlotsInv, Tables, Z!nodes
  <2> QED
    BY <1>1, <2>5, <2>6, <2>7, <2>8, OtherStep
<1>3. CASE Z!migrateTimeout
  <2>1. timeouts < MaxTimeouts /\ call' = Z!NoCall /\ timeouts' = timeouts + 1
    BY <1>3 DEF Z!migrateTimeout
  <2>2. timeouts' \in 0..MaxTimeouts /\ MaxTimeouts # 0
    <3>1. timeouts \in 0..MaxTimeouts /\ MaxTimeouts \in Nat
      BY DEF SlotsInv, Z!TypeOK, Z!SlotsAssumption
    <3> QED
      BY <2>1, <3>1
  <2>3. call'.st = "none" /\ call' \in [st : {"none", "sent", "ok"}, key : Keys \cup {Z!NoNode}, value : Nat]
    BY <2>1 DEF Z!NoCall, Z!NoKey
  <2>4. Z!TypeOK'
    BY <1>1, <2>2, <2>3 DEF SlotsInv, Z!TypeOK, Z!nodes
  <2>5. Values'
    BY <1>1, <2>2, <2>3 DEF SlotsInv, Values, Value, Restored, Z!nodes
  <2>6. Calls' /\ Onward
    BY <1>1, <2>3 DEF SlotsInv, Calls, Onward, Z!nodes
  <2>7. Tables'
    BY <1>1 DEF SlotsInv, Tables, Z!nodes
  <2> QED
    BY <1>1, <2>4, <2>5, <2>6, <2>7, OtherStep
<1> QED
  BY <1>2, <1>3

LEMMA RestoreStep ==
    ASSUME Z!SlotsAssumption, SlotsInv, Z!restoreCommand
    PROVE  SlotsInv'
<1> DEFINE key == call.key
           row == [db[Dst] EXCEPT ![key] = call.value]
<1>1. /\ Src \in Nodes /\ Dst \in Nodes /\ Src # Dst /\ Src # Z!NoNode
  BY DEF Z!SlotsAssumption, Z!NoNode
<1>2. call.st = "sent" /\ UNCHANGED <<Z!nodes, tool, cl, last, stale, writes, timeouts>>
  BY DEF Z!restoreCommand
<1>3. /\ tool = "migrating" /\ key \in Keys /\ db[Src][key] # Z!NoKey /\ call.value = db[Src][key]
      /\ db[Src][key] \in Nat /\ call \in [st : {"none", "sent", "ok"}, key : Keys \cup {Z!NoNode}, value : Nat]
  BY <1>1, <1>2 DEF SlotsInv, Calls, Z!TypeOK
<1>4. Z!getNodeByQuery(Dst, {key}, TRUE).how = "serve"
  <2>1. slots[Dst] = Src /\ importing[Dst] # Z!NoNode
    BY <1>1, <1>3 DEF SlotsInv, Tables
  <2>2. Cardinality({key}) = 1
    BY FS_Singleton
  <2> QED
    BY <1>1, <2>1, <2>2, SlotsCounts DEF Z!getNodeByQuery
<1>5. db' = [db EXCEPT ![Dst] = row] /\ call' = [call EXCEPT !.st = "ok"]
  BY <1>4 DEF Z!restoreCommand
<1>6. /\ row \in [Keys -> Nat] /\ row[key] = db[Src][key]
      /\ \A k \in Keys : k # key => row[k] = db[Dst][k]
  <2>1. db[Dst] \in [Keys -> Nat]
    BY <1>1 DEF SlotsInv, Z!TypeOK
  <2> QED
    BY <1>3, <2>1
<1>7. /\ call'.st = "ok" /\ call'.key = key
      /\ call' \in [st : {"none", "sent", "ok"}, key : Keys \cup {Z!NoNode}, value : Nat]
  BY <1>3, <1>5
<1> HIDE DEF row, key
<1>8. db' \in [Nodes -> [Keys -> Nat]] /\ db'[Dst] = row /\ db'[Src] = db[Src]
  BY <1>1, <1>5, <1>6 DEF SlotsInv, Z!TypeOK
<1>9. Z!TypeOK'
  BY <1>2, <1>7, <1>8 DEF SlotsInv, Z!TypeOK, Z!nodes
<1>10. Tables'
  BY <1>2 DEF SlotsInv, Tables, Z!nodes
<1>11. Values'
  <2> SUFFICES ASSUME NEW k \in Keys PROVE Value(k)'
    BY DEF Values
  <2>1. Value(k) /\ ~Restored(k)
    BY <1>2 DEF SlotsInv, Values, Restored
  <2>2. CASE k = key
    <3>1. db'[Src][k] = last'[k] /\ db'[Dst][k] = last'[k] /\ Restored(k)' /\ tool' = "migrating"
      BY <1>2, <1>3, <1>6, <1>7, <1>8, <2>1, <2>2 DEF Value, Restored
    <3> QED
      BY <3>1, <2>2, <1>3, <1>8 DEF Value
  <2>3. CASE k # key
    <3>1. ~(Restored(k)') /\ db'[Dst][k] = db[Dst][k]
      BY <1>6, <1>7, <1>8, <2>3 DEF Restored
    <3> QED
      BY <1>2, <1>8, <2>1, <3>1 DEF Value
  <2> QED
    BY <2>2, <2>3
<1>12. Calls' /\ Onward
  BY <1>2, <1>3, <1>7, <1>8 DEF SlotsInv, Calls, Onward, Z!nodes
<1> QED
  BY <1>2, <1>9, <1>10, <1>11, <1>12, OtherStep

LEMMA ReplyStep ==
    ASSUME Z!SlotsAssumption, SlotsInv, Z!migrateReply
    PROVE  SlotsInv'
<1> DEFINE key == call.key
           row == [db[Src] EXCEPT ![key] = Z!NoKey]
<1>1. Src \in Nodes /\ Dst \in Nodes /\ Src # Dst
  BY DEF Z!SlotsAssumption
<1>2. call.st = "ok" /\ tool = "migrating" /\ key \in Keys
  BY DEF Z!migrateReply, SlotsInv, Calls
<1>3. /\ db' = [db EXCEPT ![Src] = row] /\ call' = Z!NoCall
      /\ UNCHANGED <<Z!nodes, tool, cl, last, stale, writes, timeouts>>
  BY <1>2 DEF Z!migrateReply
<1>4. /\ row \in [Keys -> Nat] /\ row[key] = Z!NoKey
      /\ \A k \in Keys : k # key => row[k] = db[Src][k]
  <2>1. db[Src] \in [Keys -> Nat] /\ Z!NoKey \in Nat
    BY <1>1 DEF SlotsInv, Z!TypeOK, Z!NoKey
  <2> QED
    BY <1>2, <2>1
<1>5. call'.st = "none" /\ call' \in [st : {"none", "sent", "ok"}, key : Keys \cup {Z!NoNode}, value : Nat]
  BY <1>3 DEF Z!NoCall, Z!NoKey
<1>6. Restored(key) /\ \A k \in Keys : k # key => ~Restored(k)
  BY <1>2 DEF Restored
<1> HIDE DEF row, key
<1>7. db' \in [Nodes -> [Keys -> Nat]] /\ db'[Src] = row /\ db'[Dst] = db[Dst]
  BY <1>1, <1>3, <1>4 DEF SlotsInv, Z!TypeOK
<1>8. Z!TypeOK'
  BY <1>3, <1>5, <1>7 DEF SlotsInv, Z!TypeOK, Z!nodes
<1>9. Tables'
  BY <1>3 DEF SlotsInv, Tables, Z!nodes
<1>10. Values'
  <2> SUFFICES ASSUME NEW k \in Keys PROVE Value(k)'
    BY DEF Values
  <2>1. Value(k) /\ ~(Restored(k)')
    BY <1>5 DEF SlotsInv, Values, Restored
  <2>2. CASE k = key
    BY <1>2, <1>3, <1>4, <1>6, <1>7, <2>1, <2>2 DEF Value
  <2>3. CASE k # key
    BY <1>2, <1>3, <1>4, <1>6, <1>7, <2>1, <2>3 DEF Value
  <2> QED
    BY <2>2, <2>3
<1>11. Calls' /\ Onward
  BY <1>3, <1>4, <1>5, <1>7 DEF SlotsInv, Calls, Onward, Z!nodes
<1> QED
  BY <1>3, <1>8, <1>9, <1>10, <1>11, OtherStep

-----------------------------------------------------------------------------
(* The theorems                                                            *)

\* What holds of the tables, the values, MIGRATE and the requests in every reachable state.
THEOREM SlotsInvariant ==
    ASSUME Z!SlotsAssumption, TimeoutsHarmless
    PROVE  Z!Spec => []SlotsInv
<1>1. Z!Init => SlotsInv
  BY InitSlots
<1>2. SlotsInv /\ [Z!Next]_Z!vars => SlotsInv'
  <2> SUFFICES ASSUME SlotsInv, [Z!Next]_Z!vars PROVE SlotsInv'
    OBVIOUS
  <2>1. ASSUME NEW c \in Clients, NEW n \in Nodes, NEW op \in Ops, NEW ks \in Z!KeySets,
               Z!Ask(c, n, op, ks)
        PROVE  SlotsInv'
    BY <2>1, AskStep
  <2>2. ASSUME NEW c \in Clients, Z!Redirect(c) PROVE SlotsInv'
    BY <2>2, RedirectStep
  <2>3. ASSUME NEW c \in Clients, Z!Serve(c) PROVE SlotsInv'
    BY <2>3, ServeStep
  <2>4. ASSUME NEW c \in Clients, Z!ServeBlocked(c) PROVE SlotsInv'
    BY <2>4, ServeBlockedStep
  <2>5. ASSUME NEW c \in Clients, Z!clusterRedirectBlockedClientIfNeeded(c) PROVE SlotsInv'
    BY <2>5, RedirectBlockedStep
  <2>6. CASE Z!setslotImporting \/ Z!setslotMigrating
    BY <2>6, SetslotStep
  <2>7. ASSUME NEW n \in Nodes, Z!setslotNode(n) PROVE SlotsInv'
    BY <2>7, SetslotNodeStep
  <2>8. ASSUME NEW m \in Nodes, NEW n \in Nodes, Z!Heartbeat(m, n) PROVE SlotsInv'
    BY <2>8, HeartbeatStep
  <2>9. CASE (\E k \in Keys : Z!migrateCommand(k)) \/ Z!migrateTimeout
    BY <2>9, MigrateStep
  <2>10. CASE Z!restoreCommand
    BY <2>10, RestoreStep
  <2>11. CASE Z!migrateReply
    BY <2>11, ReplyStep
  <2>12. CASE UNCHANGED Z!vars
    BY <2>12 DEF Z!vars, Z!nodes, SlotsInv, Z!TypeOK, Tables, Values, Value, Restored, Calls,
                 RequestsOK, Request, Z!NoStaleValue
  <2> QED
    BY <2>1, <2>2, <2>3, <2>4, <2>5, <2>6, <2>7, <2>8, <2>9, <2>10, <2>11, <2>12 DEF Z!Next
<1> QED
  BY <1>1, <1>2, PTL DEF Z!Spec

\* getNodeByQuery, ASK and MIGRATE with REPLACE: no client reads, pops or deletes a value
\* that is not the last one written, whichever node it asks.
THEOREM NeverStale ==
    ASSUME Z!SlotsAssumption, TimeoutsHarmless
    PROVE  Z!Spec => []Z!NoStaleValue
<1>1. SlotsInv => Z!NoStaleValue
  BY DEF SlotsInv
<1> QED
  BY <1>1, SlotsInvariant, PTL

\* MIGRATE deletes a key only after RESTORE was answered, and SETSLOT NODE and a heartbeat
\* take the slot from Src only when it is empty: the last value is where the slot is.
THEOREM NothingIsLost ==
    ASSUME Z!SlotsAssumption, TimeoutsHarmless
    PROVE  Z!Spec => []Z!NothingLost
<1>1. ASSUME SlotsInv PROVE Z!NothingLost
  <2> SUFFICES ASSUME NEW k \in Keys, last[k] # Z!NoKey
               PROVE  \/ db[Src][k] = last[k] /\ slots[Src] = Src
                      \/ db[Dst][k] = last[k] /\ (slots[Dst] = Dst \/ importing[Dst] = Src)
    BY DEF Z!NothingLost
  <2>1. Value(k)
    BY <1>1 DEF SlotsInv, Values
  <2>2. CASE tool \in {"start", "importing"}
    BY <1>1, <2>1, <2>2 DEF Value, SlotsInv, Tables, Calls, Restored
  <2>3. CASE tool \in {"migrating", "closing"}
    <3>1. slots[Dst] = Dst \/ importing[Dst] = Src
      BY <1>1, <2>3 DEF SlotsInv, Tables
    <3>2. tool = "closing" => db[Dst][k] = last[k]
      BY <2>1 DEF Value
    <3>3. tool = "migrating" => slots[Src] = Src
      BY <1>1 DEF SlotsInv, Tables
    <3>4. db[Src][k] = last[k] \/ db[Dst][k] = last[k]
      BY <2>1 DEF Value
    <3> QED
      BY <2>3, <3>1, <3>2, <3>3, <3>4
  <2> QED
    BY <1>1, <2>2, <2>3 DEF SlotsInv, Z!TypeOK
<1> QED
  BY <1>1, SlotsInvariant, PTL

\* When SETSLOT NODE has made Dst owner while Src still thinks that it is, Src has no keys.
THEOREM OneOwnerOfKeys ==
    ASSUME Z!SlotsAssumption, TimeoutsHarmless
    PROVE  Z!Spec => []Z!OneOwner
<1>1. ASSUME SlotsInv, slots[Src] = Src, slots[Dst] = Dst PROVE Z!Missing(Src, Keys) = Keys
  <2>1. tool = "closing"
    BY <1>1 DEF SlotsInv, Tables, Z!SlotsAssumption
  <2> QED
    BY <1>1, <2>1 DEF SlotsInv, Values, Value, Z!Missing
<1>2. SlotsInv => Z!OneOwner
  BY <1>1 DEF Z!OneOwner
<1> QED
  BY <1>2, SlotsInvariant, PTL

-----------------------------------------------------------------------------
(* The failure detector, for any number of masters, slaves and partitions:  *)
(* FAIL needs a majority of the masters, and so does ok.                    *)

CONSTANTS Masters, Slaves, Suspects, MaxCuts, MaxNet
VARIABLES flag, old, reports, state, minority, net, cut, cuts, hadPfail

D == INSTANCE ClusterFailDetect

\* The instance of the detector counts as this module does.
LEMMA DetectCounts ==
    /\ \A S : D!IsFiniteSet(S) <=> IsFiniteSet(S)
    /\ \A S : D!Cardinality(S) = Cardinality(S)
<1>1. \A S : D!IsFiniteSet(S) <=> IsFiniteSet(S)
  BY DEF D!IsFiniteSet, IsFiniteSet
<1>2. \A S : D!Cardinality(S) = Cardinality(S)
  BY DEF D!Cardinality, Cardinality
<1> QED
  BY <1>1, <1>2

\* The masters that have had x for PFAIL, and that they are a majority.
Witnesses(x) == {m \in Masters : <<m, x>> \in hadPfail}
Major(x) == Cardinality(Witnesses(x)) >= D!needed_quorum

\* What somebody who says that x fails must have seen.
Knows(m, x) == <<m, x>> \in hadPfail \/ Major(x)

FlagsWitnessed ==
    \A n \in D!Nodes, x \in Masters :
        /\ flag[n][x] = "pfail" => <<n, x>> \in hadPfail
        /\ flag[n][x] = "fail" => Major(x)

\* Nobody reports to itself, so that its own vote is not counted twice.
ReportsWitnessed ==
    \A n \in D!Nodes, x \in Masters : \A m \in reports[n][x] : m # n /\ Knows(m, x)

NetWitnessed ==
    \A p \in net :
        /\ p.from # p.to
        /\ p.type = "gossip" /\ p.bad => Knows(p.from, p.about)
        /\ p.type = "fail" => Major(p.about)

Witnessed == FlagsWitnessed /\ ReportsWitnessed /\ NetWitnessed
DetectInv == D!TypeOK /\ Witnessed /\ D!OkHasMajority

Flags == {"ok", "pfail", "fail"}
DStates == {"ok", "fail"}
Packets == [type : {"gossip", "fail"}, from : D!Nodes, to : D!Nodes, about : Suspects, bad : BOOLEAN]

-----------------------------------------------------------------------------
(* Counting                                                                *)

\* A set of masters is finite and a majority is a number.
LEMMA QuorumIsNumber ==
    ASSUME D!NodesAssumption
    PROVE  /\ IsFiniteSet(Masters) /\ Cardinality(Masters) \in Nat \ {0}
           /\ D!needed_quorum \in Nat
           /\ D!needed_quorum <= Cardinality(Masters)
<1>1. IsFiniteSet(Masters)
  BY DetectCounts, FS_Subset DEF D!NodesAssumption, D!Nodes
<1>2. Cardinality(Masters) \in Nat /\ Cardinality(Masters) # 0
  BY <1>1, FS_CardinalityType, FS_EmptySet DEF D!NodesAssumption
<1> QED
  BY DetectCounts, <1>1, <1>2 DEF D!needed_quorum

\* A set of masters of which each has had x for PFAIL, at least quorum of them, is a
\* majority of witnesses (markNodeAsFailingIfNeeded counts such a set).
LEMMA CountedAreMajor ==
    ASSUME D!NodesAssumption, NEW x, NEW S, S \subseteq Witnesses(x),
           Cardinality(S) >= D!needed_quorum
    PROVE  Major(x)
<1>1. IsFiniteSet(Witnesses(x))
  BY QuorumIsNumber, FS_Subset DEF Witnesses
<1>2. Cardinality(S) <= Cardinality(Witnesses(x)) /\ IsFiniteSet(S)
  BY <1>1, FS_Subset
<1>3. Cardinality(S) \in Nat /\ Cardinality(Witnesses(x)) \in Nat
  BY <1>1, <1>2, FS_CardinalityType
<1> QED
  BY <1>2, <1>3, QuorumIsNumber DEF Major

\* How many masters a node sees is a number.
LEMMA ReachableIsNumber ==
    ASSUME D!NodesAssumption, NEW f
    PROVE  Cardinality(D!Reachable(f)) \in Nat
BY QuorumIsNumber, FS_Subset, FS_CardinalityType DEF D!Reachable

\* hadPfail only grows: a majority stays one.
LEMMA MajorStays ==
    ASSUME D!NodesAssumption, hadPfail \subseteq hadPfail', NEW x, Major(x)
    PROVE  Major(x)'
<1>1. IsFiniteSet(Witnesses(x)') /\ Witnesses(x) \subseteq Witnesses(x)'
  BY QuorumIsNumber, FS_Subset DEF Witnesses
<1>2. Cardinality(Witnesses(x)) <= Cardinality(Witnesses(x)') /\ IsFiniteSet(Witnesses(x))
  BY <1>1, FS_Subset
<1>3. Cardinality(Witnesses(x)) \in Nat /\ Cardinality(Witnesses(x)') \in Nat
  BY <1>1, <1>2, FS_CardinalityType
<1> QED
  BY <1>2, <1>3, QuorumIsNumber DEF Major, D!needed_quorum

LEMMA KnowledgeStays ==
    ASSUME D!NodesAssumption, hadPfail \subseteq hadPfail', NEW m, NEW x, Knows(m, x)
    PROVE  Knows(m, x)'
BY MajorStays DEF Knows

\* markNodeAsFailingIfNeeded: when node n, which holds x for PFAIL itself, has that many
\* reports, a majority has witnessed the failure; its own vote counts only for a master
\* and is not among the reports.
LEMMA MarkedIsMajor ==
    ASSUME D!NodesAssumption, NEW n \in D!Nodes, NEW x \in Masters, NEW rep \in SUBSET Masters,
           \A m \in rep : m # n /\ Knows(m, x),
           flag[n][x] = "pfail" => <<n, x>> \in hadPfail,
           D!markNodeAsFailingIfNeeded(n, x, rep)
    PROVE  Major(x)
<1>1. CASE \E m \in rep : Major(x)
  BY <1>1
<1>2. CASE ~ Major(x)
  <2>1. rep \subseteq Witnesses(x) /\ n \notin rep /\ <<n, x>> \in hadPfail
    BY <1>2 DEF Knows, Witnesses, D!markNodeAsFailingIfNeeded
  <2>2. IsFiniteSet(rep) /\ Cardinality(rep) \in Nat
    BY QuorumIsNumber, FS_Subset, FS_CardinalityType
  <2>3. CASE n \in Masters
    <3>1. rep \cup {n} \subseteq Witnesses(x)
      BY <2>1, <2>3 DEF Witnesses
    <3>2. Cardinality(rep \cup {n}) = Cardinality(rep) + 1
      BY <2>1, <2>2, FS_AddElement
    <3>3. Cardinality(rep \cup {n}) >= D!needed_quorum
      BY DetectCounts, <3>2, <2>3 DEF D!markNodeAsFailingIfNeeded
    <3> QED
      BY <3>1, <3>3, CountedAreMajor
  <2>4. CASE n \notin Masters
    <3>1. Cardinality(rep) >= D!needed_quorum
      BY DetectCounts, <2>2, <2>4, QuorumIsNumber DEF D!markNodeAsFailingIfNeeded
    <3> QED
      BY <3>1, <2>1, CountedAreMajor
  <2> QED
    BY <2>3, <2>4
<1> QED
  BY <1>2

-----------------------------------------------------------------------------
(* One flag changes                                                        *)

\* Flag(n, x, new) changes one flag and evaluates the cluster's state at n, which is ok
\* only if the flags of n say so.
LEMMA FlagStep ==
    ASSUME D!NodesAssumption, D!TypeOK, D!OkHasMajority, NEW n \in D!Nodes, NEW x \in Masters, NEW new \in Flags,
           D!Flag(n, x, new)
    PROVE  /\ flag' \in [D!Nodes -> [Masters -> Flags]]
           /\ state' \in [D!Nodes -> DStates] /\ minority' \in [D!Nodes -> BOOLEAN]
           /\ flag'[n][x] = new
           /\ \A k \in D!Nodes, y \in Masters : k # n \/ y # x => flag'[k][y] = flag[k][y]
           /\ D!OkHasMajority'
<1>1. /\ flag \in [D!Nodes -> [Masters -> Flags]] /\ state \in [D!Nodes -> DStates]
      /\ minority \in [D!Nodes -> BOOLEAN]
  BY DEF D!TypeOK, Flags, DStates
<1>2. flag' = [flag EXCEPT ![n][x] = new]
  BY DEF D!Flag
<1>3. flag' \in [D!Nodes -> [Masters -> Flags]]
  BY <1>1, <1>2
<1>4. flag'[n][x] = new
  BY <1>1, <1>2
<1>5. \A k \in D!Nodes : k # n => flag'[k] = flag[k]
  BY <1>1, <1>2
<1>6. \A y \in Masters : y # x => flag'[n][y] = flag[n][y]
  BY <1>1, <1>2
<1>7. PICK few \in BOOLEAN, waits \in BOOLEAN, s \in DStates :
         /\ few <=> Cardinality(D!Reachable(flag'[n])) < D!needed_quorum
         /\ s = "ok" <=> ~ D!Uncovered(flag'[n]) /\ ~ few
         /\ waits => s = "ok"
         /\ state' = [state EXCEPT ![n] = IF waits THEN @ ELSE s]
         /\ minority' = [minority EXCEPT ![n] = @ \/ few]
  <2> DEFINE few == Cardinality(D!Reachable(flag'[n])) < D!needed_quorum
             s == IF D!Uncovered(flag'[n]) \/ few THEN "fail" ELSE "ok"
             waits == s = "ok" /\ n \in Masters /\ minority[n]
  <2>1. /\ state' = [state EXCEPT ![n] = IF waits THEN @ ELSE s]
        /\ minority' = [minority EXCEPT ![n] = @ \/ few]
    BY DetectCounts DEF D!Flag, D!clusterUpdateState
  <2>2. s \in DStates /\ few \in BOOLEAN /\ waits \in BOOLEAN
    BY DEF DStates
  <2>3. s = "ok" <=> ~ D!Uncovered(flag'[n]) /\ ~ few
    OBVIOUS
  <2> QED
    BY <2>1, <2>2, <2>3
<1>8. state' \in [D!Nodes -> DStates] /\ minority' \in [D!Nodes -> BOOLEAN]
  <2>1. state[n] \in DStates /\ minority[n] \in BOOLEAN
    BY <1>1
  <2> QED
    BY <1>1, <1>7, <2>1
<1>9. D!OkHasMajority'
  <2> SUFFICES ASSUME NEW k \in D!Nodes, state'[k] = "ok"
               PROVE  /\ Cardinality(D!Reachable(flag'[k])) >= D!needed_quorum
                      /\ ~ D!Uncovered(flag'[k])
    BY DetectCounts DEF D!OkHasMajority, D!needed_quorum, D!Uncovered
  <2>1. CASE k = n
    <3>1. state'[n] = IF waits THEN state[n] ELSE s
      BY <1>1, <1>7
    <3>2. s = "ok"
      BY <3>1, <2>1, <1>7
    <3>3. ~ D!Uncovered(flag'[n]) /\ ~ (Cardinality(D!Reachable(flag'[n])) < D!needed_quorum)
      BY <3>2, <1>7
    <3>4. Cardinality(D!Reachable(flag'[n])) \in Nat /\ D!needed_quorum \in Nat
      BY ReachableIsNumber, QuorumIsNumber
    <3>5. Cardinality(D!Reachable(flag'[n])) >= D!needed_quorum
      BY <3>3, <3>4
    <3> QED
      BY <3>3, <3>5, <2>1
  <2>2. CASE k # n
    <3>1. flag'[k] = flag[k] /\ state'[k] = state[k]
      BY <1>1, <1>5, <1>7, <2>2
    <3> QED
      BY DetectCounts, <3>1 DEF D!OkHasMajority
  <2> QED
    BY <2>1, <2>2
<1> QED
  BY <1>3, <1>4, <1>5, <1>6, <1>8, <1>9

-----------------------------------------------------------------------------
(* Steps and what has been witnessed                                       *)

\* A flag that changes is cleared, or has a witness or a majority of them.
LEMMA FlagsStay ==
    ASSUME D!NodesAssumption, FlagsWitnessed, hadPfail \subseteq hadPfail',
           \A n \in D!Nodes, x \in Masters :
               \/ flag'[n][x] \in {flag[n][x], "ok"}
               \/ flag'[n][x] = "pfail" /\ <<n, x>> \in hadPfail'
               \/ flag'[n][x] = "fail" /\ Major(x)
    PROVE  FlagsWitnessed'
<1> SUFFICES ASSUME NEW n \in D!Nodes, NEW x \in Masters
             PROVE  /\ flag'[n][x] = "pfail" => <<n, x>> \in hadPfail'
                    /\ flag'[n][x] = "fail" => Major(x)'
  BY DEF FlagsWitnessed
<1>1. flag[n][x] = "pfail" => <<n, x>> \in hadPfail
  BY DEF FlagsWitnessed
<1>2. flag[n][x] = "fail" => Major(x)
  BY DEF FlagsWitnessed
<1>3. Major(x) => Major(x)'
  BY MajorStays
<1> QED
  BY <1>1, <1>2, <1>3

\* A report that is new is of another node that knows.
LEMMA ReportsStay ==
    ASSUME D!NodesAssumption, ReportsWitnessed, hadPfail \subseteq hadPfail',
           \A n \in D!Nodes, x \in Masters : \A m \in reports'[n][x] :
               m \in reports[n][x] \/ (m # n /\ Knows(m, x))
    PROVE  ReportsWitnessed'
<1> SUFFICES ASSUME NEW n \in D!Nodes, NEW x \in Masters, NEW m \in reports'[n][x]
             PROVE  m # n /\ Knows(m, x)'
  BY DEF ReportsWitnessed
<1>1. m # n /\ Knows(m, x)
  BY DEF ReportsWitnessed
<1> QED
  BY <1>1, KnowledgeStays

\* A packet that is new says what is known.
LEMMA NetStays ==
    ASSUME D!NodesAssumption, NetWitnessed, hadPfail \subseteq hadPfail',
           \A p \in net' : p \in net \/
               (/\ p.from # p.to
                /\ p.type = "gossip" /\ p.bad => Knows(p.from, p.about)
                /\ p.type = "fail" => Major(p.about))
    PROVE  NetWitnessed'
<1> SUFFICES ASSUME NEW p \in net'
             PROVE  /\ p.from # p.to
                    /\ p.type = "gossip" /\ p.bad => Knows(p.from, p.about)'
                    /\ p.type = "fail" => Major(p.about)'
  BY DEF NetWitnessed
<1>1. /\ p.from # p.to
      /\ p.type = "gossip" /\ p.bad => Knows(p.from, p.about)
      /\ p.type = "fail" => Major(p.about)
  BY DEF NetWitnessed
<1>2. Knows(p.from, p.about) => Knows(p.from, p.about)'
  BY KnowledgeStays
<1>3. Major(p.about) => Major(p.about)'
  BY MajorStays
<1> QED
  BY <1>1, <1>2, <1>3

\* The parts of the type invariant, by name.
LEMMA Types ==
    D!TypeOK <=> /\ flag \in [D!Nodes -> [Masters -> Flags]]
               /\ old \in [D!Nodes -> [Masters -> BOOLEAN]]
               /\ reports \in [D!Nodes -> [Masters -> SUBSET Masters]]
               /\ state \in [D!Nodes -> DStates] /\ minority \in [D!Nodes -> BOOLEAN]
               /\ net \subseteq Packets
               /\ cut \subseteq D!Nodes /\ cuts \in 0..MaxCuts
               /\ hadPfail \subseteq D!Nodes \X Masters
BY DEF D!TypeOK, Flags, DStates, Packets

LEMMA OkStays ==
    ASSUME D!OkHasMajority, UNCHANGED <<flag, state>>
    PROVE  D!OkHasMajority'
BY DEF D!OkHasMajority, D!needed_quorum, D!Reachable, D!Uncovered

-----------------------------------------------------------------------------
(* The actions                                                             *)

LEMMA InitDetect ==
    ASSUME D!NodesAssumption, D!Init
    PROVE  DetectInv
<1>1. D!TypeOK
  BY DEF D!Init, D!TypeOK, D!NodesAssumption
<1>2. Witnessed
  BY DEF D!Init, Witnessed, FlagsWitnessed, ReportsWitnessed, NetWitnessed
<1>3. \A n \in D!Nodes : D!Reachable(flag[n]) = Masters /\ ~ D!Uncovered(flag[n])
  BY DEF D!Init, D!Reachable, D!Uncovered
<1>4. D!OkHasMajority
  BY DetectCounts, <1>3, QuorumIsNumber DEF D!OkHasMajority
<1> QED
  BY <1>1, <1>2, <1>4 DEF DetectInv

\* clusterCron and the answers to its PINGs.
LEMMA PingTimeoutStep ==
    ASSUME D!NodesAssumption, DetectInv, NEW n \in D!Nodes, NEW x \in Suspects, D!PingTimeout(n, x)
    PROVE  DetectInv'
<1>0. D!TypeOK /\ D!OkHasMajority /\ FlagsWitnessed /\ ReportsWitnessed /\ NetWitnessed
  BY DEF DetectInv, Witnessed
<1>1. /\ x \in Masters /\ "pfail" \in Flags /\ D!Flag(n, x, "pfail")
      /\ hadPfail' = hadPfail \cup {<<n, x>>} /\ UNCHANGED <<old, reports, net, cut, cuts>>
  BY DEF D!PingTimeout, D!NodesAssumption, Flags
<1>2. /\ flag' \in [D!Nodes -> [Masters -> Flags]]
      /\ state' \in [D!Nodes -> DStates] /\ minority' \in [D!Nodes -> BOOLEAN]
      /\ flag'[n][x] = "pfail"
      /\ \A k \in D!Nodes, y \in Masters : k # n \/ y # x => flag'[k][y] = flag[k][y]
      /\ D!OkHasMajority'
  BY <1>0, <1>1, FlagStep
<1>3. D!TypeOK'
  BY <1>0, <1>1, <1>2 DEF D!TypeOK, Flags, DStates
<1>4. hadPfail \subseteq hadPfail'
  BY <1>1
<1>5. FlagsWitnessed'
  BY <1>0, <1>1, <1>2, <1>4, FlagsStay
<1>6. ReportsWitnessed'
  BY <1>0, <1>1, <1>4, ReportsStay
<1>7. NetWitnessed'
  BY <1>0, <1>1, <1>4, NetStays
<1> QED
  BY <1>2, <1>3, <1>5, <1>6, <1>7 DEF DetectInv, Witnessed

LEMMA ReceivePongStep ==
    ASSUME D!NodesAssumption, DetectInv, NEW n \in D!Nodes, NEW x \in Suspects, D!ReceivePong(n, x)
    PROVE  DetectInv'
<1>0. D!TypeOK /\ D!OkHasMajority /\ FlagsWitnessed /\ ReportsWitnessed /\ NetWitnessed
  BY DEF DetectInv, Witnessed
<1>1. /\ x \in Masters /\ "ok" \in Flags /\ D!Flag(n, x, "ok")
      /\ UNCHANGED <<old, reports, net, cut, cuts, hadPfail>>
  BY DEF D!ReceivePong, D!NodesAssumption, Flags
<1>2. /\ flag' \in [D!Nodes -> [Masters -> Flags]]
      /\ state' \in [D!Nodes -> DStates] /\ minority' \in [D!Nodes -> BOOLEAN]
      /\ flag'[n][x] = "ok"
      /\ \A k \in D!Nodes, y \in Masters : k # n \/ y # x => flag'[k][y] = flag[k][y]
      /\ D!OkHasMajority'
  BY <1>0, <1>1, FlagStep
<1>3. D!TypeOK'
  BY <1>0, <1>1, <1>2 DEF D!TypeOK, Flags, DStates
<1>4. hadPfail \subseteq hadPfail'
  BY <1>1
<1>5. FlagsWitnessed'
  BY <1>0, <1>1, <1>2, <1>4, FlagsStay
<1>6. ReportsWitnessed'
  BY <1>0, <1>1, <1>4, ReportsStay
<1>7. NetWitnessed'
  BY <1>0, <1>1, <1>4, NetStays
<1> QED
  BY <1>2, <1>3, <1>5, <1>6, <1>7 DEF DetectInv, Witnessed

\* The rejoin delay ends: the state is evaluated with the flags as they are.
LEMMA RejoinDelayStep ==
    ASSUME D!NodesAssumption, DetectInv, NEW n \in D!Nodes, D!RejoinDelay(n)
    PROVE  DetectInv'
<1>0. D!TypeOK /\ D!OkHasMajority /\ FlagsWitnessed /\ ReportsWitnessed /\ NetWitnessed
  BY DEF DetectInv, Witnessed
<1>1. /\ Cardinality(D!Reachable(flag[n])) >= D!needed_quorum
      /\ minority' = [minority EXCEPT ![n] = FALSE]
      /\ state' = [state EXCEPT ![n] = IF D!Uncovered(flag[n]) THEN "fail" ELSE "ok"]
      /\ UNCHANGED <<flag, old, reports, net, cut, cuts, hadPfail>>
  BY DetectCounts DEF D!RejoinDelay
<1>2. D!TypeOK'
  BY <1>0, <1>1 DEF D!TypeOK
<1>3. D!OkHasMajority'
  <2> SUFFICES ASSUME NEW k \in D!Nodes, state'[k] = "ok"
               PROVE  Cardinality(D!Reachable(flag[k])) >= D!needed_quorum /\ ~ D!Uncovered(flag[k])
    BY DetectCounts, <1>1 DEF D!OkHasMajority, D!needed_quorum, D!Uncovered, D!Reachable
  <2>1. CASE k = n
    <3>1. state'[n] = IF D!Uncovered(flag[n]) THEN "fail" ELSE "ok"
      BY <1>0, <1>1 DEF D!TypeOK
    <3> QED
      BY <3>1, <2>1, <1>1
  <2>2. CASE k # n
    <3>1. state[k] = "ok"
      BY <1>0, <1>1, <2>2 DEF D!TypeOK
    <3> QED
      BY DetectCounts, <3>1, <1>0 DEF D!OkHasMajority
  <2> QED
    BY <2>1, <2>2
<1>4. Witnessed'
  BY <1>0, <1>1, FlagsStay, ReportsStay, NetStays DEF Witnessed
<1> QED
  BY <1>2, <1>3, <1>4 DEF DetectInv

\* Steps that change neither flags nor states: what they add to reports and packets
\* must be known.
LEMMA QuietStep ==
    ASSUME D!NodesAssumption, DetectInv, UNCHANGED <<flag, state, hadPfail>>, D!TypeOK',
           \A n \in D!Nodes, x \in Masters : \A m \in reports'[n][x] :
               m \in reports[n][x] \/ (m # n /\ Knows(m, x)),
           \A p \in net' : p \in net \/
               (/\ p.from # p.to
                /\ p.type = "gossip" /\ p.bad => Knows(p.from, p.about)
                /\ p.type = "fail" => Major(p.about))
    PROVE  DetectInv'
<1>1. D!OkHasMajority'
  BY OkStays DEF DetectInv
<1>2. FlagsWitnessed'
  BY FlagsStay DEF DetectInv, Witnessed
<1>3. ReportsWitnessed'
  BY ReportsStay DEF DetectInv, Witnessed
<1>4. NetWitnessed'
  BY NetStays DEF DetectInv, Witnessed
<1> QED
  BY <1>1, <1>2, <1>3, <1>4 DEF DetectInv, Witnessed

\* clusterSendPing: who holds x for PFAIL or FAIL knows.
LEMMA SendGossipStep ==
    ASSUME D!NodesAssumption, DetectInv, NEW n \in D!Nodes, NEW k \in D!Nodes, NEW x \in Suspects,
           D!SendGossip(n, k, x)
    PROVE  DetectInv'
<1> DEFINE g == [type |-> "gossip", from |-> n, to |-> k, about |-> x, bad |-> flag[n][x] # "ok"]
<1>1. /\ n # k /\ net' = net \cup {g} /\ x \in Masters
      /\ UNCHANGED <<flag, old, reports, state, minority, cut, cuts, hadPfail>>
  BY DEF D!SendGossip, D!NodesAssumption
<1>2. g \in Packets
  BY DEF Packets
<1>3. D!TypeOK'
  BY <1>1, <1>2 DEF DetectInv, D!TypeOK, Packets
<1>4. flag[n][x] # "ok" => Knows(n, x)
  <2>1. flag[n][x] \in {"ok", "pfail", "fail"}
    BY <1>1 DEF DetectInv, D!TypeOK
  <2> QED
    BY <1>1, <2>1 DEF DetectInv, Witnessed, FlagsWitnessed, Knows
<1>5. \A p \in net' : p \in net \/
         (/\ p.from # p.to
          /\ p.type = "gossip" /\ p.bad => Knows(p.from, p.about)
          /\ p.type = "fail" => Major(p.about))
  <2>1. /\ g.from # g.to /\ g.type = "gossip" /\ g.from = n /\ g.about = x
        /\ g.bad <=> flag[n][x] # "ok"
    BY <1>1
  <2> HIDE DEF g
  <2>2. g.bad => Knows(g.from, g.about)
    BY <2>1, <1>4
  <2> QED
    BY <1>1, <2>1, <2>2
<1> QED
  BY <1>1, <1>3, <1>5, QuietStep

LEMMA ExpireReportStep ==
    ASSUME D!NodesAssumption, DetectInv, NEW n \in D!Nodes, NEW k \in D!Nodes, NEW x \in Suspects,
           D!ExpireReport(n, x, k)
    PROVE  DetectInv'
<1>1. /\ reports' = [reports EXCEPT ![n][x] = @ \ {k}] /\ x \in Masters
      /\ UNCHANGED <<flag, old, state, minority, net, cut, cuts, hadPfail>>
  BY DEF D!ExpireReport, D!NodesAssumption
<1>2. reports \in [D!Nodes -> [Masters -> SUBSET Masters]]
  BY DEF DetectInv, D!TypeOK
<1>3. reports' \in [D!Nodes -> [Masters -> SUBSET Masters]]
  BY <1>1, <1>2
<1>4. \A i \in D!Nodes, y \in Masters : reports'[i][y] \subseteq reports[i][y]
  BY <1>1, <1>2
<1>5. D!TypeOK'
  BY <1>1, <1>3 DEF DetectInv, D!TypeOK
<1> QED
  BY <1>1, <1>4, <1>5, QuietStep

\* FailIsOld, Lose, Cut and Heal: reports and packets only get fewer.
LEMMA OtherSteps ==
    ASSUME D!NodesAssumption, DetectInv,
           \/ \E n \in D!Nodes, x \in Suspects : D!FailIsOld(n, x)
           \/ \E p \in net : D!Lose(p)
           \/ \E side \in D!Sides : D!Cut(side)
           \/ D!Heal
           \/ UNCHANGED D!vars
    PROVE  DetectInv'
<1>0. D!TypeOK
  BY DEF DetectInv
<1>1. UNCHANGED <<flag, reports, state, minority, hadPfail>> /\ net' \subseteq net
  BY DEF D!FailIsOld, D!Lose, D!Cut, D!Heal, D!vars
<1>2. D!TypeOK'
  <2>1. CASE \E n \in D!Nodes, x \in Suspects : D!FailIsOld(n, x)
    <3>1. PICK n \in D!Nodes, x \in Suspects : D!FailIsOld(n, x)
      BY <2>1
    <3>2. old' \in [D!Nodes -> [Masters -> BOOLEAN]]
      BY <1>0, <3>1 DEF D!FailIsOld, D!TypeOK, D!NodesAssumption
    <3> QED
      BY <1>0, <3>1, <3>2 DEF D!FailIsOld, D!TypeOK
  <2>2. CASE \E p \in net : D!Lose(p)
    BY <1>0, <2>2 DEF D!Lose, D!TypeOK
  <2>3. CASE \E side \in D!Sides : D!Cut(side)
    <3>1. PICK x \in Suspects : D!Cut({x})
      BY <2>3 DEF D!Sides
    <3>2. x \in D!Nodes
      BY DEF D!NodesAssumption, D!Nodes
    <3>3. cuts \in 0..MaxCuts /\ cuts < MaxCuts /\ cuts' = cuts + 1 /\ MaxCuts \in Nat
      BY <1>0, <3>1 DEF D!Cut, D!TypeOK, D!NodesAssumption
    <3>4. cuts' \in 0..MaxCuts /\ cut' \subseteq D!Nodes
      BY <3>1, <3>2, <3>3 DEF D!Cut
    <3> QED
      BY <1>0, <3>1, <3>4 DEF D!Cut, D!TypeOK
  <2>4. CASE D!Heal
    BY <1>0, <2>4 DEF D!Heal, D!TypeOK
  <2>5. CASE UNCHANGED D!vars
    BY <1>0, <2>5 DEF D!vars, D!TypeOK
  <2> QED
    BY <2>1, <2>2, <2>3, <2>4, <2>5
<1> QED
  BY <1>1, <1>2, QuietStep

\* A broadcast is made by a node that has a majority, to others.
LEMMA SendFailPackets ==
    ASSUME NEW n \in D!Nodes, NEW x \in Suspects, NEW p \in D!clusterSendFail(n, x)
    PROVE  p \in Packets /\ p.from # p.to /\ p.type = "fail" /\ p.about = x
<1>1. PICK k \in D!Nodes \ {n, x} :
         p = [type |-> "fail", from |-> n, to |-> k, about |-> x, bad |-> TRUE]
  BY DEF D!clusterSendFail
<1> QED
  BY <1>1 DEF Packets

\* clusterProcessGossipSection
LEMMA ReceiveGossipStep ==
    ASSUME D!NodesAssumption, DetectInv, NEW p \in net, D!ReceiveGossip(p)
    PROVE  DetectInv'
<1>0. D!TypeOK /\ D!OkHasMajority /\ FlagsWitnessed /\ ReportsWitnessed /\ NetWitnessed
  BY DEF DetectInv, Witnessed
<1> DEFINE n == p.to
           x == p.about
           rep == IF ~D!Reports(p) THEN reports[n][x]
                  ELSE IF p.bad THEN D!clusterNodeAddFailureReport(n, x, p.from)
                  ELSE D!clusterNodeDelFailureReport(n, x, p.from)
           marks == D!Reports(p) /\ p.bad /\ D!markNodeAsFailingIfNeeded(n, x, rep)
<1>1. p \in Packets /\ n \in D!Nodes /\ x \in Masters /\ x \in Suspects /\ p.bad \in BOOLEAN
  BY <1>0 DEF D!TypeOK, Packets, D!NodesAssumption
<1>2. /\ p.from # n
      /\ p.bad => Knows(p.from, x)
  BY <1>0 DEF NetWitnessed, D!ReceiveGossip
<1>3. /\ reports' = [reports EXCEPT ![n][x] = rep]
      /\ IF marks THEN /\ D!Flag(n, x, "fail")
                       /\ old' = [old EXCEPT ![n][x] = FALSE]
         ELSE D!Keep
      /\ net' = (net \ {p}) \cup (IF marks /\ n \in Masters THEN D!clusterSendFail(n, x) ELSE {})
      /\ UNCHANGED <<cut, cuts, hadPfail>>
  BY DEF D!ReceiveGossip
<1>4. reports \in [D!Nodes -> [Masters -> SUBSET Masters]] /\ old \in [D!Nodes -> [Masters -> BOOLEAN]]
  BY <1>0 DEF D!TypeOK
<1>5. \A m \in reports[n][x] : m # n /\ Knows(m, x)
  BY <1>0, <1>1 DEF ReportsWitnessed
<1>6. rep \in SUBSET Masters /\ \A m \in rep : m # n /\ Knows(m, x)
  <2>1. reports[n][x] \in SUBSET Masters
    BY <1>1, <1>4
  <2>2. CASE ~ D!Reports(p)
    BY <2>1, <2>2, <1>5
  <2>3. CASE D!Reports(p) /\ p.bad
    BY <2>1, <2>3, <1>2, <1>5 DEF D!Reports, D!clusterNodeAddFailureReport
  <2>4. CASE D!Reports(p) /\ ~ p.bad
    BY <2>1, <2>4, <1>5 DEF D!clusterNodeDelFailureReport
  <2> QED
    BY <2>2, <2>3, <2>4
<1>7. marks => Major(x)
  <2>1. flag[n][x] = "pfail" => <<n, x>> \in hadPfail
    BY <1>0, <1>1 DEF FlagsWitnessed
  <2> QED
    BY <2>1, <1>1, <1>6, MarkedIsMajor
<1> HIDE DEF rep, marks
<1>8. /\ reports' \in [D!Nodes -> [Masters -> SUBSET Masters]]
      /\ \A k \in D!Nodes, y \in Masters :
            reports'[k][y] = reports[k][y] \/ (k = n /\ y = x /\ reports'[k][y] = rep)
  BY <1>1, <1>3, <1>4, <1>6
<1>9. ReportsWitnessed'
  BY <1>0, <1>3, <1>6, <1>8, ReportsStay
<1>10. \A q \in net' : q \in net \/ (marks /\ q \in D!clusterSendFail(n, x))
  BY <1>3
<1>11. NetWitnessed' /\ net' \subseteq Packets
  <2>1. \A q \in net' : q \in Packets /\
           (q \in net \/ (/\ q.from # q.to
                          /\ q.type = "gossip" /\ q.bad => Knows(q.from, q.about)
                          /\ q.type = "fail" => Major(q.about)))
    <3> SUFFICES ASSUME NEW q \in net', q \notin net
                 PROVE  /\ q \in Packets /\ q.from # q.to
                        /\ q.type = "gossip" /\ q.bad => Knows(q.from, q.about)
                        /\ q.type = "fail" => Major(q.about)
      BY <1>0 DEF D!TypeOK, Packets
    <3>1. marks /\ q \in D!clusterSendFail(n, x)
      BY <1>10
    <3>2. q \in Packets /\ q.from # q.to /\ q.type = "fail" /\ q.about = x
      BY <3>1, <1>1, SendFailPackets
    <3> QED
      BY <3>1, <3>2, <1>7
  <2> QED
    BY <1>0, <1>3, <2>1, NetStays
<1>12. CASE marks
  <2>1. D!Flag(n, x, "fail") /\ "fail" \in Flags /\ old' = [old EXCEPT ![n][x] = FALSE]
    BY <1>3, <1>12 DEF Flags
  <2>2. /\ flag' \in [D!Nodes -> [Masters -> Flags]]
        /\ state' \in [D!Nodes -> DStates] /\ minority' \in [D!Nodes -> BOOLEAN]
        /\ flag'[n][x] = "fail"
        /\ \A k \in D!Nodes, y \in Masters : k # n \/ y # x => flag'[k][y] = flag[k][y]
        /\ D!OkHasMajority'
    BY <1>0, <1>1, <2>1, FlagStep
  <2>3. old' \in [D!Nodes -> [Masters -> BOOLEAN]]
    BY <1>1, <1>4, <2>1
  <2>4. D!TypeOK'
    BY <1>0, <1>3, <1>8, <1>11, <2>2, <2>3 DEF D!TypeOK, Flags, DStates, Packets
  <2>5. FlagsWitnessed'
    BY <1>0, <1>1, <1>3, <1>7, <1>12, <2>2, FlagsStay
  <2> QED
    BY <2>2, <2>4, <2>5, <1>9, <1>11 DEF DetectInv, Witnessed
<1>13. CASE ~ marks
  <2>1. UNCHANGED <<flag, old, state, minority>>
    BY <1>3, <1>13 DEF D!Keep
  <2>2. D!TypeOK'
    BY <1>0, <1>3, <1>8, <1>11, <2>1 DEF D!TypeOK, Packets
  <2>3. FlagsWitnessed'
    BY <1>0, <1>3, <2>1, FlagsStay
  <2>4. D!OkHasMajority'
    BY <1>0, <2>1, OkStays
  <2> QED
    BY <2>2, <2>3, <2>4, <1>9, <1>11 DEF DetectInv, Witnessed
<1> QED
  BY <1>12, <1>13

\* clusterReadHandler's FAIL.
LEMMA ReceiveFailStep ==
    ASSUME D!NodesAssumption, DetectInv, NEW p \in net, D!ReceiveFail(p)
    PROVE  DetectInv'
<1>0. D!TypeOK /\ D!OkHasMajority /\ FlagsWitnessed /\ ReportsWitnessed /\ NetWitnessed
  BY DEF DetectInv, Witnessed
<1> DEFINE n == p.to
           x == p.about
<1>1. n \in D!Nodes /\ x \in Masters
  BY <1>0 DEF D!TypeOK, D!NodesAssumption
<1>2. Major(x)
  BY <1>0 DEF NetWitnessed, D!ReceiveFail
<1>3. /\ \/ D!Flag(n, x, "fail") /\ old' = [old EXCEPT ![n][x] = FALSE]
         \/ D!Keep
      /\ net' = net \ {p} /\ UNCHANGED <<reports, cut, cuts, hadPfail>>
  BY DEF D!ReceiveFail
<1>4. ReportsWitnessed'
  BY <1>0, <1>3, ReportsStay
<1>5. NetWitnessed'
  BY <1>0, <1>3, NetStays
<1>6. CASE D!Flag(n, x, "fail") /\ old' = [old EXCEPT ![n][x] = FALSE]
  <2>1. "fail" \in Flags
    BY DEF Flags
  <2>2. /\ flag' \in [D!Nodes -> [Masters -> Flags]]
        /\ state' \in [D!Nodes -> DStates] /\ minority' \in [D!Nodes -> BOOLEAN]
        /\ flag'[n][x] = "fail"
        /\ \A k \in D!Nodes, y \in Masters : k # n \/ y # x => flag'[k][y] = flag[k][y]
        /\ D!OkHasMajority'
    BY <1>0, <1>1, <1>6, <2>1, FlagStep
  <2>3. old' \in [D!Nodes -> [Masters -> BOOLEAN]]
    BY <1>0, <1>1, <1>6 DEF D!TypeOK
  <2>4. D!TypeOK'
    BY <1>0, <1>3, <2>2, <2>3 DEF D!TypeOK, Flags, DStates
  <2>5. FlagsWitnessed'
    BY <1>0, <1>1, <1>2, <1>3, <2>2, FlagsStay
  <2> QED
    BY <2>2, <2>4, <2>5, <1>4, <1>5 DEF DetectInv, Witnessed
<1>7. CASE D!Keep
  <2>1. UNCHANGED <<flag, old, state, minority>>
    BY <1>7 DEF D!Keep
  <2>2. D!TypeOK'
    BY <1>0, <1>3, <2>1 DEF D!TypeOK
  <2>3. FlagsWitnessed' /\ D!OkHasMajority'
    BY <1>0, <1>3, <2>1, FlagsStay, OkStays
  <2> QED
    BY <2>2, <2>3, <1>4, <1>5 DEF DetectInv, Witnessed
<1> QED
  BY <1>3, <1>6, <1>7

-----------------------------------------------------------------------------
(* The theorems                                                            *)

\* Flags, reports and packets always have their witnesses: the inductive invariant of
\* the failure detector, for any masters and slaves.
THEOREM DetectInvariant ==
    ASSUME D!NodesAssumption
    PROVE  D!Spec => []DetectInv
<1>1. D!Init => DetectInv
  BY InitDetect
<1>2. DetectInv /\ [D!Next]_D!vars => DetectInv'
  BY PingTimeoutStep, ReceivePongStep, RejoinDelayStep, SendGossipStep, ExpireReportStep,
     ReceiveGossipStep, ReceiveFailStep, OtherSteps DEF D!Next
<1> QED
  BY <1>1, <1>2, PTL DEF D!Spec

\* Nobody holds a master for FAIL (by markNodeAsFailingIfNeeded, or because it was told)
\* unless a majority of the masters did not get an answer from it themselves, although
\* reports are lost, are delayed, expire, and outlive what they report.
THEOREM FailNeedsMajority ==
    ASSUME D!NodesAssumption
    PROVE  D!Spec => []D!FailHasMajority
<1>1. DetectInv => D!FailHasMajority
  BY DetectCounts DEF DetectInv, Witnessed, FlagsWitnessed, D!FailHasMajority, Major, Witnesses, D!NodesAssumption
<1> QED
  BY <1>1, DetectInvariant, PTL

\* clusterUpdateState and the rejoin delay: a node whose cluster is ok sees a majority of
\* the masters, and holds none for FAIL.
THEOREM OkNeedsMajority ==
    ASSUME D!NodesAssumption
    PROVE  D!Spec => []D!OkHasMajority
<1>1. DetectInv => D!OkHasMajority
  BY DEF DetectInv
<1> QED
  BY <1>1, DetectInvariant, PTL

-----------------------------------------------------------------------------
(* Elections and configuration, for any cluster: nobody knows an epoch that *)
(* is greater than its current one, and a slave serves nothing.              *)

CONSTANTS Node, Slot, Owner0, SlaveOf0, Failed0, Recovers, Pings, Commands, LateAcks, Killed,
          TopEpoch, MaxReboots
VARIABLES view, conf, winners, reboots, doubtful

E == INSTANCE ClusterElection WITH
    disk <- conf, won <- winners, restarts <- reboots, MaxEpoch <- TopEpoch, MaxRestarts <- MaxReboots

\* The table of node n, its file, and a packet are in order.
EpochsInView(v) ==
    /\ \A k \in Node : v.configEpoch[k] <= v.currentEpoch
    /\ v.auth_epoch <= v.currentEpoch
NothingServed(v, n) == v.slaveof[n] # E!None => \A s \in Slot : v.slots[s] # n
GoodView(v, n) == v \in E!Views /\ EpochsInView(v) /\ NothingServed(v, n)
GoodConf(d, n) ==
    /\ d \in E!Confs
    /\ \A k \in Node : d.configEpoch[k] <= d.currentEpoch
    /\ NothingServed(d, n)
GoodPacket(p) ==
    /\ p \in E!Packets /\ p.from # p.to
    /\ p.configEpoch <= p.currentEpoch /\ p.aboutEpoch <= p.currentEpoch
    /\ p.type = "update" => p.about \in Node

ElectInv ==
    /\ view \in [Node -> E!Views] /\ \A n \in Node : GoodView(view[n], n)
    /\ conf \in [Node -> E!Confs] /\ \A n \in Node : GoodConf(conf[n], n)
    /\ \A p \in net : GoodPacket(p)
    /\ winners \subseteq Node \X Nat /\ reboots \in Nat /\ doubtful \subseteq Nat

LEMMA ElectCounts ==
    /\ \A S : E!IsFiniteSet(S) <=> IsFiniteSet(S)
    /\ \A S : E!Max(S) = Max(S)
    /\ \A S : E!Min(S) = CHOOSE x \in S : \A y \in S : x =< y
<1>1. \A S : E!IsFiniteSet(S) <=> IsFiniteSet(S)
  BY DEF E!IsFiniteSet, IsFiniteSet
<1>2. \A S : E!Max(S) = Max(S)
  BY DEF E!Max, Max
<1>3. \A S : E!Min(S) = CHOOSE x \in S : \A y \in S : x =< y
  BY DEF E!Min
<1> QED
  BY <1>1, <1>2, <1>3

\* Of two epochs the greater one.
LEMMA MaxOfTwo ==
    ASSUME NEW a \in Nat, NEW b \in Nat
    PROVE  /\ E!Max({a, b}) \in Nat
           /\ a <= E!Max({a, b}) /\ b <= E!Max({a, b})
           /\ E!Max({a, b}) = a \/ E!Max({a, b}) = b
<1>1. IsFiniteSet({a, b})
  <2>1. IsFiniteSet({a}) /\ IsFiniteSet({b})
    BY FS_Singleton
  <2>2. IsFiniteSet({a} \cup {b}) /\ {a} \cup {b} = {a, b}
    BY <2>1, FS_Union
  <2> QED
    BY <2>2
<1>2. Max({a, b}) \in {a, b} /\ \A q \in {a, b} : Max({a, b}) >= q
  BY <1>1, MaxIsLargest
<1> QED
  BY <1>2, ElectCounts

\* clusterLoadConfig and clusterGetMaxEpoch: the greatest epoch that is known.
LEMMA MaxOfEpochs ==
    ASSUME E!NodesAssumption, NEW f \in [Node -> Nat], NEW c \in Nat
    PROVE  LET m == E!Max({c} \cup {f[n] : n \in Node})
           IN  m \in Nat /\ c <= m /\ \A n \in Node : f[n] <= m
<1> DEFINE S == {c} \cup {f[n] : n \in Node}
<1>1. IsFiniteSet({f[n] : n \in Node})
  <2>1. IsFiniteSet(Node)
    BY ElectCounts DEF E!NodesAssumption
  <2> QED
    BY <2>1, ImageIsFinite
<1>2. IsFiniteSet(S)
  BY <1>1, FS_Singleton, FS_Union
<1>3. Max(S) \in S /\ \A q \in S : Max(S) >= q
  <2>1. S \in SUBSET Nat /\ S # {}
    OBVIOUS
  <2> HIDE DEF S
  <2> QED
    BY <1>2, <2>1, MaxIsLargest
<1> QED
  BY <1>3, ElectCounts

-----------------------------------------------------------------------------
(* Files and packets                                                       *)

LEMMA SaveGood ==
    ASSUME NEW n \in Node, NEW v, GoodView(v, n)
    PROVE  GoodConf(E!clusterSaveConfig(v), n)
BY DEF GoodView, GoodConf, E!clusterSaveConfig, E!Views, E!Confs, EpochsInView, NothingServed

LEMMA LoadGood ==
    ASSUME E!NodesAssumption, NEW n \in Node, NEW d, GoodConf(d, n)
    PROVE  GoodView(E!clusterLoadConfig(d), n)
<1> DEFINE c == E!Max({d.currentEpoch} \cup {d.configEpoch[k] : k \in Node})
<1>1. d.currentEpoch \in Nat /\ d.configEpoch \in [Node -> Nat]
  BY DEF GoodConf, E!Confs
<1>2. c \in Nat /\ \A k \in Node : d.configEpoch[k] <= c
  BY <1>1, MaxOfEpochs
<1> HIDE DEF c
<1>3. E!clusterLoadConfig(d) =
        [currentEpoch |-> c, lastVoteEpoch |-> d.lastVoteEpoch,
         configEpoch |-> d.configEpoch, slaveof |-> d.slaveof, slots |-> d.slots, fail |-> d.fail,
         auth |-> "idle", auth_epoch |-> 0, auth_count |-> 0, manual |-> FALSE, voted |-> {},
         late |-> FALSE]
  BY DEF c, E!clusterLoadConfig
<1> QED
  BY <1>2, <1>3 DEF GoodConf, GoodView, E!Confs, E!Views, EpochsInView, NothingServed

LEMMA PacketGood ==
    ASSUME NEW n \in Node, NEW to \in Node \ {n}, NEW v, GoodView(v, n),
           NEW type \in {"ping", "pong", "update", "request", "ack"}
    PROVE  /\ E!Packet(v, n, to, type) \in E!Packets
           /\ E!Packet(v, n, to, type).from = n /\ E!Packet(v, n, to, type).to = to
           /\ E!Packet(v, n, to, type).type = type
           /\ E!Packet(v, n, to, type).currentEpoch = v.currentEpoch
           /\ E!Packet(v, n, to, type).configEpoch <= v.currentEpoch
           /\ type # "update" => GoodPacket(E!Packet(v, n, to, type))
<1> DEFINE m == IF E!nodeIsMaster(v, n) THEN n ELSE v.slaveof[n]
<1>1. m \in Node /\ v.configEpoch[m] \in Nat /\ v.configEpoch[m] <= v.currentEpoch
      /\ v.currentEpoch \in Nat /\ v.slaveof[n] \in Node \cup {E!None} /\ v.manual \in BOOLEAN
  BY DEF GoodView, E!Views, EpochsInView, E!nodeIsMaster
<1>2. E!SlotsOf(v, m) \in SUBSET Slot
  BY DEF E!SlotsOf
<1>3. E!Packet(v, n, to, type) =
        [type |-> type, from |-> n, to |-> to,
         currentEpoch |-> v.currentEpoch, configEpoch |-> v.configEpoch[m],
         slaveof |-> v.slaveof[n], myslots |-> E!SlotsOf(v, m),
         force |-> type = "request" /\ v.manual,
         about |-> E!None, aboutEpoch |-> 0, aboutSlots |-> {}]
  BY DEF E!Packet
<1> HIDE DEF m
<1> QED
  BY <1>1, <1>2, <1>3 DEF GoodPacket, E!Packets

LEMMA UpdateGood ==
    ASSUME NEW n \in Node, NEW to \in Node \ {n}, NEW v, GoodView(v, n), NEW m \in Node
    PROVE  GoodPacket(E!clusterSendUpdate(v, n, to, m))
<1> DEFINE p == E!Packet(v, n, to, "update")
<1>1. /\ p \in E!Packets /\ p.from = n /\ p.to = to /\ p.type = "update"
      /\ p.currentEpoch = v.currentEpoch /\ p.configEpoch <= v.currentEpoch
  BY PacketGood
<1>2. v.configEpoch[m] \in Nat /\ v.configEpoch[m] <= v.currentEpoch /\ E!SlotsOf(v, m) \in SUBSET Slot
  BY DEF GoodView, E!Views, EpochsInView, E!SlotsOf
<1>3. E!clusterSendUpdate(v, n, to, m) =
        [p EXCEPT !.about = m, !.aboutEpoch = v.configEpoch[m], !.aboutSlots = E!SlotsOf(v, m)]
  BY DEF E!clusterSendUpdate
<1> HIDE DEF p
<1> QED
  BY <1>1, <1>2, <1>3 DEF GoodPacket, E!Packets

LEMMA BroadcastGood ==
    ASSUME NEW n \in Node, NEW v, GoodView(v, n), NEW type \in {"ping", "pong", "request", "ack"}
    PROVE  \A p \in E!clusterBroadcastMessage(v, n, type) : GoodPacket(p)
BY PacketGood DEF E!clusterBroadcastMessage

\* What a step of node n does: a table in order, its file and what it sends.
LEMMA StepGood ==
    ASSUME ElectInv, NEW n \in Node, NEW v, GoodView(v, n), NEW forced \in BOOLEAN,
           NEW rest \in SUBSET net, NEW out, \A p \in out : GoodPacket(p),
           E!Step(n, v, forced, rest, out),
           winners' \subseteq Node \X Nat, reboots' \in Nat, doubtful' \subseteq Nat
    PROVE  ElectInv'
<1>1. view' = [view EXCEPT ![n] = v] /\ v \in E!Views
  BY DEF E!Step, GoodView
<1>2. view' \in [Node -> E!Views] /\ \A k \in Node : GoodView(view'[k], k)
  BY <1>1 DEF ElectInv
<1>3. E!clusterSaveConfig(v) \in E!Confs /\ GoodConf(E!clusterSaveConfig(v), n)
  BY SaveGood DEF GoodConf
<1>4. conf' = [conf EXCEPT ![n] = E!clusterSaveConfig(v)] \/ conf' = conf
  BY DEF E!Step, E!Save, ElectInv
<1>5. conf' \in [Node -> E!Confs] /\ \A k \in Node : GoodConf(conf'[k], k)
  BY <1>3, <1>4 DEF ElectInv
<1>6. net' \subseteq rest \cup out
  BY DEF E!Step, E!Send
<1>7. \A p \in net' : GoodPacket(p)
  BY <1>6 DEF ElectInv
<1> QED
  BY <1>2, <1>5, <1>7 DEF ElectInv, GoodView, GoodConf, GoodPacket, EpochsInView, NothingServed

\* ... and when it sends nothing.
LEMMA StepAloneGood ==
    ASSUME ElectInv, NEW n \in Node, NEW v, GoodView(v, n), NEW forced \in BOOLEAN,
           NEW rest \in SUBSET net, E!Step(n, v, forced, rest, {}),
           winners' \subseteq Node \X Nat, reboots' \in Nat, doubtful' \subseteq Nat
    PROVE  ElectInv'
<1> DEFINE out == {}
<1>1. E!Step(n, v, forced, rest, out) /\ \A p \in out : GoodPacket(p)
  OBVIOUS
<1> HIDE DEF out
<1> QED
  BY <1>1, StepGood

-----------------------------------------------------------------------------
(* What packets change                                                     *)

LEMMA SeeHeaderGood ==
    ASSUME NEW n \in Node, NEW v, GoodView(v, n), NEW p, GoodPacket(p)
    PROVE  /\ GoodView(E!SeeHeader(v, p), n)
           /\ p.currentEpoch <= E!SeeHeader(v, p).currentEpoch
           /\ E!SeeHeader(v, p).slaveof = v.slaveof
<1> DEFINE c == E!Max({v.currentEpoch, p.currentEpoch})
           e == E!Max({v.configEpoch[p.from], p.configEpoch})
<1>1. /\ v \in E!Views /\ p.from \in Node
      /\ v.currentEpoch \in Nat /\ p.currentEpoch \in Nat /\ p.configEpoch \in Nat
      /\ v.configEpoch \in [Node -> Nat] /\ v.configEpoch[p.from] \in Nat
      /\ v.auth_epoch \in Nat /\ v.auth_epoch <= v.currentEpoch
      /\ \A k \in Node : v.configEpoch[k] <= v.currentEpoch
      /\ p.configEpoch <= p.currentEpoch
  BY DEF GoodView, GoodPacket, EpochsInView, E!Views, E!Packets
<1>2. c \in Nat /\ v.currentEpoch <= c /\ p.currentEpoch <= c
  BY <1>1, MaxOfTwo
<1>3. e \in Nat /\ (e = v.configEpoch[p.from] \/ e = p.configEpoch)
  BY <1>1, MaxOfTwo
<1> DEFINE w == E!SeeHeader(v, p)
           f == [v.configEpoch EXCEPT ![p.from] = e]
<1>4. w = [v EXCEPT !.currentEpoch = c, !.configEpoch = f]
  BY DEF E!SeeHeader
<1> HIDE DEF c, e, w
<1>5. f \in [Node -> Nat] /\ \A k \in Node : f[k] <= c
  BY <1>1, <1>2, <1>3
<1> HIDE DEF f
<1>6. /\ w \in E!Views /\ w.currentEpoch = c /\ w.configEpoch = f
      /\ w.auth_epoch = v.auth_epoch /\ w.slaveof = v.slaveof /\ w.slots = v.slots
  BY <1>1, <1>2, <1>4, <1>5 DEF E!Views
<1>7. EpochsInView(w) /\ NothingServed(w, n)
  BY <1>1, <1>2, <1>5, <1>6 DEF EpochsInView, GoodView, NothingServed
<1> QED
  BY <1>2, <1>6, <1>7 DEF GoodView, w

LEMMA SeeRoleGood ==
    ASSUME E!NodesAssumption, NEW n \in Node, NEW v, GoodView(v, n), NEW p, GoodPacket(p), p.to = n
    PROVE  GoodView(E!SeeRole(v, p), n)
<1>1. /\ v \in E!Views /\ p.from \in Node /\ p.from # n /\ p.slaveof \in Node \cup {E!None}
  BY DEF GoodView, GoodPacket, E!Packets
<1> DEFINE S == [s \in Slot |-> IF v.slots[s] = p.from /\ E!nodeIsMaster(v, p.from)
                               THEN E!None ELSE v.slots[s]]
<1>2. /\ S \in [Slot -> Node \cup {E!None}]
      /\ \A s \in Slot : S[s] = n => v.slots[s] = n
  BY <1>1 DEF E!Views, E!NodesAssumption
<1> DEFINE w == E!SeeRole(v, p)
           M == [v.slaveof EXCEPT ![p.from] = p.slaveof]
<1>3. M \in [Node -> Node \cup {E!None}] /\ M[n] = v.slaveof[n]
  BY <1>1 DEF E!Views
<1>4. w = [v EXCEPT !.slaveof = M] \/ w = [v EXCEPT !.slots = S, !.slaveof = M]
  BY DEF E!SeeRole, E!clusterSetNodeAsMaster
<1> HIDE DEF S, M, w
<1>5. /\ w \in E!Views /\ w.currentEpoch = v.currentEpoch /\ w.configEpoch = v.configEpoch
      /\ w.auth_epoch = v.auth_epoch /\ w.slaveof = M /\ (w.slots = v.slots \/ w.slots = S)
  BY <1>1, <1>2, <1>3, <1>4 DEF E!Views
<1>6. EpochsInView(w)
  BY <1>5 DEF GoodView, EpochsInView
<1>7. NothingServed(w, n)
  BY <1>2, <1>3, <1>5 DEF GoodView, NothingServed
<1> QED
  BY <1>5, <1>6, <1>7 DEF GoodView, w

\* clusterUpdateSlotsConfigWith: a master that lost its last slot follows the winner, and
\* it serves nothing then.
LEMMA UpdateSlotsGood ==
    ASSUME E!NodesAssumption, NEW n \in Node, NEW v, GoodView(v, n), NEW snd \in Node, NEW ep, NEW claim \in SUBSET Slot
    PROVE  LET w == E!clusterUpdateSlotsConfigWith(v, n, snd, ep, claim)
           IN  GoodView(w, n) /\ w.slots \in [Slot -> Node \cup {E!None}]
<1>1. CASE snd = n
  BY <1>1 DEF E!clusterUpdateSlotsConfigWith, GoodView, E!Views
<1>2. CASE snd # n
  <2> DEFINE cur == IF E!nodeIsMaster(v, n) THEN n ELSE v.slaveof[n]
             taken == {s \in claim : v.slots[s] # snd
                     /\ (v.slots[s] = E!None \/ v.configEpoch[v.slots[s]] < ep)}
             S == [s \in Slot |-> IF s \in taken THEN snd ELSE v.slots[s]]
             w == [v EXCEPT !.slots = S]
             r == E!clusterUpdateSlotsConfigWith(v, n, snd, ep, claim)
  <2>1. v \in E!Views /\ NothingServed(v, n)
    BY DEF GoodView
  <2>2. S \in [Slot -> Node \cup {E!None}] /\ \A s \in Slot : S[s] = n => v.slots[s] = n
    BY <1>2, <2>1 DEF E!Views
  <2>3. r = IF taken \cap E!SlotsOf(v, cur) # {} /\ E!SlotsOf(w, cur) = {}
            THEN E!clusterSetMaster(w, n, snd) ELSE w
    BY <1>2 DEF E!clusterUpdateSlotsConfigWith
  <2>4. n # E!None /\ snd # E!None
    BY DEF E!NodesAssumption
  <2> HIDE DEF S
  <2>5. w \in E!Views /\ w.slots = S /\ w.slaveof = v.slaveof
    BY <2>1, <2>2 DEF E!Views
  <2>6. GoodView(w, n)
    BY <2>1, <2>2, <2>5 DEF GoodView, EpochsInView, NothingServed, E!Views
  <2>7. CASE r = w
    BY <2>5, <2>6, <2>7, <2>2
  <2>8. CASE r = E!clusterSetMaster(w, n, snd) /\ E!SlotsOf(w, cur) = {}
    <3>1. \A s \in Slot : S[s] # n
      <4>1. CASE E!nodeIsMaster(v, n)
        BY <2>8, <2>5, <4>1 DEF E!SlotsOf
      <4>2. CASE ~E!nodeIsMaster(v, n)
        BY <2>1, <2>2, <4>2 DEF NothingServed, E!nodeIsMaster
      <4> QED
        BY <4>1, <4>2
    <3>2. r = [w EXCEPT !.slaveof = [@ EXCEPT ![n] = snd], !.manual = FALSE]
      BY <2>8 DEF E!clusterSetMaster
    <3> HIDE DEF w, r, cur, taken
    <3>3. /\ r \in E!Views /\ r.slots = S
          /\ r.configEpoch = w.configEpoch /\ r.currentEpoch = w.currentEpoch
          /\ r.auth_epoch = w.auth_epoch
      BY <2>2, <2>5, <3>2 DEF E!Views
    <3>4. GoodView(r, n)
      BY <2>6, <3>1, <3>3 DEF GoodView, EpochsInView, NothingServed
    <3> QED
      BY <3>3, <3>4, <2>2 DEF r
  <2> QED
    BY <2>3, <2>7, <2>8
<1> QED
  BY <1>1, <1>2

LEMMA CollisionGood ==
    ASSUME NEW n \in Node, NEW v, GoodView(v, n), NEW p, GoodPacket(p)
    PROVE  GoodView(E!clusterHandleConfigEpochCollision(v, n, p), n)
<1> DEFINE r == E!clusterHandleConfigEpochCollision(v, n, p)
           e == v.currentEpoch + 1
<1>1. CASE r = v
  BY <1>1
<1>2. CASE r = [v EXCEPT !.currentEpoch = e, !.configEpoch = [@ EXCEPT ![n] = e]]
  <2>1. v \in E!Views /\ v.currentEpoch \in Nat /\ v.configEpoch \in [Node -> Nat] /\ e \in Nat
        /\ v.auth_epoch \in Nat
    BY DEF GoodView, E!Views
  <2> HIDE DEF r
  <2>2. /\ r \in E!Views /\ r.currentEpoch = e /\ r.configEpoch = [v.configEpoch EXCEPT ![n] = e]
        /\ r.auth_epoch = v.auth_epoch /\ r.slaveof = v.slaveof /\ r.slots = v.slots
    BY <1>2, <2>1 DEF E!Views
  <2> QED
    BY <2>1, <2>2 DEF GoodView, EpochsInView, NothingServed, r
<1> QED
  BY <1>1, <1>2 DEF E!clusterHandleConfigEpochCollision

\* What is told of is a slot that somebody serves.
LEMMA DeprecatedHaveOwner ==
    ASSUME E!NodesAssumption, NEW n \in Node, NEW v, GoodView(v, n), NEW p, GoodPacket(p),
           E!DeprecatedClaims(v, p) # {}
    PROVE  v.slots[E!Min(E!DeprecatedClaims(v, p))] \in Node
<1> DEFINE S == E!DeprecatedClaims(v, p)
<1>1. S \in SUBSET Slot /\ \A s \in S : v.slots[s] # E!None
  BY DEF E!DeprecatedClaims, GoodPacket, E!Packets
<1> HIDE DEF S
<1>2. S \in SUBSET Nat /\ S # {}
  BY <1>1 DEF E!NodesAssumption, S
<1>3. PICK m \in S : \A q \in S : m <= q
  BY <1>2, Smallest
<1>4. E!Min(S) \in S
  BY <1>3, ElectCounts
<1> QED
  BY <1>1, <1>4 DEF GoodView, E!Views, S

LEMMA HeartbeatGood ==
    ASSUME E!NodesAssumption, NEW n \in Node, NEW v, GoodView(v, n), NEW p, GoodPacket(p),
           p.to = n
    PROVE  /\ GoodView(E!ProcessHeartbeat(v, n, p).v, n)
           /\ \A q \in E!ProcessHeartbeat(v, n, p).out : GoodPacket(q)
<1> DEFINE h  == E!SeeHeader(v, p)
           v1 == E!SeeRole(h, p)
           m  == IF E!nodeIsMaster(v1, p.from) THEN p.from ELSE v1.slaveof[p.from]
           dirty == E!SlotsOf(v1, m) # p.myslots
           v2 == IF dirty /\ E!nodeIsMaster(v1, p.from)
                 THEN E!clusterUpdateSlotsConfigWith(v1, n, p.from, p.configEpoch, p.myslots)
                 ELSE v1
           dep == IF dirty THEN E!DeprecatedClaims(v2, p) ELSE {}
           v3 == E!clusterHandleConfigEpochCollision(v2, n, p)
           pongs == IF p.type = "ping" THEN {E!Packet(h, n, p.from, "pong")} ELSE {}
           updates == {E!clusterSendUpdate(v2, n, p.from, v2.slots[E!Min(dep)]) : x \in dep}
<1>1. p.from \in Node \ {n} /\ p.myslots \in SUBSET Slot
  BY DEF GoodPacket, E!Packets
<1>2. GoodView(h, n)
  BY SeeHeaderGood
<1>3. GoodView(v1, n)
  <2> HIDE DEF h
  <2> QED
    BY <1>2, SeeRoleGood
<1>4. GoodView(v2, n)
  <2> HIDE DEF v1, m
  <2> QED
    BY <1>1, <1>3, UpdateSlotsGood
<1>5. GoodView(v3, n)
  <2> HIDE DEF v2
  <2> QED
    BY <1>4, CollisionGood
<1>6. \A q \in pongs : GoodPacket(q)
  <2> HIDE DEF h
  <2> QED
    BY <1>1, <1>2, PacketGood
<1>7. \A q \in updates : GoodPacket(q)
  <2>1. SUFFICES ASSUME dep # {}
                 PROVE  GoodPacket(E!clusterSendUpdate(v2, n, p.from, v2.slots[E!Min(dep)]))
    OBVIOUS
  <2> HIDE DEF v2
  <2>2. dep = E!DeprecatedClaims(v2, p)
    BY <2>1
  <2>3. v2.slots[E!Min(dep)] \in Node
    BY <1>4, <2>1, <2>2, DeprecatedHaveOwner
  <2> HIDE DEF dep
  <2> QED
    BY <1>1, <1>4, <2>3, UpdateGood
<1>8. E!ProcessHeartbeat(v, n, p) = [v |-> v3, out |-> pongs \cup updates]
  BY DEF E!ProcessHeartbeat
<1> HIDE DEF v3, pongs, updates
<1> QED
  BY <1>5, <1>6, <1>7, <1>8

LEMMA UpdateProcessedGood ==
    ASSUME E!NodesAssumption, NEW n \in Node, NEW v, GoodView(v, n), NEW p, GoodPacket(p),
           p.type = "update"
    PROVE  GoodView(E!ProcessUpdate(v, n, p), n)
<1> DEFINE v1 == E!SeeHeader(v, p)
           M == [v1.slaveof EXCEPT ![p.about] = E!None]
           f == [v1.configEpoch EXCEPT ![p.about] = p.aboutEpoch]
           v2 == [E!clusterSetNodeAsMaster(v1, p.about) EXCEPT !.configEpoch[p.about] = p.aboutEpoch]
<1>1. GoodView(v1, n) /\ p.currentEpoch <= v1.currentEpoch
  BY SeeHeaderGood
<1>2. /\ p.about \in Node /\ p.aboutEpoch \in Nat /\ p.aboutEpoch <= p.currentEpoch
      /\ p.currentEpoch \in Nat /\ p.aboutSlots \in SUBSET Slot
  BY DEF GoodPacket, E!Packets
<1>3. E!ProcessUpdate(v, n, p) =
        IF v1.configEpoch[p.about] >= p.aboutEpoch THEN v1
        ELSE E!clusterUpdateSlotsConfigWith(v2, n, p.about, p.aboutEpoch, p.aboutSlots)
  BY DEF E!ProcessUpdate
<1> HIDE DEF v1
<1>4. /\ v1 \in E!Views /\ v1.slaveof \in [Node -> Node \cup {E!None}]
      /\ v1.configEpoch \in [Node -> Nat] /\ v1.currentEpoch \in Nat
      /\ \A k \in Node : v1.configEpoch[k] <= v1.currentEpoch
  BY <1>1 DEF GoodView, E!Views, EpochsInView
<1>5. /\ M \in [Node -> Node \cup {E!None}] /\ (M[n] # E!None => M[n] = v1.slaveof[n])
      /\ f \in [Node -> Nat] /\ \A k \in Node : f[k] <= v1.currentEpoch
  BY <1>1, <1>2, <1>4
<1>6. v2 = [v1 EXCEPT !.slaveof = M, !.configEpoch = f]
  <2>1. E!clusterSetNodeAsMaster(v1, p.about) = [v1 EXCEPT !.slaveof = M]
    BY DEF E!clusterSetNodeAsMaster
  <2> HIDE DEF M
  <2>2. v2 = [[v1 EXCEPT !.slaveof = M] EXCEPT !.configEpoch = [@ EXCEPT ![p.about] = p.aboutEpoch]]
    BY <2>1
  <2> QED
    BY <1>4, <2>2 DEF E!Views
<1> HIDE DEF M, f, v2
<1>7. /\ v2 \in E!Views /\ v2.currentEpoch = v1.currentEpoch /\ v2.configEpoch = f
      /\ v2.auth_epoch = v1.auth_epoch /\ v2.slaveof = M /\ v2.slots = v1.slots
  BY <1>4, <1>5, <1>6 DEF E!Views
<1>8. GoodView(v2, n)
  BY <1>1, <1>5, <1>7 DEF GoodView, EpochsInView, NothingServed
<1> QED
  BY <1>1, <1>2, <1>3, <1>8, UpdateSlotsGood

-----------------------------------------------------------------------------
(* Failovers                                                               *)

\* The slave is a master now: it may serve what its master served.
LEMMA ReplaceGood ==
    ASSUME E!NodesAssumption, NEW n \in Node, NEW v, GoodView(v, n)
    PROVE  GoodView(E!clusterFailoverReplaceYourMaster(v, n), n)
<1> DEFINE dep == v.slaveof[n]
           S == [s \in Slot |-> IF v.slots[s] = dep THEN n ELSE v.slots[s]]
           M == [v.slaveof EXCEPT ![n] = E!None]
           w == E!clusterFailoverReplaceYourMaster(v, n)
<1>1. v \in E!Views
  BY DEF GoodView
<1>2. S \in [Slot -> Node \cup {E!None}] /\ M \in [Node -> Node \cup {E!None}] /\ M[n] = E!None
  BY <1>1 DEF E!Views
<1>3. w = [[v EXCEPT !.slaveof = M] EXCEPT !.slots = S, !.manual = FALSE]
  BY DEF E!clusterFailoverReplaceYourMaster, E!clusterSetNodeAsMaster
<1> HIDE DEF S, M, w
<1>4. /\ w \in E!Views /\ w.currentEpoch = v.currentEpoch /\ w.configEpoch = v.configEpoch
      /\ w.auth_epoch = v.auth_epoch /\ w.slaveof = M
  BY <1>1, <1>2, <1>3 DEF E!Views
<1> QED
  BY <1>2, <1>4 DEF GoodView, EpochsInView, NothingServed, w

LEMMA BumpGood ==
    ASSUME NEW n \in Node, NEW v, GoodView(v, n)
    PROVE  GoodView(E!clusterBumpConfigEpochWithoutConsensus(v, n), n)
<1> DEFINE r == E!clusterBumpConfigEpochWithoutConsensus(v, n)
           e == v.currentEpoch + 1
           f == [v.configEpoch EXCEPT ![n] = e]
<1>1. CASE r = v
  BY <1>1
<1>2. CASE r = [v EXCEPT !.currentEpoch = e, !.configEpoch = f]
  <2>1. /\ v \in E!Views /\ v.currentEpoch \in Nat /\ v.configEpoch \in [Node -> Nat]
        /\ v.auth_epoch \in Nat
    BY DEF GoodView, E!Views
  <2>2. e \in Nat /\ f \in [Node -> Nat] /\ f[n] = e /\ \A k \in Node \ {n} : f[k] = v.configEpoch[k]
    BY <2>1
  <2> HIDE DEF r, f
  <2>3. /\ r \in E!Views /\ r.currentEpoch = e /\ r.configEpoch = f
        /\ r.auth_epoch = v.auth_epoch /\ r.slaveof = v.slaveof /\ r.slots = v.slots
    BY <1>2, <2>1, <2>2 DEF E!Views
  <2>4. \A k \in Node : f[k] <= e
    BY <2>1, <2>2 DEF GoodView, EpochsInView
  <2> QED
    BY <2>1, <2>3, <2>4 DEF GoodView, EpochsInView, NothingServed, r
<1> QED
  BY <1>1, <1>2 DEF E!clusterBumpConfigEpochWithoutConsensus

-----------------------------------------------------------------------------
(* The steps                                                               *)

LEMMA InitElect ==
    ASSUME E!NodesAssumption, E!Init
    PROVE  ElectInv
<1>1. ASSUME NEW n \in Node PROVE GoodConf(E!Disk0(n), n)
  <2> DEFINE e == [k \in Node |-> IF SlaveOf0[k] = E!None THEN k
                                  ELSE IF k = n THEN 0 ELSE SlaveOf0[k]]
             c == E!Max({e[k] : k \in Node})
  <2>1. e \in [Node -> Nat]
    BY DEF E!NodesAssumption
  <2>2. c \in Nat /\ \A k \in Node : e[k] <= c
    <3> HIDE DEF e
    <3> DEFINE S == {e[k] : k \in Node}
    <3>1. IsFiniteSet(Node)
      BY ElectCounts DEF E!NodesAssumption
    <3>2. IsFiniteSet(S)
      BY <2>1, <3>1, ImageIsFinite
    <3>3. S \in SUBSET Nat /\ S # {}
      BY <2>1
    <3>4. Max(S) \in S /\ \A q \in S : Max(S) >= q
      <4> HIDE DEF S
      <4> QED
        BY <3>2, <3>3, MaxIsLargest
    <3>5. c = Max(S)
      BY ElectCounts
    <3> QED
      BY <2>1, <3>4, <3>5
  <2>3. E!Disk0(n) = [currentEpoch |-> c, lastVoteEpoch |-> 0, configEpoch |-> e,
                      slaveof |-> SlaveOf0, slots |-> Owner0, fail |-> Failed0 \ {n}]
    BY DEF E!Disk0
  <2> HIDE DEF c, e
  <2>4. E!Disk0(n) \in E!Confs
    BY <2>1, <2>2, <2>3 DEF E!Confs, E!NodesAssumption
  <2>5. NothingServed(E!Disk0(n), n)
    BY <2>3 DEF NothingServed, E!NodesAssumption
  <2> QED
    BY <2>2, <2>3, <2>4, <2>5 DEF GoodConf
<1>2. ASSUME NEW n \in Node PROVE GoodView(E!clusterLoadConfig(E!Disk0(n)), n)
  BY <1>1, LoadGood
<1>3. view \in [Node -> E!Views] /\ \A n \in Node : GoodView(view[n], n)
  BY <1>2 DEF E!Init, GoodView
<1>4. conf \in [Node -> E!Confs] /\ \A n \in Node : GoodConf(conf[n], n)
  BY <1>1 DEF E!Init, GoodConf
<1> QED
  BY <1>3, <1>4 DEF E!Init, ElectInv

LEMMA PacketSteps ==
    ASSUME E!NodesAssumption, ElectInv, NEW p \in net,
           E!ReceiveHeartbeat(p) \/ E!ReceiveUpdate(p) \/ E!ReceiveAuthRequest(p)
              \/ E!ReceiveAuthAck(p)
    PROVE  ElectInv'
<1> DEFINE n == p.to
           v == view[n]
           h == E!SeeHeader(v, p)
<1>1. GoodPacket(p) /\ n \in Node /\ p.from \in Node \ {n}
  BY DEF ElectInv, GoodPacket, E!Packets
<1>2. GoodView(v, n) /\ winners \subseteq Node \X Nat /\ reboots \in Nat /\ doubtful \subseteq Nat
  BY <1>1 DEF ElectInv
<1>3. GoodView(h, n) /\ h.slaveof = v.slaveof
  BY <1>1, <1>2, SeeHeaderGood
<1>4. CASE E!ReceiveHeartbeat(p)
  <2> DEFINE r == E!ProcessHeartbeat(v, n, p)
  <2>1. E!Step(n, r.v, FALSE, net \ {p}, r.out) /\ UNCHANGED <<winners, reboots, doubtful>>
    BY <1>4 DEF E!ReceiveHeartbeat
  <2>2. GoodView(r.v, n) /\ \A q \in r.out : GoodPacket(q)
    BY <1>1, <1>2, HeartbeatGood
  <2> HIDE DEF r, n
  <2> QED
    BY <1>1, <1>2, <2>1, <2>2, StepGood
<1>5. CASE E!ReceiveUpdate(p)
  <2> DEFINE w == E!ProcessUpdate(v, n, p)
  <2>1. p.type = "update" /\ E!Step(n, w, FALSE, net \ {p}, {}) /\ UNCHANGED <<winners, reboots, doubtful>>
    BY <1>5 DEF E!ReceiveUpdate
  <2>2. GoodView(w, n)
    BY <1>1, <1>2, <2>1, UpdateProcessedGood
  <2> HIDE DEF w, n
  <2> QED
    BY <1>1, <1>2, <2>1, <2>2, StepAloneGood
<1>6. CASE E!ReceiveAuthRequest(p)
  <2> DEFINE w == [h EXCEPT !.lastVoteEpoch = h.currentEpoch,
                            !.voted = @ \cup {h.slaveof[p.from]}]
             ack == E!Packet(h, n, p.from, "ack")
  <2>1. UNCHANGED <<winners, reboots, doubtful>>
    BY <1>6 DEF E!ReceiveAuthRequest
  <2>2. \/ E!Grants(h, n, p) /\ E!Step(n, w, FALSE, net \ {p}, {ack})
        \/ E!Step(n, h, FALSE, net \ {p}, {})
    BY <1>6 DEF E!ReceiveAuthRequest
  <2>3. GoodPacket(ack)
    <3> HIDE DEF h, n
    <3> QED
      BY <1>1, <1>3, PacketGood
  <2>4. ASSUME E!Grants(h, n, p) PROVE GoodView(w, n)
    <3> HIDE DEF h
    <3>1. h \in E!Views /\ h.slaveof[p.from] \in Node
      BY <1>1, <1>3, <2>4 DEF GoodView, E!Views, E!Grants, E!nodeIsMaster
    <3>2. /\ w \in E!Views /\ w.currentEpoch = h.currentEpoch /\ w.configEpoch = h.configEpoch
          /\ w.auth_epoch = h.auth_epoch /\ w.slaveof = h.slaveof /\ w.slots = h.slots
      BY <3>1 DEF E!Views
    <3> QED
      BY <1>3, <3>2 DEF GoodView, EpochsInView, NothingServed
  <2> HIDE DEF h, w, ack, n
  <2>5. CASE E!Grants(h, n, p) /\ E!Step(n, w, FALSE, net \ {p}, {ack})
    BY <1>1, <1>2, <2>1, <2>3, <2>4, <2>5, StepGood
  <2>6. CASE E!Step(n, h, FALSE, net \ {p}, {})
    BY <1>1, <1>2, <1>3, <2>1, <2>6, StepAloneGood
  <2> QED
    BY <2>2, <2>5, <2>6
<1>7. CASE E!ReceiveAuthAck(p)
  <2> DEFINE counts == p.from \in E!Voters(h) /\ p.currentEpoch >= h.auth_epoch
             c == h.auth_count + IF counts THEN 1 ELSE 0
             b == h.late \/ (counts /\ h.auth # "sent")
             w == [h EXCEPT !.auth_count = c, !.late = b]
  <2>1. E!Step(n, w, FALSE, net \ {p}, {}) /\ UNCHANGED <<winners, reboots, doubtful>>
    BY <1>7 DEF E!ReceiveAuthAck
  <2> HIDE DEF h, counts
  <2>2. h \in E!Views /\ c \in Nat
    BY <1>3 DEF GoodView, E!Views
  <2>5. b \in BOOLEAN
    BY Zenon
  <2> HIDE DEF c, b
  <2>3. /\ w \in E!Views /\ w.currentEpoch = h.currentEpoch /\ w.configEpoch = h.configEpoch
        /\ w.auth_epoch = h.auth_epoch /\ w.slaveof = h.slaveof /\ w.slots = h.slots
    BY <2>2, <2>5 DEF E!Views
  <2>4. GoodView(w, n)
    BY <1>3, <2>3 DEF GoodView, EpochsInView, NothingServed
  <2> HIDE DEF w, n
  <2> QED
    BY <1>1, <1>2, <2>1, <2>4, StepAloneGood
<1> QED
  BY <1>4, <1>5, <1>6, <1>7

\* A step that changes neither roles, slots nor epochs.
LEMMA SameConfigGood ==
    ASSUME NEW n \in Node, NEW v, GoodView(v, n), NEW w \in E!Views,
           w.currentEpoch = v.currentEpoch, w.configEpoch = v.configEpoch,
           w.auth_epoch = v.auth_epoch, w.slaveof = v.slaveof, w.slots = v.slots
    PROVE  GoodView(w, n)
BY DEF GoodView, EpochsInView, NothingServed

LEMMA PingAndRestart ==
    ASSUME E!NodesAssumption, ElectInv,
           \/ \E n, k \in Node : E!clusterSendPing(n, k)
           \/ \E n \in Node : E!Restart(n)
           \/ UNCHANGED E!vars
    PROVE  ElectInv'
<1>1. CASE \E n, k \in Node : E!clusterSendPing(n, k)
  <2>1. PICK n \in Node, k \in Node : E!clusterSendPing(n, k)
    BY <1>1
  <2>2. n # k /\ net' = net \cup {E!Packet(view[n], n, k, "ping")}
        /\ UNCHANGED <<view, conf, winners, reboots, doubtful>>
    BY <2>1 DEF E!clusterSendPing
  <2>3. GoodView(view[n], n)
    BY DEF ElectInv
  <2>4. GoodPacket(E!Packet(view[n], n, k, "ping"))
    BY <2>2, <2>3, PacketGood
  <2>5. \A p \in net' : GoodPacket(p)
    BY <2>2, <2>4 DEF ElectInv
  <2> QED
    BY <2>2, <2>5 DEF ElectInv, GoodView, GoodConf, GoodPacket, EpochsInView, NothingServed
<1>2. CASE \E n \in Node : E!Restart(n)
  <2>1. PICK n \in Node : E!Restart(n)
    BY <1>2
  <2> DEFINE w == E!clusterLoadConfig(conf[n])
  <2>2. /\ view' = [view EXCEPT ![n] = w] /\ reboots' = reboots + 1
        /\ doubtful' = doubtful \cup (conf[n].lastVoteEpoch + 1 .. view[n].lastVoteEpoch)
        /\ UNCHANGED <<conf, net, winners>>
    BY <2>1 DEF E!Restart
  <2>3. GoodView(w, n)
    BY LoadGood DEF ElectInv
  <2> HIDE DEF w
  <2>4. view' \in [Node -> E!Views] /\ \A k \in Node : GoodView(view'[k], k)
    BY <2>2, <2>3 DEF ElectInv, GoodView
  <2>5. reboots' \in Nat
    BY <2>2 DEF ElectInv
  <2>6. doubtful' \subseteq Nat
    <3>1. conf[n].lastVoteEpoch \in Nat /\ view[n].lastVoteEpoch \in Nat /\ doubtful \subseteq Nat
      BY DEF ElectInv, E!Views, E!Confs
    <3> DEFINE uncast == conf[n].lastVoteEpoch + 1 .. view[n].lastVoteEpoch
    <3>2. uncast \subseteq Nat
      BY <3>1
    <3>3. doubtful' = doubtful \cup uncast
      BY <2>2
    <3> HIDE DEF uncast
    <3> QED
      BY <3>1, <3>2, <3>3
  <2> QED
    BY <2>2, <2>4, <2>5, <2>6 DEF ElectInv, GoodView, GoodConf, GoodPacket, EpochsInView, NothingServed
<1>3. CASE UNCHANGED E!vars
  BY <1>3 DEF E!vars, ElectInv, GoodView, GoodConf, GoodPacket, EpochsInView, NothingServed
<1> QED
  BY <1>1, <1>2, <1>3

LEMMA FlagAndTimerSteps ==
    ASSUME E!NodesAssumption, ElectInv, NEW n \in Node,
           \/ \E k \in Node : E!MarkFail(n, k) \/ E!ClearFail(n, k)
           \/ E!ScheduleElection(n) \/ E!ElectionExpires(n)
           \/ E!failoverForce(n) \/ E!manualFailoverCheckTimeout(n)
    PROVE  ElectInv'
<1> DEFINE v == view[n]
<1>1. GoodView(v, n) /\ v \in E!Views /\ winners \subseteq Node \X Nat /\ reboots \in Nat /\ doubtful \subseteq Nat
  BY DEF ElectInv, GoodView
<1>2. ASSUME NEW w, E!Step(n, w, FALSE, net, {}), UNCHANGED <<winners, reboots, doubtful>>,
             \/ \E S \in SUBSET Node : w = [v EXCEPT !.fail = S]
             \/ w = [v EXCEPT !.auth = "expired"]
             \/ \E b \in BOOLEAN : w = [v EXCEPT !.manual = b]
      PROVE  ElectInv'
  <2> HIDE DEF v
  <2>1. /\ w \in E!Views /\ w.currentEpoch = v.currentEpoch /\ w.configEpoch = v.configEpoch
        /\ w.auth_epoch = v.auth_epoch /\ w.slaveof = v.slaveof /\ w.slots = v.slots
    <3>1. CASE \E S \in SUBSET Node : w = [v EXCEPT !.fail = S]
      BY <1>1, <3>1 DEF E!Views
    <3>2. CASE w = [v EXCEPT !.auth = "expired"]
      BY <1>1, <3>2 DEF E!Views
    <3>3. CASE \E b \in BOOLEAN : w = [v EXCEPT !.manual = b]
      BY <1>1, <3>3 DEF E!Views
    <3> QED
      BY <1>1, <1>2, <3>1, <3>2, <3>3
  <2>2. GoodView(w, n)
    BY <1>1, <2>1, SameConfigGood
  <2> QED
    BY <1>1, <1>2, <2>2, StepAloneGood
<1>3. CASE \E k \in Node : E!MarkFail(n, k) \/ E!ClearFail(n, k)
  <2>1. PICK k \in Node : E!MarkFail(n, k) \/ E!ClearFail(n, k)
    BY <1>3
  <2>2. v.fail \cup {k} \in SUBSET Node /\ v.fail \ {k} \in SUBSET Node
    BY <1>1 DEF E!Views
  <2>3. UNCHANGED <<winners, reboots, doubtful>>
    BY <2>1 DEF E!MarkFail, E!ClearFail
  <2>4. \/ E!Step(n, [v EXCEPT !.fail = v.fail \cup {k}], FALSE, net, {})
        \/ E!Step(n, [v EXCEPT !.fail = v.fail \ {k}], FALSE, net, {})
    BY <2>1 DEF E!MarkFail, E!ClearFail
  <2> QED
    BY <1>2, <2>2, <2>3, <2>4
<1>4. CASE E!ElectionExpires(n)
  BY <1>2, <1>4 DEF E!ElectionExpires
<1>5. CASE E!failoverForce(n) \/ E!manualFailoverCheckTimeout(n)
  BY <1>2, <1>5 DEF E!failoverForce, E!manualFailoverCheckTimeout
<1>6. CASE E!ScheduleElection(n)
  <2> DEFINE w == [v EXCEPT !.auth = "delayed", !.auth_count = 0, !.late = FALSE]
             out == {E!Packet(v, n, k, "pong") :
                        k \in {k \in Node \ {n} : v.slaveof[k] = v.slaveof[n]}}
  <2>1. E!Step(n, w, FALSE, net, out) /\ UNCHANGED <<winners, reboots, doubtful>>
    BY <1>6 DEF E!ScheduleElection
  <2> HIDE DEF v
  <2>2. \A q \in out : GoodPacket(q)
    BY <1>1, PacketGood
  <2>3. /\ w \in E!Views /\ w.currentEpoch = v.currentEpoch /\ w.configEpoch = v.configEpoch
        /\ w.auth_epoch = v.auth_epoch /\ w.slaveof = v.slaveof /\ w.slots = v.slots
    BY <1>1 DEF E!Views
  <2> HIDE DEF w, out
  <2>4. GoodView(w, n)
    BY <1>1, <2>3, SameConfigGood
  <2> QED
    BY <1>1, <2>1, <2>2, <2>4, StepGood
<1> QED
  BY <1>3, <1>4, <1>5, <1>6

LEMMA RequestStep ==
    ASSUME E!NodesAssumption, ElectInv, NEW n \in Node, E!clusterRequestFailoverAuth(n)
    PROVE  ElectInv'
<1> DEFINE v == view[n]
           e == v.currentEpoch + 1
           w == [v EXCEPT !.auth = "sent", !.currentEpoch = e, !.auth_epoch = e]
           out == E!clusterBroadcastMessage(w, n, "request")
<1>1. GoodView(v, n) /\ v \in E!Views /\ winners \subseteq Node \X Nat /\ reboots \in Nat /\ doubtful \subseteq Nat
  BY DEF ElectInv, GoodView
<1>2. E!Step(n, w, TRUE, net, out) /\ UNCHANGED <<winners, reboots, doubtful>>
  BY DEF E!clusterRequestFailoverAuth
<1> HIDE DEF v
<1>3. v.currentEpoch \in Nat /\ e \in Nat /\ v.configEpoch \in [Node -> Nat]
  BY <1>1 DEF E!Views
<1>4. /\ w \in E!Views /\ w.currentEpoch = e /\ w.configEpoch = v.configEpoch
      /\ w.auth_epoch = e /\ w.slaveof = v.slaveof /\ w.slots = v.slots
  <2> HIDE DEF e
  <2> QED
    BY <1>1, <1>3 DEF E!Views
<1> HIDE DEF w
<1>5. GoodView(w, n)
  BY <1>1, <1>3, <1>4 DEF GoodView, EpochsInView, NothingServed
<1>6. \A q \in out : GoodPacket(q)
  BY <1>5, BroadcastGood
<1> HIDE DEF out
<1> QED
  BY <1>1, <1>2, <1>5, <1>6, StepGood

LEMMA WinStep ==
    ASSUME E!NodesAssumption, ElectInv, NEW n \in Node, E!WinElection(n)
    PROVE  ElectInv'
<1> DEFINE v == view[n]
           e == E!Max({v.configEpoch[n], v.auth_epoch})
           f == [v.configEpoch EXCEPT ![n] = e]
           u == [v EXCEPT !.configEpoch = f]
           w == E!clusterFailoverReplaceYourMaster(u, n)
           out == E!clusterBroadcastMessage(w, n, "pong")
<1>1. /\ GoodView(v, n) /\ v \in E!Views /\ winners \subseteq Node \X Nat /\ reboots \in Nat /\ doubtful \subseteq Nat
      /\ v.configEpoch \in [Node -> Nat] /\ v.configEpoch[n] \in Nat /\ v.auth_epoch \in Nat
  BY DEF ElectInv, GoodView, E!Views
<1>2. /\ E!Step(n, w, TRUE, net, out) /\ UNCHANGED reboots
      /\ winners' = winners \cup {<<n, v.auth_epoch>>}
      /\ doubtful' = doubtful \cup (IF v.late THEN {v.auth_epoch} ELSE {})
  BY DEF E!WinElection
<1> HIDE DEF v
<1>3. e \in Nat /\ (e = v.configEpoch[n] \/ e = v.auth_epoch)
  BY <1>1, MaxOfTwo
<1> HIDE DEF e
<1>4. f \in [Node -> Nat] /\ \A k \in Node : f[k] <= v.currentEpoch
  BY <1>1, <1>3 DEF GoodView, EpochsInView
<1> HIDE DEF f
<1>5. /\ u \in E!Views /\ u.currentEpoch = v.currentEpoch /\ u.configEpoch = f
      /\ u.auth_epoch = v.auth_epoch /\ u.slaveof = v.slaveof /\ u.slots = v.slots
  BY <1>1, <1>4 DEF E!Views
<1> HIDE DEF u
<1>6. GoodView(u, n)
  BY <1>1, <1>4, <1>5 DEF GoodView, EpochsInView, NothingServed
<1>7. GoodView(w, n)
  BY <1>6, ReplaceGood
<1> HIDE DEF w
<1>8. \A q \in out : GoodPacket(q)
  BY <1>7, BroadcastGood
<1>9. winners' \subseteq Node \X Nat
  BY <1>1, <1>2
<1>10. doubtful' \subseteq Nat
  <2> DEFINE odd == IF v.late THEN {v.auth_epoch} ELSE {}
  <2>1. odd \subseteq Nat
    BY <1>1, Zenon
  <2>2. doubtful' = doubtful \cup odd
    BY <1>2
  <2> HIDE DEF odd
  <2> QED
    BY <1>1, <2>1, <2>2
<1> HIDE DEF out
<1> QED
  BY <1>1, <1>2, <1>7, <1>8, <1>9, <1>10, StepGood

LEMMA TakeoverStep ==
    ASSUME E!NodesAssumption, ElectInv, NEW n \in Node, E!failoverTakeover(n)
    PROVE  ElectInv'
<1> DEFINE u == E!clusterBumpConfigEpochWithoutConsensus(view[n], n)
           w == E!clusterFailoverReplaceYourMaster(u, n)
           out == E!clusterBroadcastMessage(w, n, "pong")
<1>1. GoodView(view[n], n) /\ winners \subseteq Node \X Nat /\ reboots \in Nat /\ doubtful \subseteq Nat
  BY DEF ElectInv
<1>2. E!Step(n, w, TRUE, net, out) /\ UNCHANGED <<winners, reboots, doubtful>>
  BY DEF E!failoverTakeover
<1>3. GoodView(u, n)
  BY <1>1, BumpGood
<1> HIDE DEF u
<1>4. GoodView(w, n)
  BY <1>3, ReplaceGood
<1> HIDE DEF w
<1>5. \A q \in out : GoodPacket(q)
  BY <1>4, BroadcastGood
<1> HIDE DEF out
<1> QED
  BY <1>1, <1>2, <1>4, <1>5, StepGood

-----------------------------------------------------------------------------
(* The theorems                                                            *)

\* Tables, files and packets are in order, whoever reboots, is elected, takes over or is
\* told late: the inductive invariant of elections and configuration.
THEOREM ElectionTables ==
    ASSUME E!NodesAssumption
    PROVE  E!Spec => []ElectInv
<1>1. E!Init => ElectInv
  BY InitElect
<1>2. ElectInv /\ [E!Next]_E!vars => ElectInv'
  BY PacketSteps, PingAndRestart, FlagAndTimerSteps, RequestStep, WinStep, TakeoverStep DEF E!Next
<1> QED
  BY <1>1, <1>2, PTL DEF E!Spec

\* The tables have their types.
THEOREM ElectionTyped ==
    ASSUME E!NodesAssumption
    PROVE  E!Spec => []E!TypeOK
<1>1. ElectInv => E!TypeOK
  BY DEF ElectInv, E!TypeOK, GoodPacket
<1> QED
  BY <1>1, ElectionTables, PTL

\* No node knows, in memory or in nodes.conf, a configEpoch greater than its currentEpoch
\* (clusterLoadConfig raises the one to the other, "something that should never happen",
\* cluster.c:269).
THEOREM EpochsNeverAhead ==
    ASSUME E!NodesAssumption
    PROVE  E!Spec => []E!EpochsBehindCurrent
<1>1. ElectInv => E!EpochsBehindCurrent
  BY DEF ElectInv, E!EpochsBehindCurrent, GoodView, GoodConf, EpochsInView
<1> QED
  BY <1>1, ElectionTables, PTL

\* A slave serves no slot in its own table, as clusterSetMaster asserts (cluster.c:3571).
THEOREM SlavesNeverServe ==
    ASSUME E!NodesAssumption
    PROVE  E!Spec => []E!SlavesServeNothing
<1>1. ElectInv => E!SlavesServeNothing
  BY DEF ElectInv, E!SlavesServeNothing, GoodView, NothingServed, E!nodeIsMaster, E!SlotsOf
<1> QED
  BY <1>1, ElectionTables, PTL
===============================================================================
