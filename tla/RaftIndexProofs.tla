--------------------------- MODULE RaftIndexProofs ---------------------------
(***************************************************************************)
(* Type correctness of Raft, and that no heartbeat slices a log out of its *)
(* bounds, for every number of servers and every bound.                    *)
(***************************************************************************)
EXTENDS Raft, TLAPS, SequenceTheorems, WellFoundedInduction

\* A non-empty set of indices has a last one.
LEMMA MaxOfProperties ==
  ASSUME NEW b \in Nat, NEW S, S \subseteq 0 .. b, S # {}
  PROVE  MaxOf(S) \in S /\ \A y \in S : y <= MaxOf(S)
<1> DEFINE T == {b - x : x \in S}
           R == OpToRel(<, Nat)
<1>1. T \subseteq Nat /\ T # {}
  OBVIOUS
<1>2. IsWellFoundedOn(R, Nat)
  BY NatLessThanWellFounded
<1>3. PICK t \in T : \A u \in T : ~ (<<u, t>> \in R)
  <2> HIDE DEF T, R
  <2> QED BY <1>1, <1>2, WFMin
<1>4. \A u \in T : ~ (u < t)
  BY <1>1, <1>3 DEF OpToRel
<1>5. PICK x \in S : t = b - x
  OBVIOUS
<1>6. \A y \in S : y <= x
  BY <1>4, <1>5
<1>7. \E z \in S : \A y \in S : y <= z
  BY <1>6
<1> QED
  BY <1>7 DEF MaxOf

Stage == {"request", "sync", "payload", "reply", "demote", "lost"}
RPC == RequestVoteRPC \cup AppendEntriesRPC

\* What the kind of a call says about its fields.
LEMMA RpcKind ==
  ASSUME NEW m \in RPC
  PROVE  /\ m.kind = "RV" => m \in RequestVoteRPC
         /\ m.kind = "AE" => m \in AppendEntriesRPC
         /\ m.kind \in {"RV", "AE"}
         /\ m.src \in Server /\ m.dst \in Server /\ m.term \in Nat /\ m.by \in Nat
         /\ m.caller \in BOOLEAN /\ m.replyTerm \in Nat
BY DEF RPC, RequestVoteRPC, AppendEntriesRPC

\* A call that moves on, is answered or loses its caller stays a call.
LEMMA RpcMoves ==
  ASSUME NEW m \in RPC
  PROVE  /\ \A a \in Stage : [m EXCEPT !.at = a] \in RPC
         /\ \A t \in Nat : [m EXCEPT !.replyTerm = t] \in RPC
         /\ [m EXCEPT !.caller = FALSE] \in RPC
<1>1. CASE m \in RequestVoteRPC
  BY <1>1 DEF RPC, RequestVoteRPC, Stage
<1>2. CASE m \in AppendEntriesRPC
  BY <1>2 DEF RPC, AppendEntriesRPC, Stage
<1> QED
  BY <1>1, <1>2 DEF RPC

\* Moving on changes nothing else.
LEMMA RpcFields ==
  ASSUME NEW m \in RPC, NEW a, NEW n, n = [m EXCEPT !.at = a]
  PROVE  /\ n.at = a /\ n.kind = m.kind /\ n.src = m.src /\ n.dst = m.dst
         /\ n.term = m.term /\ n.by = m.by /\ n.caller = m.caller /\ n.replyTerm = m.replyTerm
         /\ m.kind = "RV" => n.granted = m.granted
         /\ m.kind = "AE" =>
              /\ n.prevLogIndex = m.prevLogIndex /\ n.prevLogTerm = m.prevLogTerm
              /\ n.entries = m.entries /\ n.success = m.success /\ n.next = m.next
<1>1. CASE m \in RequestVoteRPC
  BY <1>1 DEF RequestVoteRPC
<1>2. CASE m \in AppendEntriesRPC
  BY <1>2 DEF AppendEntriesRPC
<1> QED
  BY <1>1, <1>2 DEF RPC
-----------------------------------------------------------------------------
(* The inductive invariant, in parts that different actions disturb. *)

Disk == [currentTerm : Nat, votedFor : Server \cup {None}, log : Seq(LogEntry)]

PersistentOK ==
  /\ currentTerm \in [Server -> Nat]
  /\ votedFor \in [Server -> Server \cup {None}]
  /\ log \in [Server -> Seq(LogEntry)]
  /\ saved \in [Server -> Disk]

VolatileOK ==
  /\ commitIndex \in [Server -> Nat]
  /\ lastApplied \in [Server -> Nat]
  /\ applied \in [Server -> Seq(Command \cup {None})]

LeadingOK ==
  /\ nextIndex \in [Server -> [Server -> Nat]]
  /\ matchIndex \in [Server -> [Server -> Nat]]

RoutinesOK ==
  /\ phase \in [Server -> {"follower", "candidate", "leader", "exit"}]
  /\ spawned \in [Server -> [{"follower", "candidate"} -> Nat]]

WaitersOK == waiting \in [Server -> Nat] /\ resets \in Nat

EnvironOK == crashes \in Nat /\ panicked \in BOOLEAN

\* The tester has seen all that lastApplied counts, also after a restart.
AppliedOK == panicked \/ \A s \in Server : lastApplied[s] <= Len(applied[s])

\* Every log, in memory and on disk, begins with the sentinel's term.
Rooted(l) == Len(l) >= 1 /\ l[1].term = 0
LogsRooted == \A s \in Server : Rooted(log[s]) /\ Rooted(saved[s].log)

CampaignOK(c) ==
  /\ c \in Campaign
  /\ c.at \in {"beat", "sleep"} => \A t \in Server : nextIndex[c.server][t] >= 1

CampaignsOK == \A c \in campaigns : CampaignOK(c)

\* An append at the root names the root's term, so every log accepts it; a
\* reaction to an append accepts it or names a usable NextIndex.
RpcOK(m) ==
  /\ m \in RPC
  /\ m.kind = "AE" =>
       /\ m.prevLogIndex = 0 => m.prevLogTerm = 0
       /\ m.at \in {"reply", "demote"} /\ m.replyTerm <= m.term =>
            m.success \/ m.next \in 1 .. m.prevLogIndex

RpcsOK == \A m \in rpcs : RpcOK(m)

IndexInv ==
  /\ PersistentOK /\ VolatileOK /\ LeadingOK /\ AppliedOK
  /\ RoutinesOK /\ WaitersOK /\ EnvironOK
  /\ LogsRooted /\ CampaignsOK /\ RpcsOK

\* What the invariant is for.
LEMMA IndexInvImplies == IndexInv => TypeOK /\ NextIndexInRange
<1> SUFFICES ASSUME IndexInv PROVE TypeOK /\ NextIndexInRange
  OBVIOUS
<1>1. campaigns \subseteq Campaign /\ rpcs \subseteq RequestVoteRPC \cup AppendEntriesRPC
  BY DEF IndexInv, CampaignsOK, CampaignOK, RpcsOK, RpcOK, RPC
<1>2. TypeOK
  BY <1>1 DEF IndexInv, PersistentOK, Disk, VolatileOK, LeadingOK, RoutinesOK, WaitersOK,
              EnvironOK, TypeOK
<1>3. NextIndexInRange
  BY DEF IndexInv, CampaignsOK, CampaignOK, RpcsOK, RpcOK, NextIndexInRange
<1> QED
  BY <1>2, <1>3

\* A rooted log has at least its root.
LEMMA RootedLen ==
  ASSUME NEW l \in Seq(LogEntry), Rooted(l)
  PROVE  Len(l) \in Nat /\ Len(l) >= 1
BY DEF Rooted

\* The log Make starts with.
LEMMA SentinelLog == <<Sentinel>> \in Seq(LogEntry) /\ Rooted(<<Sentinel>>)
<1>1. Sentinel \in LogEntry
  BY DEF Sentinel, LogEntry
<1> QED
  BY <1>1 DEF Rooted, Sentinel

\* Make, on empty Persisters, establishes the invariant.
LEMMA IndexInit == Init => IndexInv
<1> SUFFICES ASSUME Init PROVE IndexInv
  OBVIOUS
<1>1. PersistentOK
  <2>1. [currentTerm |-> 0, votedFor |-> None, log |-> <<Sentinel>>] \in Disk
    BY SentinelLog DEF Disk
  <2> QED
    BY <2>1, SentinelLog DEF Init, PersistentOK
<1>2. VolatileOK /\ LeadingOK /\ AppliedOK
  BY DEF Init, VolatileOK, LeadingOK, AppliedOK, NoIndices
<1>3. RoutinesOK /\ WaitersOK /\ EnvironOK
  BY DEF Init, RoutinesOK, WaitersOK, EnvironOK, NoRoutines
<1>4. LogsRooted
  BY SentinelLog DEF Init, LogsRooted
<1>5. CampaignsOK /\ RpcsOK
  BY DEF Init, CampaignsOK, RpcsOK
<1> QED
  BY <1>1, <1>2, <1>3, <1>4, <1>5 DEF IndexInv
-----------------------------------------------------------------------------
(* What leaves a part of the invariant alone. *)

\* A call keeps its part of the invariant as it goes from stage to stage.
LEMMA RpcOKMoves ==
  ASSUME NEW m, RpcOK(m)
  PROVE  /\ \A a \in {"request", "sync", "payload", "lost"} : RpcOK([m EXCEPT !.at = a])
         /\ m.at \in {"reply", "demote"} =>
              RpcOK([m EXCEPT !.at = "reply"]) /\ RpcOK([m EXCEPT !.at = "demote"])
         /\ RpcOK([m EXCEPT !.caller = FALSE])
<1>1. CASE m \in RequestVoteRPC
  BY <1>1, RpcMoves DEF RpcOK, RPC, RequestVoteRPC, Stage
<1>2. CASE m \in AppendEntriesRPC
  <2> DEFINE moved(a) == [m EXCEPT !.at = a]
             cut == [m EXCEPT !.caller = FALSE]
  <2>1. \A a \in Stage :
          /\ moved(a) \in RPC
          /\ moved(a).at = a
          /\ moved(a).prevLogIndex = m.prevLogIndex /\ moved(a).prevLogTerm = m.prevLogTerm
          /\ moved(a).replyTerm = m.replyTerm /\ moved(a).term = m.term
          /\ moved(a).success = m.success /\ moved(a).next = m.next
    BY <1>2, RpcMoves DEF RPC, AppendEntriesRPC
  <2>2. /\ cut \in RPC
        /\ cut.at = m.at
        /\ cut.prevLogIndex = m.prevLogIndex /\ cut.prevLogTerm = m.prevLogTerm
        /\ cut.replyTerm = m.replyTerm /\ cut.term = m.term
        /\ cut.success = m.success /\ cut.next = m.next
    BY <1>2, RpcMoves DEF RPC, AppendEntriesRPC
  <2>3. m.kind = "AE"
    BY <1>2 DEF AppendEntriesRPC
  <2> HIDE DEF moved, cut
  <2>4. \A a \in {"request", "sync", "payload", "lost"} : RpcOK(moved(a))
    BY <2>1, <2>3 DEF RpcOK, Stage
  <2>5. m.at \in {"reply", "demote"} => RpcOK(moved("reply")) /\ RpcOK(moved("demote"))
    BY <2>1, <2>3 DEF RpcOK, Stage
  <2>6. RpcOK(cut)
    BY <2>2, <2>3 DEF RpcOK
  <2> QED
    BY <2>4, <2>5, <2>6 DEF moved, cut
<1> QED
  BY <1>1, <1>2 DEF RpcOK, RPC

\* One call replaced by others that satisfy their part of the invariant.
LEMMA RpcsReplaced ==
  ASSUME RpcsOK, NEW m, NEW new, \A n \in new : RpcOK(n), rpcs' = Replace(rpcs, m, new)
  PROVE  RpcsOK'
BY DEF RpcsOK, Replace

\* Calls that end take nothing from the invariant.
LEMMA RpcsSame ==
  ASSUME RpcsOK, rpcs' \subseteq rpcs
  PROVE  RpcsOK'
BY DEF RpcsOK

\* Nor do elections that end.
LEMMA CampaignsSame ==
  ASSUME CampaignsOK, campaigns' \subseteq campaigns, UNCHANGED nextIndex
  PROVE  CampaignsOK'
BY DEF CampaignsOK, CampaignOK

\* The parts that hold only fields an action leaves alone.
LEMMA Unchanged ==
  ASSUME IndexInv
  PROVE  /\ UNCHANGED persistent => PersistentOK' /\ LogsRooted'
         /\ UNCHANGED volatile => VolatileOK'
         /\ UNCHANGED <<lastApplied, applied, environ>> => AppliedOK'
         /\ UNCHANGED <<volatile, environ>> => AppliedOK'
         /\ UNCHANGED leading => LeadingOK'
         /\ UNCHANGED routines => RoutinesOK'
         /\ UNCHANGED <<waiting, resets>> => WaitersOK'
         /\ UNCHANGED environ => EnvironOK'
         /\ UNCHANGED <<campaigns, nextIndex>> => CampaignsOK'
         /\ UNCHANGED rpcs => RpcsOK'
<1> USE DEF IndexInv
<1>1. UNCHANGED persistent => PersistentOK' /\ LogsRooted'
  BY DEF persistent, PersistentOK, LogsRooted
<1>2. UNCHANGED volatile => VolatileOK'
  BY DEF volatile, VolatileOK
<1>9. UNCHANGED <<lastApplied, applied, environ>> => AppliedOK'
  BY DEF environ, AppliedOK
<1>10. UNCHANGED <<volatile, environ>> => AppliedOK'
  BY DEF volatile, environ, AppliedOK
<1>3. UNCHANGED leading => LeadingOK'
  BY DEF leading, LeadingOK
<1>4. UNCHANGED routines => RoutinesOK'
  BY DEF routines, RoutinesOK
<1>5. UNCHANGED <<waiting, resets>> => WaitersOK'
  BY DEF WaitersOK
<1>6. UNCHANGED environ => EnvironOK'
  BY DEF environ, EnvironOK
<1>7. UNCHANGED <<campaigns, nextIndex>> => CampaignsOK'
  BY DEF CampaignsOK, CampaignOK
<1>8. UNCHANGED rpcs => RpcsOK'
  BY DEF RpcsOK
<1> QED
  BY <1>1, <1>2, <1>3, <1>4, <1>5, <1>6, <1>7, <1>8, <1>9, <1>10

\* phaseChange keeps phases and goroutine counts typed.
LEMMA PhaseChangeOK ==
  ASSUME RoutinesOK, NEW s \in Server, NEW to \in {"follower", "candidate"},
         phaseChange(s, to)
  PROVE  RoutinesOK'
<1>1. CASE phase[s] \in {"exit", to}
  BY <1>1 DEF RoutinesOK, phaseChange, routines
<1>2. CASE phase[s] \notin {"exit", to}
  <2>1. /\ phase' = [phase EXCEPT ![s] = to]
        /\ spawned' = [spawned EXCEPT ![s] = [spawned[s] EXCEPT ![to] = spawned[s][to] + 1]]
    BY <1>2 DEF phaseChange
  <2>2. [spawned[s] EXCEPT ![to] = spawned[s][to] + 1] \in [{"follower", "candidate"} -> Nat]
    BY DEF RoutinesOK
  <2> QED
    BY <2>1, <2>2 DEF RoutinesOK
<1> QED
  BY <1>1, <1>2

\* persist after an assignment to one of the persistent fields.
LEMMA Persisted ==
  ASSUME IndexInv, NEW s \in Server, persist(s),
         currentTerm' \in [Server -> Nat],
         votedFor' \in [Server -> Server \cup {None}],
         log' \in [Server -> Seq(LogEntry)],
         \A t \in Server : Rooted(log'[t])
  PROVE  PersistentOK' /\ LogsRooted'
<1> DEFINE new == [currentTerm |-> currentTerm'[s], votedFor |-> votedFor'[s], log |-> log'[s]]
<1>1. new \in Disk
  BY DEF Disk
<1>2. saved' = [saved EXCEPT ![s] = new]
  BY DEF persist
<1>3. new.log = log'[s]
  OBVIOUS
<1> HIDE DEF new
<1>4. saved' \in [Server -> Disk]
  BY <1>1, <1>2 DEF IndexInv, PersistentOK
<1>5. \A t \in Server : saved'[t].log = IF t = s THEN log'[s] ELSE saved[t].log
  BY <1>2, <1>3 DEF IndexInv, PersistentOK
<1> QED
  BY <1>4, <1>5 DEF IndexInv, PersistentOK, LogsRooted

\* termSync writes a well-typed Persister and leaves the log alone.
LEMMA TermSyncOK ==
  ASSUME IndexInv, NEW s \in Server, NEW t \in Nat, termSync(s, t)
  PROVE  PersistentOK' /\ LogsRooted'
<1>1. /\ currentTerm' \in [Server -> Nat]
      /\ votedFor' \in [Server -> Server \cup {None}]
      /\ log' \in [Server -> Seq(LogEntry)]
      /\ \A u \in Server : Rooted(log'[u])
  BY DEF IndexInv, PersistentOK, LogsRooted, termSync
<1> QED
  BY <1>1, Persisted DEF termSync
-----------------------------------------------------------------------------
(* raft_follower.go *)

\* The steps of raft_follower.go.
LEMMA FollowerSteps ==
  ASSUME IndexInv, NEW s \in Server,
         awaitElection(s) \/ awaitReset(s) \/ awaitTimeout(s)
  PROVE  IndexInv'
<1>1. UNCHANGED <<persistent, volatile, leading, environ, campaigns, rpcs, nextIndex>>
  BY DEF awaitElection, awaitReset, awaitTimeout, leading
<1>2. RoutinesOK' /\ WaitersOK'
  <2>1. CASE awaitElection(s)
    BY <2>1 DEF IndexInv, RoutinesOK, WaitersOK, awaitElection
  <2>2. CASE awaitReset(s)
    BY <2>2 DEF IndexInv, RoutinesOK, WaitersOK, awaitReset
  <2>3. CASE awaitTimeout(s)
    <3>1. RoutinesOK'
      BY <2>3, PhaseChangeOK DEF IndexInv, awaitTimeout
    <3>2. WaitersOK'
      BY <2>3 DEF IndexInv, WaitersOK, awaitTimeout
    <3> QED
      BY <3>1, <3>2
  <2> QED
    BY <2>1, <2>2, <2>3
<1> QED
  BY <1>1, <1>2, Unchanged DEF IndexInv
-----------------------------------------------------------------------------
(* raft_candidate.go *)

\* Counting a vote keeps an election typed, and short of its heartbeats.
LEMMA CountedOK ==
  ASSUME NEW c \in Campaign, NEW granted \in BOOLEAN
  PROVE  /\ Counted(c, granted) \in Campaign
         /\ Counted(c, granted).at \in {"collect", "check2"}
         /\ Counted(c, granted).server = c.server
<1> DEFINE votes == c.votes + (IF granted THEN 1 ELSE 0)
           at == IF votes >= majority \/ c.heard + 1 = N THEN "check2" ELSE "collect"
<1>1. votes \in Nat /\ c.heard + 1 \in Nat
  BY DEF Campaign
<1>2. at \in {"collect", "check2"}
  OBVIOUS
<1>3. Counted(c, granted) = [c EXCEPT !.votes = votes, !.heard = c.heard + 1, !.at = at]
  BY DEF Counted
<1> HIDE DEF votes, at
<1> QED
  BY <1>1, <1>2, <1>3 DEF Campaign

\* A rooted log has a last index and a last term.
LEMMA LogFacts ==
  ASSUME IndexInv, NEW s \in Server
  PROVE  /\ Len(log[s]) \in Nat
         /\ Len(log[s]) >= 1
         /\ \A i \in 1 .. Len(log[s]) : log[s][i] \in LogEntry /\ log[s][i].term \in Nat
         /\ log[s][1].term = 0
<1>1. log[s] \in Seq(LogEntry)
  BY DEF IndexInv, PersistentOK
<1>2. Len(log[s]) >= 1 /\ log[s][1].term = 0
  BY DEF IndexInv, LogsRooted, Rooted
<1>3. \A i \in 1 .. Len(log[s]) : log[s][i] \in LogEntry
  BY <1>1
<1> QED
  BY <1>1, <1>2, <1>3 DEF LogEntry

\* The RequestVote calls an election sends.
LEMMA RequestVoteArgsOK ==
  ASSUME IndexInv, NEW s \in Server, NEW t \in Server
  PROVE  RpcOK(RequestVoteArgs(s, t))
<1>1. LastIndex(log[s]) \in Nat /\ TermAt(log[s], LastIndex(log[s])) \in Nat
  BY LogFacts DEF LastIndex, TermAt
<1>2. currentTerm[s] + 1 \in Nat
  BY DEF IndexInv, PersistentOK
<1>3. RequestVoteArgs(s, t) \in RequestVoteRPC
  BY <1>1, <1>2 DEF RequestVoteArgs, RequestVoteRPC
<1>4. RequestVoteArgs(s, t).kind = "RV"
  BY DEF RequestVoteArgs
<1> QED
  BY <1>3, <1>4 DEF RpcOK, RPC

\* callElection up to the loop that counts votes.
LEMMA CallElectionStep ==
  ASSUME IndexInv, NEW s \in Server, callElection(s)
  PROVE  IndexInv'
<1>1. UNCHANGED <<volatile, leading, nextIndex, environ, waiting, resets>>
  BY DEF callElection, leading
<1>2. RoutinesOK'
  BY DEF IndexInv, RoutinesOK, callElection
<1>3. CASE phase[s] # "candidate"
  <2>1. UNCHANGED <<persistent, campaigns, rpcs>>
    BY <1>3 DEF callElection
  <2> QED
    BY <1>1, <1>2, <2>1, Unchanged DEF IndexInv
<1>4. CASE phase[s] = "candidate"
  <2>1. /\ currentTerm' = [currentTerm EXCEPT ![s] = currentTerm[s] + 1]
        /\ votedFor' = [votedFor EXCEPT ![s] = s]
        /\ log' = log
        /\ persist(s)
        /\ rpcs' = rpcs \cup {RequestVoteArgs(s, t) : t \in Server \ {s}}
    BY <1>4 DEF callElection
  <2>2. PersistentOK' /\ LogsRooted'
    <3>1. /\ currentTerm' \in [Server -> Nat]
          /\ votedFor' \in [Server -> Server \cup {None}]
          /\ log' \in [Server -> Seq(LogEntry)]
          /\ \A t \in Server : Rooted(log'[t])
      BY <2>1 DEF IndexInv, PersistentOK, LogsRooted
    <3> QED
      BY <2>1, <3>1, Persisted
  <2>3. RpcsOK'
    BY <2>1, RequestVoteArgsOK DEF IndexInv, RpcsOK
  <2>4. CampaignsOK'
    <3> DEFINE c == [server |-> s, term |-> currentTerm[s] + 1, at |-> "collect",
                     votes |-> 0, heard |-> 0,
                     beat |-> 0, myLastIndex |-> 0, replies |-> NoReplies]
    <3>1. NoReplies \in [Server -> Reply]
      BY DEF NoReplies, NoReply, Reply
    <3>2. c \in Campaign
      BY <3>1 DEF Campaign, IndexInv, PersistentOK
    <3>3. campaigns' = campaigns \cup {Counted(c, TRUE)}
      BY <1>4 DEF callElection
    <3> HIDE DEF c
    <3>4. Counted(c, TRUE) \in Campaign /\ Counted(c, TRUE).at \in {"collect", "check2"}
      BY <3>2, CountedOK
    <3> QED
      BY <1>1, <3>3, <3>4 DEF IndexInv, CampaignsOK, CampaignOK
  <2> QED
    BY <1>1, <1>2, <2>2, <2>3, <2>4, Unchanged DEF IndexInv
<1> QED
  BY <1>3, <1>4

\* The ways an election ends.
LEMMA EndOfElectionSteps ==
  ASSUME IndexInv, NEW c \in campaigns,
         voteInterrupt(c) \/ candidateCheck2(c) \/ lostVote(c) \/ elected(c)
  PROVE  IndexInv'
<1>1. UNCHANGED <<persistent, volatile, leading, nextIndex, environ, rpcs>>
  BY DEF voteInterrupt, candidateCheck2, lostVote, elected, leading
<1>2. c \in Campaign /\ c.server \in Server
  BY DEF IndexInv, CampaignsOK, CampaignOK, Campaign
<1>3. RoutinesOK'
  <2>1. CASE voteInterrupt(c) \/ lostVote(c)
    BY <1>2, <2>1, PhaseChangeOK DEF IndexInv, voteInterrupt, lostVote
  <2>2. CASE candidateCheck2(c) \/ elected(c)
    BY <1>2, <2>2 DEF IndexInv, RoutinesOK, routines, candidateCheck2, elected
  <2> QED
    BY <2>1, <2>2
<1>4. WaitersOK'
  BY DEF IndexInv, WaitersOK, voteInterrupt, candidateCheck2, lostVote, elected
<1>5. CampaignsOK'
  <2>1. \A a \in {"won", "lost", "init"} : CampaignOK([c EXCEPT !.at = a])'
    BY <1>2 DEF CampaignOK, Campaign
  <2>2. CASE voteInterrupt(c) \/ lostVote(c)
    BY <1>1, <2>2 DEF IndexInv, CampaignsOK, CampaignOK, voteInterrupt, lostVote
  <2>3. CASE candidateCheck2(c)
    <3>1. \A d \in campaigns' : d \in campaigns \/ d \in {[c EXCEPT !.at = "won"], [c EXCEPT !.at = "lost"]}
      BY <2>3 DEF candidateCheck2, Replace
    <3> QED
      BY <1>1, <2>1, <3>1 DEF IndexInv, CampaignsOK, CampaignOK
  <2>4. CASE elected(c)
    <3>1. \A d \in campaigns' : d \in campaigns \/ d = [c EXCEPT !.at = "init"]
      BY <2>4 DEF elected, Replace
    <3> QED
      BY <1>1, <2>1, <3>1 DEF IndexInv, CampaignsOK, CampaignOK
  <2> QED
    BY <2>2, <2>3, <2>4
<1> QED
  BY <1>1, <1>3, <1>4, <1>5, Unchanged DEF IndexInv
-----------------------------------------------------------------------------
(* raft_leader.go *)

\* initLeader puts every nextIndex at the end of a log that is never empty.
LEMMA InitLeaderStep ==
  ASSUME IndexInv, NEW c \in campaigns, initLeader(c)
  PROVE  IndexInv'
<1>1. UNCHANGED <<persistent, volatile, routines, environ, waiting, rpcs, resets>>
  BY DEF initLeader
<1>2. c \in Campaign /\ c.server \in Server
  BY DEF IndexInv, CampaignsOK, CampaignOK, Campaign
<1>3. LeadingOK'
  BY <1>2, LogFacts DEF IndexInv, LeadingOK, initLeader, FreshMatch
<1>4. CampaignsOK'
  <2> DEFINE d == [c EXCEPT !.at = "beat", !.votes = 0, !.heard = 0]
  <2>1. d \in Campaign /\ d.server = c.server
    BY <1>2 DEF Campaign
  <2>2. campaigns' = (campaigns \ {c}) \cup {d}
    BY DEF initLeader, Replace
  <2> HIDE DEF d
  <2>3. \A t \in Server : nextIndex'[c.server][t] >= 1
    BY <1>2, LogFacts DEF IndexInv, LeadingOK, initLeader
  <2>4. \A s \in Server : s # c.server => nextIndex'[s] = nextIndex[s]
    BY <1>2 DEF IndexInv, LeadingOK, initLeader
  <2>5. \A e \in campaigns : CampaignOK(e)'
    <3> SUFFICES ASSUME NEW e \in campaigns PROVE CampaignOK(e)'
      OBVIOUS
    <3>1. CampaignOK(e) /\ e.server \in Server
      BY DEF IndexInv, CampaignsOK, CampaignOK, Campaign
    <3> QED
      BY <2>3, <2>4, <3>1 DEF CampaignOK
  <2> QED
    BY <2>1, <2>2, <2>3, <2>5 DEF CampaignsOK, CampaignOK
<1> QED
  BY <1>1, <1>3, <1>4, Unchanged DEF IndexInv

\* The AppendEntries calls of a heartbeat, with a prevLogIndex inside the log.
LEMMA AppendEntriesArgsOK ==
  ASSUME IndexInv, NEW c \in campaigns, c.at = "beat", NEW t \in Server
  PROVE  RpcOK(AppendEntriesArgs(c, t))
<1> DEFINE s == c.server
           next == nextIndex[s][t]
           prev == Min(next, Len(log[s])) - 1
           entries == IF next < Len(log[s])
                      THEN SubSeq(log[s], next + 1, Len(log[s])) ELSE << >>
           m == AppendEntriesArgs(c, t)
<1>1. s \in Server /\ c.term \in Nat /\ c.beat \in Nat
  BY DEF IndexInv, CampaignsOK, CampaignOK, Campaign
<1>2. next \in Nat /\ next >= 1
  BY <1>1 DEF IndexInv, LeadingOK, CampaignsOK, CampaignOK
<1>3. prev \in Nat /\ prev < Len(log[s])
  BY <1>1, <1>2, LogFacts DEF Min
<1>4. TermAt(log[s], prev) \in Nat /\ (prev = 0 => TermAt(log[s], prev) = 0)
  <2> HIDE DEF prev, s
  <2> QED
    BY <1>1, <1>3, LogFacts DEF TermAt
<1>5. entries \in Seq(LogEntry)
  <2>1. CASE next < Len(log[s])
    BY <1>1, <1>2, <2>1, LogFacts, SubSeqProperties
  <2>2. CASE ~ (next < Len(log[s]))
    BY <2>2
  <2> QED
    BY <2>1, <2>2
<1>6. NextBeat(c) \in Nat
  BY <1>1, BoundAssumption DEF NextBeat
<1>7. currentTerm[s] \in Nat /\ commitIndex[s] \in Nat
  BY <1>1 DEF IndexInv, PersistentOK, VolatileOK
<1>8. m = [kind |-> "AE", src |-> s, dst |-> t,
           term |-> currentTerm[s], by |-> c.term, beat |-> NextBeat(c),
           prevLogIndex |-> prev, prevLogTerm |-> TermAt(log[s], prev),
           entries |-> entries,
           leaderCommit |-> commitIndex[s],
           at |-> IF Aliased THEN "encode" ELSE "request", caller |-> TRUE,
           replyTerm |-> 0, success |-> FALSE, next |-> 0]
  BY DEF AppendEntriesArgs
<1> HIDE DEF s, next, prev, entries, m
<1>9. m \in AppendEntriesRPC
  BY <1>1, <1>3, <1>4, <1>5, <1>6, <1>7, <1>8 DEF AppendEntriesRPC
<1>10. /\ m.prevLogIndex = 0 => m.prevLogTerm = 0
       /\ m.at \notin {"reply", "demote"}
  BY <1>4, <1>8
<1> QED
  BY <1>9, <1>10 DEF RpcOK, RPC, m

\* heartbeat up to its sleep.
LEMMA HeartbeatStep ==
  ASSUME IndexInv, NEW c \in campaigns, heartbeat(c)
  PROVE  IndexInv'
<1>1. UNCHANGED <<persistent, volatile, leading, nextIndex, routines, environ, waiting, resets>>
  BY DEF heartbeat, leading
<1>2. c \in Campaign /\ c.server \in Server /\ c.at = "beat" /\ c.beat \in Nat
  BY DEF IndexInv, CampaignsOK, CampaignOK, Campaign, heartbeat
<1>3. CASE phase[c.server] # "leader"
  <2>1. campaigns' \subseteq campaigns /\ UNCHANGED rpcs
    BY <1>3 DEF heartbeat
  <2> QED
    BY <1>1, <2>1, Unchanged, CampaignsSame DEF IndexInv
<1>4. CASE phase[c.server] = "leader"
  <2>1. RpcsOK'
    BY <1>2, <1>4, AppendEntriesArgsOK DEF IndexInv, RpcsOK, heartbeat
  <2>2. CampaignsOK'
    <3> DEFINE last == LastIndex(log[c.server])
               beat == NextBeat(c)
               d == [c EXCEPT !.at = "sleep", !.beat = beat, !.myLastIndex = last]
    <3>1. campaigns' = (campaigns \ {c}) \cup {d}
      BY <1>4 DEF heartbeat, Replace
    <3>2. last \in Nat
      BY <1>2, LogFacts DEF LastIndex
    <3>3. beat \in Nat
      BY <1>2, BoundAssumption DEF NextBeat
    <3> HIDE DEF last, beat
    <3>4. d \in Campaign /\ d.server = c.server
      BY <1>2, <3>2, <3>3 DEF Campaign
    <3> QED
      BY <1>1, <1>2, <3>1, <3>4 DEF IndexInv, CampaignsOK, CampaignOK
  <2> QED
    BY <1>1, <2>1, <2>2, Unchanged DEF IndexInv
<1> QED
  BY <1>3, <1>4

\* heartbeat after its sleep: a reply is used only if its NextIndex is at least 1.
LEMMA EndBeatStep ==
  ASSUME IndexInv, NEW c \in campaigns, endBeat(c)
  PROVE  IndexInv'
<1> DEFINE s == c.server
           match == [t \in Server |-> MatchIndexAfter(c, t)]
<1>1. UNCHANGED <<persistent, lastApplied, applied, routines, environ, waiting, rpcs, resets>>
  BY DEF endBeat
<1>2. /\ c \in Campaign /\ s \in Server /\ c.at = "sleep" /\ c.myLastIndex \in Nat
      /\ \A t \in Server : c.replies[t].next \in Nat /\ nextIndex[s][t] >= 1
  BY DEF IndexInv, CampaignsOK, CampaignOK, Campaign, Reply, endBeat
<1>3. CASE phase[s] # "leader"
  <2>1. campaigns' \subseteq campaigns /\ UNCHANGED <<leading, commitIndex>>
    BY <1>3 DEF endBeat
  <2> QED
    BY <1>1, <2>1, Unchanged, CampaignsSame DEF IndexInv, volatile, leading
<1>4. CASE phase[s] = "leader"
  <2>1. /\ nextIndex' = [nextIndex EXCEPT ![s] = [t \in Server |-> NextIndexAfter(c, t)]]
        /\ matchIndex' = [matchIndex EXCEPT ![s] = match]
        /\ commitIndex' = [commitIndex EXCEPT ![s] =
             IF Committable(s, match) = {} THEN commitIndex[s] ELSE MaxOf(Committable(s, match))]
        /\ campaigns' = Replace(campaigns, c,
             {[c EXCEPT !.at = "beat", !.myLastIndex = 0, !.replies = NoReplies]})
    BY <1>4 DEF endBeat
  <2>2. \A t \in Server : NextIndexAfter(c, t) \in Nat /\ NextIndexAfter(c, t) >= 1
    BY <1>2 DEF IndexInv, LeadingOK, NextIndexAfter
  <2>3. \A t \in Server : MatchIndexAfter(c, t) \in Nat
    BY <1>2 DEF IndexInv, LeadingOK, MatchIndexAfter
  <2>4. LeadingOK'
    BY <1>2, <2>1, <2>2, <2>3 DEF IndexInv, LeadingOK
  <2>5. VolatileOK'
    <3>1. commitIndex[s] \in Nat /\ LastIndex(log[s]) \in Nat
      BY <1>2, LogFacts DEF IndexInv, VolatileOK, LastIndex
    <3>2. Committable(s, match) \subseteq 0 .. LastIndex(log[s])
      BY <3>1 DEF Committable
    <3>3. Committable(s, match) # {} => MaxOf(Committable(s, match)) \in Nat
      BY <3>1, <3>2, MaxOfProperties
    <3>4. commitIndex' \in [Server -> Nat]
      BY <1>2, <2>1, <3>1, <3>3 DEF IndexInv, VolatileOK
    <3> QED
      BY <1>1, <3>4 DEF IndexInv, VolatileOK
  <2>6. CampaignsOK'
    <3> DEFINE d == [c EXCEPT !.at = "beat", !.myLastIndex = 0, !.replies = NoReplies]
    <3>1. NoReplies \in [Server -> Reply]
      BY DEF NoReplies, NoReply, Reply
    <3>2. d \in Campaign /\ d.server = s
      BY <1>2, <3>1 DEF Campaign
    <3>3. campaigns' = (campaigns \ {c}) \cup {d}
      BY <2>1 DEF Replace
    <3> HIDE DEF d, s
    <3>4. \A u \in Server : \A t \in Server :
            nextIndex'[u][t] = IF u = s THEN NextIndexAfter(c, t) ELSE nextIndex[u][t]
      BY <1>2, <2>1 DEF IndexInv, LeadingOK
    <3>5. \A e \in campaigns : CampaignOK(e)'
      <4> SUFFICES ASSUME NEW e \in campaigns PROVE CampaignOK(e)'
        OBVIOUS
      <4>1. CampaignOK(e) /\ e.server \in Server
        BY DEF IndexInv, CampaignsOK, CampaignOK, Campaign
      <4> QED
        BY <2>2, <3>4, <4>1 DEF CampaignOK
    <3> QED
      BY <1>2, <2>2, <3>2, <3>3, <3>4, <3>5 DEF CampaignsOK, CampaignOK
  <2> QED
    BY <1>1, <2>4, <2>5, <2>6, Unchanged DEF IndexInv
<1> QED
  BY <1>3, <1>4
-----------------------------------------------------------------------------
(* The RPCs *)

\* Entries read from a log that is being overwritten are still entries.
LEMMA EncodeArgsStep ==
  ASSUME IndexInv, NEW m \in rpcs, encodeArgs(m)
  PROVE  IndexInv'
<1> DEFINE here(i) == m.prevLogIndex + i + 1
           shared == {i \in 1 .. Len(m.entries) : here(i) <= Len(log[m.src])}
<1>1. UNCHANGED <<persistent, volatile, leading, nextIndex, routines, environ, waiting,
                  campaigns, resets>>
  BY DEF encodeArgs, leading
<1>2. RpcOK(m) /\ m.at = "encode"
  BY DEF IndexInv, RpcsOK, encodeArgs
<1>3. m \in AppendEntriesRPC
  BY <1>2 DEF RpcOK, RPC, RequestVoteRPC
<1>4. PICK newTerm \in SUBSET shared, newData \in SUBSET shared :
        rpcs' = Replace(rpcs, m, {[m EXCEPT !.at = "request", !.entries =
          [i \in 1 .. Len(m.entries) |->
             [term |-> IF i \in newTerm THEN log[m.src][here(i)].term ELSE m.entries[i].term,
              data |-> IF i \in newData THEN log[m.src][here(i)].data ELSE m.entries[i].data]]]})
  BY DEF encodeArgs
<1> DEFINE e(i) == [term |-> IF i \in newTerm THEN log[m.src][here(i)].term ELSE m.entries[i].term,
                    data |-> IF i \in newData THEN log[m.src][here(i)].data ELSE m.entries[i].data]
           entries == [i \in 1 .. Len(m.entries) |-> e(i)]
           n == [m EXCEPT !.at = "request", !.entries = entries]
<1>5. \A i \in 1 .. Len(m.entries) : e(i) \in LogEntry
  <2> SUFFICES ASSUME NEW i \in 1 .. Len(m.entries) PROVE e(i) \in LogEntry
    OBVIOUS
  <2>1. m.entries[i] \in LogEntry
    BY <1>3 DEF AppendEntriesRPC
  <2>2. i \in shared => log[m.src][here(i)] \in LogEntry
    <3>1. m.src \in Server /\ m.prevLogIndex \in Nat /\ Len(m.entries) \in Nat
      BY <1>3 DEF AppendEntriesRPC
    <3>2. here(i) \in Nat /\ here(i) >= 1
      BY <3>1
    <3>3. i \in shared => here(i) <= Len(log[m.src])
      OBVIOUS
    <3> HIDE DEF here, shared
    <3> QED
      BY <3>1, <3>2, <3>3, LogFacts
  <2> QED
    BY <2>1, <2>2 DEF LogEntry
<1>6. entries \in Seq(LogEntry)
  <2> HIDE DEF e
  <2>1. Len(m.entries) \in Nat
    BY <1>3 DEF AppendEntriesRPC
  <2> QED
    BY <1>5, <2>1
<1> HIDE DEF entries
<1>7. n \in AppendEntriesRPC
  BY <1>3, <1>6 DEF AppendEntriesRPC
<1>8. n.prevLogIndex = m.prevLogIndex /\ n.prevLogTerm = m.prevLogTerm /\ n.at = "request"
  BY <1>3 DEF AppendEntriesRPC
<1>9. RpcOK(n)
  BY <1>2, <1>3, <1>7, <1>8 DEF RpcOK, RPC, AppendEntriesRPC
<1>10. rpcs' = Replace(rpcs, m, {n})
  BY <1>4 DEF entries
<1>11. RpcsOK'
  BY <1>9, <1>10, RpcsReplaced DEF IndexInv
<1> QED
  BY <1>1, <1>11, Unchanged DEF IndexInv

\* termSync in the two handlers.
LEMMA ReceiverSyncStep ==
  ASSUME IndexInv, NEW m \in rpcs, receiverSync(m)
  PROVE  IndexInv'
<1> DEFINE s == m.dst
           got == [m EXCEPT !.replyTerm = currentTerm[s]]
<1>1. UNCHANGED <<volatile, leading, nextIndex, routines, environ, waiting, campaigns, resets>>
  BY DEF receiverSync, leading
<1>2. RpcOK(m) /\ m.at = "request" /\ s \in Server /\ m.term \in Nat
  BY RpcKind DEF IndexInv, RpcsOK, RpcOK, receiverSync
<1>3. currentTerm[s] \in Nat
  BY <1>2 DEF IndexInv, PersistentOK
<1>4. got \in RPC /\ got.at = "request" /\ got.term = m.term /\ got.replyTerm = currentTerm[s]
  <2>1. CASE m \in RequestVoteRPC
    BY <1>2, <1>3, <2>1 DEF RPC, RequestVoteRPC
  <2>2. CASE m \in AppendEntriesRPC
    BY <1>2, <1>3, <2>2 DEF RPC, AppendEntriesRPC
  <2> QED
    BY <1>2, <2>1, <2>2 DEF RpcOK, RPC
<1>5. RpcOK(got)
  BY <1>2, <1>4 DEF RpcOK, RPC, RequestVoteRPC, AppendEntriesRPC
<1>6. CASE currentTerm[s] < m.term
  <2>1. PersistentOK' /\ LogsRooted'
    BY <1>2, <1>6, TermSyncOK DEF receiverSync
  <2>2. RpcsOK'
    <3>1. rpcs' = Replace(rpcs, m, {[got EXCEPT !.at = "sync"]})
      BY <1>6 DEF receiverSync
    <3> HIDE DEF got
    <3>2. RpcOK([got EXCEPT !.at = "sync"])
      BY <1>5, RpcOKMoves
    <3> QED
      BY <3>1, <3>2, RpcsReplaced DEF IndexInv
  <2> QED
    BY <1>1, <2>1, <2>2, Unchanged DEF IndexInv
<1>7. CASE currentTerm[s] = m.term
  <2>1. UNCHANGED persistent /\ rpcs' = Replace(rpcs, m, {[got EXCEPT !.at = "payload"]})
    BY <1>2, <1>3, <1>7 DEF receiverSync
  <2>2. RpcsOK'
    <3> HIDE DEF got
    <3>1. RpcOK([got EXCEPT !.at = "payload"])
      BY <1>5, RpcOKMoves
    <3> QED
      BY <2>1, <3>1, RpcsReplaced DEF IndexInv
  <2> QED
    BY <1>1, <2>1, <2>2, Unchanged DEF IndexInv
<1>8. CASE currentTerm[s] > m.term
  <2>1. UNCHANGED persistent /\ rpcs' = Replace(rpcs, m, Answered(got))
    BY <1>2, <1>3, <1>8 DEF receiverSync
  <2>2. RpcOK([got EXCEPT !.at = "reply"])
    <3> HIDE DEF got
    <3> DEFINE n == [got EXCEPT !.at = "reply"]
    <3>1. n \in RPC
      BY <1>4, RpcMoves DEF Stage
    <3>2. /\ n.kind = got.kind /\ n.term = m.term /\ n.replyTerm = currentTerm[s]
          /\ got.kind = "AE" =>
               n.prevLogIndex = got.prevLogIndex /\ n.prevLogTerm = got.prevLogTerm
      BY <1>4, RpcFields
    <3> HIDE DEF n, s
    <3>3. RpcOK(n)
      BY <1>2, <1>3, <1>5, <1>8, <3>1, <3>2 DEF RpcOK
    <3> QED
      BY <3>3 DEF n
  <2>3. RpcsOK'
    BY <2>1, <2>2, RpcsReplaced DEF IndexInv, Answered
  <2> QED
    BY <1>1, <2>1, <2>3, Unchanged DEF IndexInv
<1> QED
  BY <1>2, <1>3, <1>6, <1>7, <1>8

\* The phaseChange that follows a termSync, on either side.
LEMMA DemoteSteps ==
  ASSUME IndexInv, NEW m \in rpcs, receiverDemote(m) \/ senderDemote(m)
  PROVE  IndexInv'
<1>1. UNCHANGED <<persistent, volatile, leading, nextIndex, environ, waiting, campaigns, resets>>
  BY DEF receiverDemote, senderDemote, leading
<1>2. RpcOK(m) /\ m.src \in Server /\ m.dst \in Server
  BY RpcKind DEF IndexInv, RpcsOK, RpcOK
<1>3. RoutinesOK'
  BY <1>2, PhaseChangeOK DEF IndexInv, receiverDemote, senderDemote
<1>4. RpcsOK'
  <2>1. CASE receiverDemote(m)
    <3>1. RpcOK([m EXCEPT !.at = "payload"])
      BY <1>2, RpcOKMoves
    <3> QED
      BY <2>1, <3>1, RpcsReplaced DEF IndexInv, receiverDemote
  <2>2. CASE senderDemote(m)
    <3>1. RpcOK([m EXCEPT !.at = "reply"])
      BY <1>2, <2>2, RpcOKMoves DEF senderDemote
    <3> QED
      BY <2>2, <3>1, RpcsReplaced DEF IndexInv, senderDemote
  <2> QED
    BY <2>1, <2>2
<1> QED
  BY <1>1, <1>3, <1>4, Unchanged DEF IndexInv

\* The payload of RequestVote.
LEMMA RequestVoteStep ==
  ASSUME IndexInv, NEW m \in rpcs, RequestVote(m)
  PROVE  IndexInv'
<1> DEFINE n == [m EXCEPT !.granted = Grants(m)]
           a == [n EXCEPT !.at = "reply"]
<1>1. UNCHANGED <<volatile, leading, nextIndex, routines, environ, waiting, campaigns, resets>>
  BY DEF RequestVote, leading
<1>2. m \in RequestVoteRPC /\ m.src \in Server /\ m.dst \in Server
  BY RpcKind DEF IndexInv, RpcsOK, RpcOK, RequestVote
<1>3. PersistentOK' /\ LogsRooted'
  <2>1. CASE Grants(m)
    <3>1. /\ currentTerm' \in [Server -> Nat]
          /\ votedFor' \in [Server -> Server \cup {None}]
          /\ log' \in [Server -> Seq(LogEntry)]
          /\ \A t \in Server : Rooted(log'[t])
      BY <1>2, <2>1 DEF IndexInv, PersistentOK, LogsRooted, RequestVote
    <3> QED
      BY <1>2, <2>1, <3>1, Persisted DEF RequestVote
  <2>2. CASE ~ Grants(m)
    BY <2>2, Unchanged DEF RequestVote
  <2> QED
    BY <2>1, <2>2
<1>4. RpcsOK'
  <2>1. Grants(m) \in BOOLEAN
    BY DEF Grants
  <2>2. n \in RequestVoteRPC
    BY <1>2, <2>1 DEF RequestVoteRPC
  <2>3. rpcs' = Replace(rpcs, m, Answered(n))
    BY DEF RequestVote
  <2> HIDE DEF n
  <2>4. a \in RequestVoteRPC
    BY <2>2 DEF RequestVoteRPC
  <2>5. RpcOK(a)
    BY <2>4 DEF RpcOK, RPC, RequestVoteRPC
  <2>6. \A r \in Answered(n) : RpcOK(r)
    BY <2>5 DEF Answered
  <2> QED
    BY <2>3, <2>6, RpcsReplaced DEF IndexInv
<1> QED
  BY <1>1, <1>3, <1>4, Unchanged DEF IndexInv

\* The merge keeps the log up to prevLogIndex, the root with it.
LEMMA MergedOK ==
  ASSUME NEW l \in Seq(LogEntry), Rooted(l), NEW m \in AppendEntriesRPC,
         m.prevLogIndex < Len(l)
  PROVE  /\ Merged(m, l) \in Seq(LogEntry)
         /\ Rooted(Merged(m, l))
         /\ Len(Merged(m, l)) = m.prevLogIndex + 1 + Len(m.entries)
         /\ \A i \in 1 .. Len(Merged(m, l)) :
              Merged(m, l)[i] = IF i <= m.prevLogIndex + 1 THEN l[i]
                                ELSE m.entries[i - (m.prevLogIndex + 1)]
<1> DEFINE p == m.prevLogIndex + 1
           kept == SubSeq(l, 1, p)
<1>1. p \in Nat /\ p >= 1 /\ p <= Len(l) /\ m.entries \in Seq(LogEntry) /\ Len(m.entries) \in Nat
  BY DEF AppendEntriesRPC
<1>2. \A i \in 1 .. p : l[i] \in LogEntry
  BY <1>1
<1>3. kept \in Seq(LogEntry) /\ Len(kept) = p /\ \A i \in 1 .. p : kept[i] = l[i]
  <2> HIDE DEF p
  <2> QED
    BY <1>1, <1>2, SubSeqProperties
<1>4. Merged(m, l) = kept \o m.entries
  BY DEF Merged
<1> HIDE DEF kept, p
<1>5. /\ Merged(m, l) \in Seq(LogEntry)
      /\ Len(Merged(m, l)) = p + Len(m.entries)
      /\ \A i \in 1 .. Len(Merged(m, l)) :
           Merged(m, l)[i] = IF i <= p THEN l[i] ELSE m.entries[i - p]
  <2> DEFINE e == m.entries
  <2>0. kept \in Seq(LogEntry) /\ e \in Seq(LogEntry)
    BY <1>1, <1>3
  <2> HIDE DEF e
  <2>1. /\ kept \o e \in Seq(LogEntry)
        /\ Len(kept \o e) = Len(kept) + Len(e)
        /\ \A i \in 1 .. Len(kept) + Len(e) :
             (kept \o e)[i] = IF i <= Len(kept) THEN kept[i] ELSE e[i - Len(kept)]
    BY <2>0, ConcatProperties
  <2>2. \A i \in 1 .. p + Len(m.entries) :
          Merged(m, l)[i] = IF i <= p THEN l[i] ELSE m.entries[i - p]
    <3> SUFFICES ASSUME NEW i \in 1 .. p + Len(e)
                 PROVE  (kept \o e)[i] = IF i <= p THEN l[i] ELSE e[i - p]
      BY <1>4 DEF e
    <3>1. (kept \o e)[i] = IF i <= p THEN kept[i] ELSE e[i - p]
      BY <1>3, <2>1
    <3>2. i <= p => kept[i] = l[i]
      BY <1>1, <1>3
    <3> QED
      BY <3>1, <3>2
  <2> QED
    BY <1>3, <1>4, <2>1, <2>2 DEF e
<1>6. Rooted(Merged(m, l))
  BY <1>1, <1>5 DEF Rooted
<1> QED
  BY <1>5, <1>6 DEF p

\* What a rejection names lies between the root and the index it rejects.
LEMMA BackoffOK ==
  ASSUME NEW l \in Seq(LogEntry), Rooted(l), NEW m \in AppendEntriesRPC,
         m.prevLogIndex = 0 => m.prevLogTerm = 0, ~ Matches(m, l)
  PROVE  Backoff(m, l) \in Nat /\ Backoff(m, l) \in 1 .. m.prevLogIndex
<1> DEFINE p == m.prevLogIndex
           other == {i \in 0 .. p - 1 : TermAt(l, i) # TermAt(l, p)}
<1>1. p \in Nat /\ Len(l) \in Nat /\ Len(l) >= 1
  BY DEF AppendEntriesRPC, Rooted
<1>2. Backoff(m, l) = IF p >= Len(l) THEN Len(l)
                      ELSE IF other = {} THEN p ELSE MaxOf(other) + 1
  BY DEF Backoff
<1>3. CASE p >= Len(l)
  BY <1>1, <1>2, <1>3
<1>4. CASE p < Len(l)
  <2>1. p # 0
    BY <1>4 DEF Matches, TermAt, Rooted
  <2>2. other # {} => MaxOf(other) \in other
    <3>1. other \subseteq 0 .. p
      BY <1>1
    <3> HIDE DEF other
    <3> QED
      BY <1>1, <3>1, MaxOfProperties
  <2> QED
    BY <1>1, <1>2, <1>4, <2>1, <2>2
<1> QED
  BY <1>1, <1>3, <1>4

\* The payload of AppendEntries: it accepts, or backs off below what it was sent.
LEMMA AppendEntriesStep ==
  ASSUME IndexInv, NEW m \in rpcs, AppendEntries(m)
  PROVE  IndexInv'
<1> DEFINE s == m.dst
           l == log[s]
<1>1. UNCHANGED <<lastApplied, applied, leading, nextIndex, routines, environ, waiting, campaigns>>
  BY DEF AppendEntries, leading
<1>2. RpcOK(m) /\ m \in AppendEntriesRPC /\ s \in Server
  BY RpcKind DEF IndexInv, RpcsOK, RpcOK, AppendEntries
<1>3. l \in Seq(LogEntry) /\ Rooted(l)
  BY <1>2 DEF IndexInv, PersistentOK, LogsRooted
<1>4. WaitersOK'
  BY DEF IndexInv, WaitersOK, AppendEntries
<1>5. CASE Matches(m, l)
  <2>1. /\ log' = [log EXCEPT ![s] = Merged(m, l)]
        /\ UNCHANGED <<currentTerm, votedFor>>
        /\ persist(s)
        /\ commitIndex' = [commitIndex EXCEPT ![s] =
             IF NewCommit(m, l) > commitIndex[s] THEN NewCommit(m, l) ELSE commitIndex[s]]
        /\ rpcs' = Replace(rpcs, m, Answered([m EXCEPT !.success = TRUE]))
    BY <1>5 DEF AppendEntries
  <2>2. /\ Merged(m, l) \in Seq(LogEntry) /\ Rooted(Merged(m, l))
        /\ Len(Merged(m, l)) \in Nat /\ Len(Merged(m, l)) >= 1
    <3>1. m.prevLogIndex < Len(l)
      BY <1>5 DEF Matches
    <3> HIDE DEF l
    <3>2. Merged(m, l) \in Seq(LogEntry) /\ Rooted(Merged(m, l))
      BY <1>2, <1>3, <3>1, MergedOK
    <3> QED
      BY <3>2, RootedLen
  <2>3. PersistentOK' /\ LogsRooted'
    <3>1. /\ currentTerm' \in [Server -> Nat]
          /\ votedFor' \in [Server -> Server \cup {None}]
          /\ log' \in [Server -> Seq(LogEntry)]
          /\ \A t \in Server : Rooted(log'[t])
      BY <1>2, <2>1, <2>2 DEF IndexInv, PersistentOK, LogsRooted
    <3> QED
      BY <1>2, <2>1, <3>1, Persisted
  <2>4. VolatileOK'
    <3>1. NewCommit(m, l) \in Nat
      BY <1>2, <2>2 DEF NewCommit, Min, LastIndex, AppendEntriesRPC
    <3> QED
      BY <1>1, <1>2, <2>1, <3>1 DEF IndexInv, VolatileOK
  <2>5. RpcsOK'
    <3> DEFINE n == [m EXCEPT !.success = TRUE]
               a == [n EXCEPT !.at = "reply"]
    <3>1. /\ n \in AppendEntriesRPC
          /\ n.prevLogIndex = m.prevLogIndex /\ n.prevLogTerm = m.prevLogTerm
          /\ n.success = TRUE
      BY <1>2 DEF AppendEntriesRPC
    <3> HIDE DEF n
    <3>2. /\ a \in AppendEntriesRPC
          /\ a.prevLogIndex = n.prevLogIndex /\ a.prevLogTerm = n.prevLogTerm
          /\ a.success = n.success
      BY <3>1 DEF AppendEntriesRPC
    <3>3. RpcOK(a)
      BY <1>2, <3>1, <3>2 DEF RpcOK, RPC, AppendEntriesRPC
    <3>4. \A r \in Answered(n) : RpcOK(r)
      BY <3>3 DEF Answered
    <3> QED
      BY <2>1, <3>4, RpcsReplaced DEF IndexInv, n
  <2> QED
    BY <1>1, <1>4, <2>3, <2>4, <2>5, Unchanged DEF IndexInv
<1>6. CASE ~ Matches(m, l)
  <2>1. /\ UNCHANGED <<persistent, commitIndex>>
        /\ rpcs' = Replace(rpcs, m, Answered([m EXCEPT !.next = Backoff(m, l)]))
    BY <1>6 DEF AppendEntries
  <2>2. Backoff(m, l) \in Nat /\ Backoff(m, l) \in 1 .. m.prevLogIndex
    <3>1. m.prevLogIndex = 0 => m.prevLogTerm = 0
      BY <1>2 DEF RpcOK, AppendEntriesRPC
    <3> HIDE DEF l
    <3> QED
      BY <1>2, <1>3, <1>6, <3>1, BackoffOK
  <2>3. RpcsOK'
    <3> DEFINE n == [m EXCEPT !.next = Backoff(m, l)]
               a == [n EXCEPT !.at = "reply"]
    <3>1. /\ n \in AppendEntriesRPC
          /\ n.prevLogIndex = m.prevLogIndex /\ n.prevLogTerm = m.prevLogTerm
          /\ n.next = Backoff(m, l)
      BY <1>2, <2>2 DEF AppendEntriesRPC
    <3> HIDE DEF n
    <3>2. /\ a \in AppendEntriesRPC
          /\ a.prevLogIndex = n.prevLogIndex /\ a.prevLogTerm = n.prevLogTerm
          /\ a.next = n.next
      BY <3>1 DEF AppendEntriesRPC
    <3>3. RpcOK(a)
      BY <1>2, <2>2, <3>1, <3>2 DEF RpcOK, RPC, AppendEntriesRPC
    <3>4. \A r \in Answered(n) : RpcOK(r)
      BY <3>3 DEF Answered
    <3> QED
      BY <2>1, <3>4, RpcsReplaced DEF IndexInv, n
  <2>4. UNCHANGED volatile
    BY <1>1, <2>1 DEF volatile
  <2> QED
    BY <1>1, <1>4, <2>1, <2>3, <2>4, Unchanged DEF IndexInv
<1> QED
  BY <1>5, <1>6

\* What a reply, or its loss, does to the goroutine that waits for it.
LEMMA ReceivedOK ==
  ASSUME NEW c, CampaignOK(c), NEW m, RpcOK(m)
  PROVE  CampaignOK(Received(c, m)) /\ CampaignOK(Failed(c, m))
<1>1. c \in Campaign
  BY DEF CampaignOK
<1>2. m.kind = "RV" => m.granted \in BOOLEAN
  BY RpcKind DEF RpcOK, RequestVoteRPC
<1>3. \A g \in BOOLEAN : CampaignOK(Counted(c, g))
  BY <1>1, CountedOK DEF CampaignOK
<1>4. CampaignOK(Failed(c, m))
  BY <1>3 DEF Failed
<1>5. CASE m.kind = "AE" /\ c.at = "sleep"
  <2> DEFINE reply == [success |-> m.success, next |-> m.next]
             replies == [c.replies EXCEPT ![m.dst] = reply]
             d == [c EXCEPT !.replies = replies]
  <2>1. m.success \in BOOLEAN /\ m.next \in Nat /\ m.dst \in Server
    BY <1>5, RpcKind DEF RpcOK, AppendEntriesRPC
  <2>2. replies \in [Server -> Reply]
    BY <1>1, <2>1 DEF Campaign, Reply
  <2>3. Received(c, m) \in {c, d}
    BY <1>5 DEF Received
  <2> HIDE DEF replies
  <2>4. d \in Campaign /\ d.server = c.server /\ d.at = c.at
    BY <1>1, <2>2 DEF Campaign
  <2>5. CampaignOK(d)
    BY <2>4 DEF CampaignOK
  <2> QED
    BY <1>4, <2>3, <2>5
<1>6. CASE ~ (m.kind = "AE" /\ c.at = "sleep")
  BY <1>2, <1>3, <1>4, <1>6 DEF Received
<1> QED
  BY <1>5, <1>6

\* A reply comes in.
LEMMA SenderSyncStep ==
  ASSUME IndexInv, NEW m \in rpcs, senderSync(m)
  PROVE  IndexInv'
<1>1. UNCHANGED <<volatile, leading, nextIndex, routines, environ, waiting, resets>>
  BY DEF senderSync, leading
<1>2. RpcOK(m) /\ m.src \in Server /\ m.replyTerm \in Nat /\ m.at = "reply"
  BY RpcKind DEF IndexInv, RpcsOK, RpcOK, senderSync
<1>3. CASE currentTerm[m.src] < m.replyTerm
  <2>1. PersistentOK' /\ LogsRooted'
    BY <1>2, <1>3, TermSyncOK DEF senderSync
  <2>2. RpcOK([m EXCEPT !.at = "demote"])
    BY <1>2, RpcOKMoves
  <2>3. RpcsOK' /\ UNCHANGED campaigns
    BY <1>3, <2>2, RpcsReplaced DEF IndexInv, senderSync
  <2> QED
    BY <1>1, <2>1, <2>3, Unchanged DEF IndexInv
<1>4. CASE ~ (currentTerm[m.src] < m.replyTerm)
  <2>1. UNCHANGED persistent /\ rpcs' = rpcs \ {m}
    BY <1>4 DEF senderSync
  <2>2. RpcsOK'
    BY <2>1, RpcsSame DEF IndexInv
  <2>3. CampaignsOK'
    <3>1. campaigns' = {Received(c, m) : c \in campaigns}
      BY <1>4 DEF senderSync
    <3>2. \A c \in campaigns : CampaignOK(Received(c, m))
      BY <1>2, ReceivedOK DEF IndexInv, CampaignsOK
    <3> QED
      BY <1>1, <3>1, <3>2 DEF CampaignsOK, CampaignOK
  <2> QED
    BY <1>1, <2>1, <2>2, <2>3, Unchanged DEF IndexInv
<1> QED
  BY <1>3, <1>4

\* A Call returns false.
LEMMA CallFailsStep ==
  ASSUME IndexInv, NEW m \in rpcs, callFails(m) \/ callAbandoned(m)
  PROVE  IndexInv'
<1>1. UNCHANGED <<persistent, volatile, leading, nextIndex, routines, environ, waiting, resets>>
  BY DEF callFails, callAbandoned, leading
<1>2. RpcsOK'
  <2>1. CASE callFails(m)
    BY <2>1, RpcsSame DEF IndexInv, callFails
  <2>2. CASE callAbandoned(m)
    <3> DEFINE new == {[m EXCEPT !.caller = FALSE]}
    <3>1. \A n \in new : RpcOK(n)
      BY RpcOKMoves DEF IndexInv, RpcsOK
    <3>2. rpcs' = Replace(rpcs, m, new)
      BY <2>2 DEF callAbandoned
    <3> HIDE DEF new
    <3> QED
      BY <3>1, <3>2, RpcsReplaced DEF IndexInv
  <2> QED
    BY <2>1, <2>2
<1>3. CampaignsOK'
  <2>1. campaigns' = {Failed(c, m) : c \in campaigns}
    BY DEF callFails, callAbandoned
  <2>2. \A c \in campaigns : CampaignOK(Failed(c, m))
    BY ReceivedOK DEF IndexInv, CampaignsOK, RpcsOK
  <2> QED
    BY <1>1, <2>1, <2>2 DEF CampaignsOK, CampaignOK
<1> QED
  BY <1>1, <1>2, <1>3, Unchanged DEF IndexInv
-----------------------------------------------------------------------------
(* raft.go, raft_common.go and config.go *)

\* applyEntries, also past the end of the log.
LEMMA ApplyEntriesStep ==
  ASSUME IndexInv, ~ panicked, NEW s \in Server, applyEntries(s)
  PROVE  IndexInv'
<1> DEFINE Datum == Command \cup {None}
           from == lastApplied[s] + 1
           to == Min(commitIndex[s], LastIndex(log[s]))
           got == applied[s]
           len == IF to > Len(got) THEN to ELSE Len(got)
           datum(i) == IF i \in from .. to THEN log[s][i + 1].data ELSE got[i]
           new == [i \in 1 .. len |-> datum(i)]
<1>1. UNCHANGED <<persistent, commitIndex, leading, nextIndex, crashes, routines, waiting,
                  campaigns, rpcs, resets>>
  BY DEF applyEntries, leading
<1>2. /\ commitIndex[s] \in Nat /\ lastApplied[s] \in Nat /\ got \in Seq(Datum)
      /\ LastIndex(log[s]) \in Nat /\ lastApplied[s] <= Len(got)
  <2>1. lastApplied[s] <= Len(got)
    BY DEF IndexInv, AppliedOK
  <2>2. LastIndex(log[s]) \in Nat
    BY LogFacts DEF LastIndex
  <2> QED
    BY <2>1, <2>2 DEF IndexInv, VolatileOK
<1>3. to \in Nat /\ to <= LastIndex(log[s])
  <2>1. \A a, b \in Nat : Min(a, b) \in Nat /\ Min(a, b) <= b
    BY DEF Min
  <2> QED
    BY <1>2, <2>1
<1>4. len \in Nat
  BY <1>2, <1>3
<1>5. \A i \in 1 .. len : datum(i) \in Datum
  <2> SUFFICES ASSUME NEW i \in 1 .. len PROVE datum(i) \in Datum
    OBVIOUS
  <2>1. CASE i \in from .. to
    <3>1. i + 1 \in 1 .. Len(log[s])
      <4>1. i <= LastIndex(log[s]) /\ i \in Nat
        <5> HIDE DEF to, len
        <5> QED
          BY <1>2, <1>3, <1>4, <2>1
      <4> QED
        BY <4>1, LogFacts DEF LastIndex
    <3>2. log[s][i + 1] \in LogEntry
      BY <3>1, LogFacts
    <3> QED
      BY <2>1, <3>2 DEF LogEntry
  <2>2. CASE i \notin from .. to
    <3>1. i \in 1 .. Len(got)
      <4> HIDE DEF to, got
      <4> QED
        BY <1>2, <1>3, <2>2
    <3>2. got[i] \in Datum
      BY <1>2, <3>1
    <3> QED
      BY <2>2, <3>2
  <2> QED
    BY <2>1, <2>2
<1>6. new \in Seq(Datum)
  <2> HIDE DEF datum, len
  <2> QED
    BY <1>4, <1>5
<1>7. /\ lastApplied' = [lastApplied EXCEPT ![s] = commitIndex[s]]
      /\ applied' = [applied EXCEPT ![s] = new]
  BY DEF applyEntries, Delivered
<1>8. VolatileOK'
  <2> HIDE DEF new
  <2> QED
    BY <1>1, <1>2, <1>6, <1>7 DEF IndexInv, VolatileOK
<1>10. AppliedOK'
  <2>1. CASE commitIndex[s] > LastIndex(log[s])
    BY <2>1 DEF applyEntries, AppliedOK
  <2>2. CASE commitIndex[s] <= LastIndex(log[s])
    <3>1. to = commitIndex[s]
      BY <1>2, <2>2 DEF Min
    <3>2. Len(new) = len /\ len >= commitIndex[s]
      <4>1. len >= commitIndex[s]
        <5> HIDE DEF to, got
        <5> QED
          BY <1>2, <1>3, <3>1
      <4> HIDE DEF len, datum
      <4> QED
        BY <1>4, <4>1
    <3> HIDE DEF new, len
    <3> QED
      BY <1>2, <1>6, <1>7, <3>2 DEF IndexInv, VolatileOK, AppliedOK
  <2> QED
    BY <1>2, <2>1, <2>2
<1>9. EnvironOK'
  <2>1. panicked' \in BOOLEAN
    <3>1. panicked' = (commitIndex[s] > LastIndex(log[s]))
      BY DEF applyEntries
    <3> QED
      BY <1>2, <3>1
  <2> QED
    BY <1>1, <2>1 DEF IndexInv, EnvironOK
<1> QED
  BY <1>1, <1>8, <1>9, <1>10, Unchanged DEF IndexInv

\* Start appends to the log of a leader.
LEMMA StartStep ==
  ASSUME IndexInv, NEW s \in Server, NEW command \in Command, Start(s, command)
  PROVE  IndexInv'
<1> DEFINE entry == [term |-> currentTerm[s], data |-> command]
<1>1. UNCHANGED <<volatile, leading, nextIndex, routines, environ, waiting, campaigns, rpcs, resets>>
  BY DEF Start, leading
<1>2. entry \in LogEntry /\ log[s] \in Seq(LogEntry) /\ Rooted(log[s])
  BY DEF IndexInv, PersistentOK, LogsRooted, LogEntry
<1>3. Append(log[s], entry) \in Seq(LogEntry) /\ Rooted(Append(log[s], entry))
  <2> HIDE DEF entry
  <2>1. Len(log[s]) \in Nat /\ Len(log[s]) >= 1
    BY <1>2, RootedLen
  <2>2. /\ Append(log[s], entry) \in Seq(LogEntry)
        /\ Len(Append(log[s], entry)) = Len(log[s]) + 1
        /\ \A i \in 1 .. Len(log[s]) : Append(log[s], entry)[i] = log[s][i]
    BY <1>2, AppendProperties
  <2>3. Append(log[s], entry)[1] = log[s][1]
    BY <2>1, <2>2
  <2>4. log[s][1].term = 0
    BY <1>2, Zenon DEF Rooted
  <2>5. Append(log[s], entry)[1].term = 0
    BY <2>3, <2>4, Zenon
  <2>6. Len(Append(log[s], entry)) >= 1
    BY <2>1, <2>2
  <2>7. Rooted(Append(log[s], entry))
    BY <2>5, <2>6, Zenon DEF Rooted
  <2> QED
    BY <2>2, <2>7, Zenon
<1>4. /\ currentTerm' \in [Server -> Nat]
      /\ votedFor' \in [Server -> Server \cup {None}]
      /\ log' \in [Server -> Seq(LogEntry)]
      /\ \A t \in Server : Rooted(log'[t])
  <2>1. log' = [log EXCEPT ![s] = Append(log[s], entry)] /\ UNCHANGED <<currentTerm, votedFor>>
    BY DEF Start
  <2> HIDE DEF entry
  <2> QED
    BY <1>3, <2>1 DEF IndexInv, PersistentOK, LogsRooted
<1>5. PersistentOK' /\ LogsRooted'
  BY <1>4, Persisted DEF Start
<1> QED
  BY <1>1, <1>5, Unchanged DEF IndexInv

\* A crash takes away all that is in memory.
LEMMA CrashStep ==
  ASSUME IndexInv, NEW s \in Server, crash1(s)
  PROVE  IndexInv'
<1>1. UNCHANGED <<saved, applied, resets, panicked>>
  BY DEF crash1
<1>2. PersistentOK' /\ LogsRooted'
  BY <1>1, SentinelLog DEF IndexInv, PersistentOK, LogsRooted, crash1
<1>3. VolatileOK' /\ AppliedOK'
  <2>1. /\ commitIndex' = [commitIndex EXCEPT ![s] = 0]
        /\ lastApplied' = [lastApplied EXCEPT ![s] = 0]
    BY DEF crash1
  <2>2. VolatileOK'
    BY <1>1, <2>1 DEF IndexInv, VolatileOK
  <2>3. \A t \in Server : lastApplied'[t] = 0 \/ lastApplied'[t] = lastApplied[t]
    BY <2>1 DEF IndexInv, VolatileOK
  <2>4. \A t \in Server : Len(applied[t]) \in Nat
    BY DEF IndexInv, VolatileOK
  <2>5. AppliedOK'
    BY <1>1, <2>3, <2>4 DEF IndexInv, AppliedOK
  <2> QED
    BY <2>2, <2>5
<1>4. LeadingOK'
  BY DEF IndexInv, LeadingOK, NoIndices, crash1
<1>5. RoutinesOK' /\ WaitersOK' /\ EnvironOK'
  BY <1>1 DEF IndexInv, RoutinesOK, WaitersOK, EnvironOK, NoRoutines, Kill, crash1
<1>6. CampaignsOK'
  <2>1. campaigns' = {c \in campaigns : c.server # s}
    BY DEF crash1
  <2>2. \A t \in Server : t # s => nextIndex'[t] = nextIndex[t]
    BY DEF IndexInv, LeadingOK, crash1
  <2> QED
    BY <2>1, <2>2 DEF IndexInv, CampaignsOK, CampaignOK, Campaign
<1>7. RpcsOK'
  <2>1. \A n \in rpcs' : \E m \in rpcs :
          n \in {m, [m EXCEPT !.caller = FALSE], [m EXCEPT !.at = "lost"]}
    BY DEF crash1, CutOff
  <2>2. \A m \in rpcs : /\ RpcOK(m)
                        /\ RpcOK([m EXCEPT !.caller = FALSE])
                        /\ RpcOK([m EXCEPT !.at = "lost"])
    BY RpcOKMoves DEF IndexInv, RpcsOK
  <2> QED
    BY <2>1, <2>2 DEF RpcsOK
<1> QED
  BY <1>2, <1>3, <1>4, <1>5, <1>6, <1>7 DEF IndexInv

\* A restart reads a well-typed log from the Persister.
LEMMA RestartStep ==
  ASSUME IndexInv, NEW s \in Server, start1(s)
  PROVE  IndexInv'
<1>1. UNCHANGED <<saved, volatile, leading, nextIndex, environ, waiting, campaigns, rpcs, resets>>
  BY DEF start1, leading
<1>2. PersistentOK' /\ LogsRooted'
  BY <1>1 DEF IndexInv, PersistentOK, Disk, LogsRooted, start1, Make, readPersist
<1>3. RoutinesOK'
  BY DEF IndexInv, RoutinesOK, start1, Make
<1> QED
  BY <1>1, <1>2, <1>3, Unchanged DEF IndexInv
-----------------------------------------------------------------------------
\* Every step preserves the invariant.
LEMMA IndexNext == IndexInv /\ [Next]_vars => IndexInv'
<1> SUFFICES ASSUME IndexInv, [Next]_vars PROVE IndexInv'
  OBVIOUS
<1>1. CASE UNCHANGED vars
  <2>1. UNCHANGED <<persistent, volatile, leading, nextIndex, routines, waiting, resets, environ,
                    campaigns, rpcs>>
    BY <1>1 DEF vars, persistent, volatile, leading, routines, environ
  <2> QED
    BY <2>1, Unchanged DEF IndexInv
<1>2. ASSUME Next, NEW s \in Server, ServerStep(s) PROVE IndexInv'
  BY <1>2, FollowerSteps, CallElectionStep, ApplyEntriesStep DEF Next, ServerStep
<1>3. ASSUME NEW c \in campaigns, CampaignStep(c) PROVE IndexInv'
  BY <1>3, EndOfElectionSteps, InitLeaderStep, HeartbeatStep, EndBeatStep DEF CampaignStep
<1>4. ASSUME NEW m \in rpcs, RpcStep(m) PROVE IndexInv'
  BY <1>4, EncodeArgsStep, ReceiverSyncStep, DemoteSteps, RequestVoteStep, AppendEntriesStep,
     SenderSyncStep, CallFailsStep DEF RpcStep
<1> QED
  BY <1>1, <1>2, <1>3, <1>4, StartStep, CrashStep, RestartStep DEF Next

\* The invariant holds in every reachable state.
LEMMA IndexInvariant == Spec => []IndexInv
BY IndexInit, IndexNext, PTL DEF Spec

\* Every field of every peer and of every call in flight keeps its type,
\* through all interleavings, lost calls, crashes and restarts.
THEOREM TypeCorrect == Spec => []TypeOK
<1>1. IndexInv => TypeOK
  BY IndexInvImplies
<1> QED
  BY <1>1, IndexInvariant, PTL

\* heartbeat never slices a log out of its bounds and log repair never
\* stalls, whatever the interleaving and however late the replies.
THEOREM IndicesInRange == Spec => []NextIndexInRange
<1>1. IndexInv => NextIndexInRange
  BY IndexInvImplies
<1> QED
  BY <1>1, IndexInvariant, PTL
=============================================================================
