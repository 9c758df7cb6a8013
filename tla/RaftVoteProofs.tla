--------------------------- MODULE RaftVoteProofs ---------------------------
(***************************************************************************)
(* Votes and terms survive crashes: Raft implements Ballot, and a granted  *)
(* vote is on disk before anyone can count it.                             *)
(***************************************************************************)
EXTENDS RaftIndexProofs

\* persist is never forgotten: the disk of a running peer is what it holds.
Durable ==
  \A s \in Server : Up(s) =>
    /\ saved[s].currentTerm = currentTerm[s]
    /\ saved[s].votedFor = votedFor[s]
    /\ saved[s].log = log[s]

CampaignsUp == \A c \in campaigns : Up(c.server)

Backed(m) ==
  \/ saved[m.dst].currentTerm > m.term
  \/ saved[m.dst].currentTerm = m.term /\ saved[m.dst].votedFor = m.src

\* A call has a living caller if it can still return to one, and a handler
\* runs on a living peer that has reached the term of the call.
CallOK(m) ==
  /\ m.src # m.dst
  /\ m.caller => Up(m.src)
  /\ m.at \in {"reply", "demote"} => m.caller
  /\ m.at \in {"sync", "payload"} => Up(m.dst) /\ m.term <= currentTerm[m.dst]
  /\ m.kind = "RV" /\ m.granted => Backed(m)

CallsOK == \A m \in rpcs : CallOK(m)

VoteInv == IndexInv /\ Durable /\ CampaignsUp /\ CallsOK

\* What the invariant is for.
LEMMA VoteInvImplies == VoteInv => VotesAreDurable
BY DEF VoteInv, CallsOK, CallOK, Backed, VotesAreDurable

\* Empty Persisters hold what the fresh servers hold.
LEMMA VoteInit == Init => VoteInv
<1> SUFFICES ASSUME Init PROVE VoteInv
  OBVIOUS
<1>1. Durable /\ CampaignsUp /\ CallsOK
  BY DEF Init, Durable, CampaignsUp, CallsOK
<1> QED
  BY <1>1, IndexInit DEF VoteInv
-----------------------------------------------------------------------------
(* What a step may do to the terms and votes on disk: exactly the steps of *)
(* Ballot.                                                                 *)

SameVote(s) ==
  saved'[s].currentTerm = saved[s].currentTerm /\ saved'[s].votedFor = saved[s].votedFor

Enters(s) ==
  /\ saved'[s].currentTerm > saved[s].currentTerm
  /\ saved'[s].votedFor \in {None, s}

Casts(s) ==
  /\ saved'[s].currentTerm = saved[s].currentTerm
  /\ saved[s].votedFor = None
  /\ saved'[s].votedFor \in Server \ {s}

\* A step writes at most one disk.
DiskStep ==
  \/ \A s \in Server : SameVote(s)
  \/ \E s \in Server : /\ \A t \in Server \ {s} : SameVote(t)
                       /\ Enters(s) \/ Casts(s)

\* The terms of running peers do not go back and none of them goes down.
Onwards ==
  \A s \in Server : Up(s) => Up(s)' /\ currentTerm'[s] >= currentTerm[s]

\* Under such a step every call that was fine stays fine.
LEMMA CallsKept ==
  ASSUME VoteInv, IndexInv', DiskStep, Onwards
  PROVE  \A m \in rpcs : CallOK(m)'
<1> SUFFICES ASSUME NEW m \in rpcs PROVE CallOK(m)'
  OBVIOUS
<1>1. CallOK(m) /\ m \in RPC /\ m.src \in Server /\ m.dst \in Server /\ m.term \in Nat
  BY RpcKind DEF VoteInv, IndexInv, CallsOK, RpcsOK, RpcOK
<1>2. /\ currentTerm[m.dst] \in Nat /\ currentTerm'[m.dst] \in Nat
      /\ saved[m.dst].currentTerm \in Nat /\ saved'[m.dst].currentTerm \in Nat
  BY <1>1 DEF VoteInv, IndexInv, PersistentOK, Disk
<1>3. SameVote(m.dst) \/ Enters(m.dst) \/ Casts(m.dst)
  BY <1>1 DEF DiskStep
<1>4. Backed(m) => Backed(m)'
  BY <1>1, <1>2, <1>3, ServerAssumption DEF Backed, SameVote, Enters, Casts
<1> QED
  BY <1>1, <1>2, <1>4 DEF CallOK, Onwards

\* A step that writes nothing persistent and starts or kills no peer.
LEMMA QuietStep ==
  ASSUME VoteInv, UNCHANGED persistent, \A s \in Server : Up(s)' <=> Up(s)
  PROVE  Durable' /\ DiskStep /\ Onwards
<1>1. Durable'
  BY DEF VoteInv, Durable, persistent
<1>2. DiskStep
  BY DEF DiskStep, SameVote, persistent
<1>3. \A s \in Server : currentTerm[s] \in Nat
  BY DEF VoteInv, IndexInv, PersistentOK
<1>4. Onwards
  BY <1>3 DEF Onwards, persistent
<1> QED
  BY <1>1, <1>2, <1>4

\* A critical section that ends in persist.
LEMMA WrittenStep ==
  ASSUME VoteInv, NEW s \in Server, persist(s), UNCHANGED phase,
         \A t \in Server \ {s} : /\ currentTerm'[t] = currentTerm[t]
                                 /\ votedFor'[t] = votedFor[t]
                                 /\ log'[t] = log[t]
  PROVE  /\ Durable'
         /\ \A t \in Server \ {s} : SameVote(t)
         /\ saved'[s].currentTerm = currentTerm'[s]
         /\ saved'[s].votedFor = votedFor'[s]
<1>1. \A t \in Server : saved'[t] =
        IF t = s THEN [currentTerm |-> currentTerm'[s], votedFor |-> votedFor'[s], log |-> log'[s]]
                 ELSE saved[t]
  BY DEF VoteInv, IndexInv, PersistentOK, persist
<1>2. /\ saved'[s].currentTerm = currentTerm'[s]
      /\ saved'[s].votedFor = votedFor'[s]
      /\ saved'[s].log = log'[s]
  BY <1>1
<1>3. \A t \in Server \ {s} : saved'[t] = saved[t]
  BY <1>1
<1>4. \A t \in Server : Up(t)' = Up(t)
  BY DEF Up
<1>5. Durable'
  BY <1>2, <1>3, <1>4 DEF VoteInv, Durable
<1> QED
  BY <1>2, <1>3, <1>5 DEF SameVote

\* A peer that syncs to a later term enters it without a vote.
LEMMA TermSyncStep ==
  ASSUME VoteInv, NEW s \in Server, NEW t \in Nat, currentTerm[s] < t, Up(s),
         termSync(s, t), UNCHANGED phase
  PROVE  Durable' /\ DiskStep /\ Onwards /\ currentTerm'[s] = t
<1>1. /\ currentTerm' = [currentTerm EXCEPT ![s] = t]
      /\ votedFor' = [votedFor EXCEPT ![s] = None]
      /\ log' = log
      /\ persist(s)
  BY DEF termSync
<1>2. /\ \A u \in Server : currentTerm[u] \in Nat
      /\ currentTerm'[s] = t /\ votedFor'[s] = None
      /\ \A u \in Server \ {s} : currentTerm'[u] = currentTerm[u] /\ votedFor'[u] = votedFor[u]
  BY <1>1 DEF VoteInv, IndexInv, PersistentOK
<1>3. /\ Durable'
      /\ \A u \in Server \ {s} : SameVote(u)
      /\ saved'[s].currentTerm = t
      /\ saved'[s].votedFor = None
  BY <1>1, <1>2, WrittenStep
<1>4. Enters(s)
  BY <1>2, <1>3 DEF Enters, VoteInv, Durable
<1>5. DiskStep
  BY <1>3, <1>4 DEF DiskStep
<1>6. Onwards
  BY <1>2 DEF Onwards, Up
<1> QED
  BY <1>2, <1>3, <1>5, <1>6

\* phaseChange neither kills a server nor revives one.
LEMMA UpKept ==
  ASSUME VoteInv, NEW s \in Server, NEW to \in {"follower", "candidate"}, phaseChange(s, to)
  PROVE  \A t \in Server : Up(t)' <=> Up(t)
BY DEF VoteInv, IndexInv, RoutinesOK, Up, phaseChange, routines

\* What CallOK asks of a call that moves on.
LEMMA CallMoves ==
  ASSUME NEW m \in RPC, NEW a, NEW n, n = [m EXCEPT !.at = a], CallOK(m)',
         a \in {"reply", "demote"} => m.caller,
         a \in {"sync", "payload"} => Up(m.dst)' /\ m.term <= currentTerm'[m.dst]
  PROVE  CallOK(n)'
<1>1. /\ n.at = a /\ n.kind = m.kind /\ n.src = m.src /\ n.dst = m.dst
      /\ n.term = m.term /\ n.caller = m.caller
      /\ m.kind = "RV" => n.granted = m.granted
  BY RpcFields
<1> QED
  BY <1>1 DEF CallOK, Backed

VoteStep == Durable' /\ DiskStep /\ CampaignsUp' /\ CallsOK'

\* What is left to show of an action once its effect on the disks is known.
LEMMA StepOK ==
  ASSUME VoteInv, IndexInv', Durable', DiskStep, Onwards,
         NEW New, rpcs' \subseteq rpcs \cup New, \A n \in New : CallOK(n)',
         \A c \in campaigns' : \/ c.server \in {d.server : d \in campaigns}
                               \/ c.server \in Server /\ Up(c.server)
  PROVE  VoteStep
<1>1. CallsOK'
  BY CallsKept DEF CallsOK
<1>2. \A d \in campaigns : d.server \in Server /\ Up(d.server)
  BY DEF VoteInv, IndexInv, CampaignsOK, CampaignOK, Campaign, CampaignsUp
<1>3. CampaignsUp'
  BY <1>2 DEF CampaignsUp, Onwards
<1> QED
  BY <1>1, <1>3 DEF VoteStep

\* A step that leaves Persisters, terms and votes alone.
LEMMA QuietOK ==
  ASSUME VoteInv, IndexInv', UNCHANGED persistent, \A s \in Server : Up(s)' <=> Up(s),
         NEW New, rpcs' \subseteq rpcs \cup New, \A n \in New : CallOK(n)',
         \A c \in campaigns' : c.server \in {d.server : d \in campaigns}
  PROVE  VoteStep
BY QuietStep, StepOK

\* The steps of a server that write nothing.
LEMMA ServerVoteSteps ==
  ASSUME VoteInv, IndexInv', NEW s \in Server,
         awaitElection(s) \/ awaitReset(s) \/ awaitTimeout(s) \/ applyEntries(s)
  PROVE  VoteStep
<1>1. UNCHANGED <<persistent, campaigns, rpcs>>
  BY DEF awaitElection, awaitReset, awaitTimeout, applyEntries
<1>2. \A t \in Server : Up(t)' <=> Up(t)
  <2>1. CASE awaitTimeout(s)
    BY <2>1, UpKept DEF awaitTimeout
  <2>2. CASE awaitElection(s) \/ awaitReset(s) \/ applyEntries(s)
    BY <2>2 DEF awaitElection, awaitReset, applyEntries, routines, Up
  <2> QED
    BY <2>1, <2>2
<1> DEFINE New == {}
<1>3. /\ \A n \in New : CallOK(n)'
      /\ rpcs' \subseteq rpcs \cup New
      /\ \A c \in campaigns' : c.server \in {d.server : d \in campaigns}
  BY <1>1
<1> HIDE DEF New
<1> QED
  BY <1>1, <1>2, <1>3, QuietOK

\* The steps of an election or leader that write nothing.
LEMMA CampaignVoteSteps ==
  ASSUME VoteInv, IndexInv', NEW c \in campaigns,
         voteInterrupt(c) \/ candidateCheck2(c) \/ lostVote(c) \/ elected(c)
           \/ initLeader(c) \/ endBeat(c)
  PROVE  VoteStep
<1>1. UNCHANGED <<persistent, rpcs>>
  BY DEF voteInterrupt, candidateCheck2, lostVote, elected, initLeader, endBeat
<1>2. c \in Campaign /\ c.server \in Server /\ Up(c.server)
  BY DEF VoteInv, IndexInv, CampaignsOK, CampaignOK, Campaign, CampaignsUp
<1>3. \A t \in Server : Up(t)' <=> Up(t)
  <2>1. CASE voteInterrupt(c) \/ lostVote(c)
    BY <1>2, <2>1, UpKept DEF voteInterrupt, lostVote
  <2>2. CASE elected(c)
    BY <1>2, <2>2 DEF elected, Up, VoteInv, IndexInv, RoutinesOK
  <2>3. CASE candidateCheck2(c) \/ initLeader(c) \/ endBeat(c)
    BY <2>3 DEF candidateCheck2, initLeader, endBeat, routines, Up
  <2> QED
    BY <2>1, <2>2, <2>3
<1>4. \A d \in campaigns' : d.server \in {e.server : e \in campaigns}
  <2>1. /\ \A a : [c EXCEPT !.at = a].server = c.server
        /\ [c EXCEPT !.at = "beat", !.votes = 0, !.heard = 0].server = c.server
        /\ [c EXCEPT !.at = "beat", !.myLastIndex = 0, !.replies = NoReplies].server = c.server
    BY <1>2 DEF Campaign
  <2>2. \A d \in campaigns' :
          \/ d \in campaigns
          \/ \E a : d = [c EXCEPT !.at = a]
          \/ d = [c EXCEPT !.at = "beat", !.votes = 0, !.heard = 0]
          \/ d = [c EXCEPT !.at = "beat", !.myLastIndex = 0, !.replies = NoReplies]
    BY Zenon DEF voteInterrupt, candidateCheck2, lostVote, elected, initLeader, endBeat, Replace
  <2> QED
    BY <2>1, <2>2
<1> DEFINE New == {}
<1>5. rpcs' \subseteq rpcs \cup New /\ \A n \in New : CallOK(n)'
  BY <1>1
<1> HIDE DEF New
<1> QED
  BY <1>1, <1>3, <1>4, <1>5, QuietOK

\* heartbeat sends calls that carry no vote.
LEMMA HeartbeatVoteStep ==
  ASSUME VoteInv, IndexInv', NEW c \in campaigns, heartbeat(c)
  PROVE  VoteStep
<1> DEFINE New == {AppendEntriesArgs(c, t) : t \in Server \ {c.server}}
<1>1. UNCHANGED persistent /\ UNCHANGED routines
  BY DEF heartbeat
<1>2. c \in Campaign /\ c.server \in Server /\ Up(c.server)
  BY DEF VoteInv, IndexInv, CampaignsOK, CampaignOK, Campaign, CampaignsUp
<1>3. \A t \in Server : Up(t)' <=> Up(t)
  BY <1>1 DEF routines, Up
<1>4. \A d \in campaigns' : d.server \in {e.server : e \in campaigns}
  <2>1. [c EXCEPT !.at = "sleep", !.beat = NextBeat(c),
                  !.myLastIndex = LastIndex(log[c.server])].server = c.server
    BY <1>2 DEF Campaign
  <2> QED
    BY <2>1 DEF heartbeat, Replace
<1>5. \A n \in New : CallOK(n)'
  <2> SUFFICES ASSUME NEW t \in Server \ {c.server}, NEW n, n = AppendEntriesArgs(c, t)
               PROVE  CallOK(n)'
    OBVIOUS
  <2>1. /\ n.kind = "AE" /\ n.src = c.server /\ n.dst = t
        /\ n.at \in {"encode", "request"}
    BY DEF AppendEntriesArgs
  <2> QED
    BY <1>2, <1>3, <2>1 DEF CallOK
<1>6. rpcs' \subseteq rpcs \cup New
  BY DEF heartbeat
<1> HIDE DEF New
<1> QED
  BY <1>1, <1>3, <1>4, <1>5, <1>6, QuietOK

\* callElection votes for itself as it enters the term.
LEMMA CallElectionVoteStep ==
  ASSUME VoteInv, IndexInv', NEW s \in Server, callElection(s)
  PROVE  VoteStep
<1>1. CASE phase[s] # "candidate"
  <2> DEFINE New == {}
  <2>1. /\ UNCHANGED <<persistent, campaigns, rpcs, phase>>
        /\ \A t \in Server : Up(t)' <=> Up(t)
        /\ rpcs' \subseteq rpcs \cup New /\ \A n \in New : CallOK(n)'
    BY <1>1 DEF callElection, Up
  <2> HIDE DEF New
  <2> QED
    BY <2>1, QuietOK
<1>2. CASE phase[s] = "candidate"
  <2> DEFINE New == {RequestVoteArgs(s, t) : t \in Server \ {s}}
             c == [server |-> s, term |-> currentTerm[s] + 1, at |-> "collect",
                   votes |-> 0, heard |-> 0,
                   beat |-> 0, myLastIndex |-> 0, replies |-> NoReplies]
  <2>1. /\ currentTerm' = [currentTerm EXCEPT ![s] = currentTerm[s] + 1]
        /\ votedFor' = [votedFor EXCEPT ![s] = s]
        /\ log' = log /\ phase' = phase
        /\ persist(s)
        /\ rpcs' = rpcs \cup New
        /\ campaigns' = campaigns \cup {Counted(c, TRUE)}
    BY <1>2 DEF callElection
  <2>2. /\ \A t \in Server : currentTerm[t] \in Nat
        /\ currentTerm'[s] = currentTerm[s] + 1 /\ votedFor'[s] = s
        /\ \A t \in Server \ {s} : currentTerm'[t] = currentTerm[t] /\ votedFor'[t] = votedFor[t]
    BY <2>1 DEF VoteInv, IndexInv, PersistentOK
  <2>3. /\ Durable'
        /\ \A t \in Server \ {s} : SameVote(t)
        /\ saved'[s].currentTerm = currentTerm[s] + 1
        /\ saved'[s].votedFor = s
    BY <2>1, <2>2, WrittenStep
  <2>4. Up(s) /\ \A t \in Server : Up(t)' <=> Up(t)
    BY <1>2, <2>1 DEF Up
  <2>5. Enters(s)
    <3>1. saved[s].currentTerm = currentTerm[s]
      BY <2>4 DEF VoteInv, Durable
    <3>2. currentTerm[s] \in Nat
      BY DEF VoteInv, IndexInv, PersistentOK
    <3>3. saved'[s].currentTerm > saved[s].currentTerm
      BY <2>3, <3>1, <3>2
    <3> QED
      BY <2>3, <3>3 DEF Enters
  <2>6. DiskStep
    BY <2>3, <2>5 DEF DiskStep
  <2>7. Onwards
    BY <2>2, <2>4 DEF Onwards
  <2>8. \A n \in New : CallOK(n)'
    <3> SUFFICES ASSUME NEW t \in Server \ {s}, NEW n, n = RequestVoteArgs(s, t)
                 PROVE  CallOK(n)'
      OBVIOUS
    <3>1. /\ n.kind = "RV" /\ n.src = s /\ n.dst = t /\ n.granted = FALSE /\ n.at = "request"
      BY DEF RequestVoteArgs
    <3> QED
      BY <2>4, <3>1 DEF CallOK
  <2>9. Counted(c, TRUE).server = s
    BY DEF Counted
  <2> HIDE DEF New, c
  <2>10. \A d \in campaigns' : \/ d.server \in {e.server : e \in campaigns}
                               \/ d.server \in Server /\ Up(d.server)
    BY <2>1, <2>4, <2>9
  <2> QED
    BY <2>1, <2>3, <2>6, <2>7, <2>8, <2>10, StepOK
<1> QED
  BY <1>1, <1>2

\* The caller's goroutine is the same one after a reply or a failure.
LEMMA SameCampaign ==
  ASSUME NEW c \in Campaign, NEW m
  PROVE  Received(c, m).server = c.server /\ Failed(c, m).server = c.server
<1>1. Counted(c, m.granted).server = c.server /\ Counted(c, FALSE).server = c.server
  BY DEF Counted, Campaign
<1> DEFINE d == [c EXCEPT !.replies =
                   [c.replies EXCEPT ![m.dst] = [success |-> m.success, next |-> m.next]]]
<1>2. d.server = c.server
  BY DEF Campaign
<1>3. Received(c, m) = c \/ Received(c, m) = d \/ Received(c, m) = Counted(c, m.granted)
  BY DEF Received
<1>4. Failed(c, m) = c \/ Failed(c, m) = Counted(c, FALSE)
  BY DEF Failed
<1> HIDE DEF d
<1>5. Received(c, m).server = c.server
  BY <1>1, <1>2, <1>3
<1>6. Failed(c, m).server = c.server
  BY <1>1, <1>4
<1> QED
  BY <1>5, <1>6

\* A call that loses its caller changes nothing else.
LEMMA CutFields ==
  ASSUME NEW m \in RPC, NEW n, n = [m EXCEPT !.caller = FALSE]
  PROVE  /\ n.at = m.at /\ n.kind = m.kind /\ n.src = m.src /\ n.dst = m.dst
         /\ n.term = m.term /\ n.caller = FALSE
         /\ m.kind = "RV" => n.granted = m.granted
<1>1. CASE m \in RequestVoteRPC
  BY <1>1 DEF RequestVoteRPC
<1>2. CASE m \in AppendEntriesRPC
  BY <1>2 DEF AppendEntriesRPC
<1> QED
  BY <1>1, <1>2 DEF RPC

\* Steps of calls that change no server.
LEMMA PassiveRpcVoteSteps ==
  ASSUME VoteInv, IndexInv', NEW m \in rpcs, callFails(m) \/ callAbandoned(m) \/ encodeArgs(m)
  PROVE  VoteStep
<1>1. /\ m \in RPC /\ m.src \in Server /\ m.dst \in Server /\ CallOK(m)
      /\ \A c \in campaigns : c \in Campaign
  BY RpcKind DEF VoteInv, IndexInv, RpcsOK, RpcOK, CallsOK, CampaignsOK, CampaignOK
<1>2. UNCHANGED <<persistent, routines>>
  BY DEF callFails, callAbandoned, encodeArgs
<1>3. \A t \in Server : Up(t)' <=> Up(t)
  BY <1>2 DEF routines, Up
<1>4. \A c \in campaigns' : c.server \in {d.server : d \in campaigns}
  <2>1. campaigns' = campaigns \/ campaigns' = {Failed(c, m) : c \in campaigns}
    BY DEF callFails, callAbandoned, encodeArgs
  <2>2. \A c \in campaigns : Received(c, m).server = c.server /\ Failed(c, m).server = c.server
    BY <1>1, SameCampaign
  <2> QED
    BY <2>1, <2>2
<1>5. CASE callFails(m)
  <2> DEFINE New == {}
  <2>1. rpcs' \subseteq rpcs \cup New /\ \A n \in New : CallOK(n)'
    BY <1>5 DEF callFails
  <2> HIDE DEF New
  <2> QED
    BY <1>2, <1>3, <1>4, <2>1, QuietOK
<1>6. CASE encodeArgs(m)
  <2>1. PICK e : rpcs' = Replace(rpcs, m, {[m EXCEPT !.at = "request", !.entries = e]})
    BY <1>6, Zenon DEF encodeArgs
  <2> DEFINE n == [m EXCEPT !.at = "request", !.entries = e]
             New == {n}
  <2>2. m \in AppendEntriesRPC
    BY <1>1, <1>6 DEF encodeArgs, RPC, RequestVoteRPC
  <2>3. /\ n.src = m.src /\ n.dst = m.dst /\ n.kind = "AE" /\ n.at = "request"
        /\ n.caller = m.caller
    BY <2>2 DEF AppendEntriesRPC
  <2>4. rpcs' \subseteq rpcs \cup New
    BY <2>1 DEF Replace
  <2> HIDE DEF n
  <2>5. \A r \in New : CallOK(r)'
    <3> SUFFICES ASSUME NEW r, r = n PROVE CallOK(r)'
      OBVIOUS
    <3> QED
      BY <1>1, <1>3, <2>3 DEF CallOK
  <2> HIDE DEF New
  <2> QED
    BY <1>2, <1>3, <1>4, <2>4, <2>5, QuietOK
<1>7. CASE callAbandoned(m)
  <2>1. PICK n : n = [m EXCEPT !.caller = FALSE]
    OBVIOUS
  <2> DEFINE New == {n}
  <2>2. CallOK(m)'
    BY <1>2, <1>3, QuietStep, CallsKept
  <2>3. CallOK(n)'
    BY <1>1, <1>7, <2>1, <2>2, CutFields DEF CallOK, Backed, callAbandoned
  <2>4. rpcs' \subseteq rpcs \cup New /\ \A r \in New : CallOK(r)'
    BY <1>7, <2>1, <2>3 DEF callAbandoned, Replace
  <2> HIDE DEF New
  <2> QED
    BY <1>2, <1>3, <1>4, <2>4, QuietOK
<1> QED
  BY <1>5, <1>6, <1>7

\* A handler stamps the reply with the term it found.
LEMMA StampedOK ==
  ASSUME NEW m \in RPC, NEW t \in Nat, NEW n, n = [m EXCEPT !.replyTerm = t], CallOK(m)'
  PROVE  n \in RPC /\ n.dst = m.dst /\ n.term = m.term /\ n.caller = m.caller /\ CallOK(n)'
<1>1. n \in RPC
  BY RpcMoves
<1>2. /\ n.at = m.at /\ n.kind = m.kind /\ n.src = m.src /\ n.dst = m.dst
      /\ n.term = m.term /\ n.caller = m.caller
      /\ m.kind = "RV" => n.granted = m.granted
  <2>1. CASE m \in RequestVoteRPC
    BY <2>1 DEF RequestVoteRPC
  <2>2. CASE m \in AppendEntriesRPC
    BY <2>2 DEF AppendEntriesRPC
  <2> QED
    BY <2>1, <2>2 DEF RPC
<1> QED
  BY <1>1, <1>2 DEF CallOK, Backed

\* termSync in the handlers writes the new term before anything else.
LEMMA ReceiverSyncVoteStep ==
  ASSUME VoteInv, IndexInv', NEW m \in rpcs, receiverSync(m)
  PROVE  VoteStep
<1>1. /\ m \in RPC /\ m.src \in Server /\ m.dst \in Server /\ m.term \in Nat
      /\ currentTerm[m.dst] \in Nat /\ currentTerm'[m.dst] \in Nat
  BY RpcKind DEF VoteInv, IndexInv, RpcsOK, RpcOK, PersistentOK
<1>2. Up(m.dst) /\ UNCHANGED campaigns /\ UNCHANGED routines
  BY DEF receiverSync, Up
<1>3. \A t \in Server : Up(t)' <=> Up(t)
  BY <1>2 DEF Up, routines
<1> DEFINE got == [m EXCEPT !.replyTerm = currentTerm[m.dst]]
<1>4. \A c \in campaigns' : c.server \in {d.server : d \in campaigns}
  BY <1>2
<1>5. CASE currentTerm[m.dst] < m.term
  <2>1. termSync(m.dst, m.term) /\ rpcs' = Replace(rpcs, m, {[got EXCEPT !.at = "sync"]})
    BY <1>5 DEF receiverSync
  <2>2. Durable' /\ DiskStep /\ Onwards /\ currentTerm'[m.dst] = m.term
    BY <1>1, <1>2, <1>5, <2>1, TermSyncStep DEF routines
  <2>3. CallOK(m)'
    BY <2>2, CallsKept
  <2>4. PICK r : r = got
    OBVIOUS
  <2>5. r \in RPC /\ r.dst = m.dst /\ r.term = m.term /\ CallOK(r)'
    BY <1>1, <2>3, <2>4, StampedOK
  <2>6. rpcs' = Replace(rpcs, m, {[r EXCEPT !.at = "sync"]})
    BY <2>1, <2>4
  <2> HIDE DEF got
  <2>7. PICK n : n = [r EXCEPT !.at = "sync"]
    OBVIOUS
  <2> DEFINE New == {n}
  <2>8. CallOK(n)'
    BY <1>1, <1>2, <1>3, <2>2, <2>5, <2>7, CallMoves
  <2>9. rpcs' \subseteq rpcs \cup New /\ \A q \in New : CallOK(q)'
    BY <2>6, <2>7, <2>8 DEF Replace
  <2> HIDE DEF New
  <2> QED
    BY <1>4, <2>2, <2>9, StepOK
<1>6. CASE ~ (currentTerm[m.dst] < m.term)
  <2>1. UNCHANGED persistent
    BY <1>6 DEF receiverSync
  <2>2. CallOK(m)'
    BY <1>3, <2>1, QuietStep, CallsKept
  <2>3. PICK r : r = got
    OBVIOUS
  <2>4. r \in RPC /\ r.dst = m.dst /\ r.term = m.term /\ CallOK(r)'
    BY <1>1, <2>2, <2>3, StampedOK
  <2>5. \A q \in rpcs' : \/ q \in rpcs
                         \/ q = [r EXCEPT !.at = "payload"] /\ currentTerm[m.dst] = m.term
                         \/ q = [r EXCEPT !.at = "reply"] /\ r.caller
    BY <1>6, <2>3, Zenon DEF receiverSync, Replace, Answered
  <2> HIDE DEF got
  <2> DEFINE New == rpcs' \ rpcs
  <2>6. currentTerm'[m.dst] = currentTerm[m.dst]
    BY <2>1 DEF persistent
  <2>7. \A q \in New : CallOK(q)'
    <3> SUFFICES ASSUME NEW q \in New PROVE CallOK(q)'
      OBVIOUS
    <3>1. CASE q = [r EXCEPT !.at = "payload"] /\ currentTerm[m.dst] = m.term
      BY <1>1, <1>2, <1>3, <2>4, <2>6, <3>1, CallMoves
    <3>2. CASE q = [r EXCEPT !.at = "reply"] /\ r.caller
      BY <2>4, <3>2, CallMoves
    <3> QED
      BY <2>5, <3>1, <3>2
  <2>8. rpcs' \subseteq rpcs \cup New
    OBVIOUS
  <2> HIDE DEF New
  <2> QED
    BY <1>3, <1>4, <2>1, <2>7, <2>8, QuietOK
<1> QED
  BY <1>5, <1>6

\* A demotion changes neither term nor vote.
LEMMA DemoteVoteSteps ==
  ASSUME VoteInv, IndexInv', NEW m \in rpcs, receiverDemote(m) \/ senderDemote(m)
  PROVE  VoteStep
<1>1. m \in RPC /\ m.src \in Server /\ m.dst \in Server /\ CallOK(m)
  BY RpcKind DEF VoteInv, IndexInv, RpcsOK, RpcOK, CallsOK
<1>2. UNCHANGED <<persistent, campaigns>>
  BY DEF receiverDemote, senderDemote
<1>3. \A t \in Server : Up(t)' <=> Up(t)
  BY <1>1, UpKept DEF receiverDemote, senderDemote
<1>4. \A c \in campaigns' : c.server \in {d.server : d \in campaigns}
  BY <1>2
<1>5. CallOK(m)'
  BY <1>2, <1>3, QuietStep, CallsKept
<1>6. PICK a : /\ rpcs' = Replace(rpcs, m, {[m EXCEPT !.at = a]})
               /\ \/ a = "payload" /\ m.at = "sync"
                  \/ a = "reply" /\ m.at = "demote"
  BY DEF receiverDemote, senderDemote
<1>7. PICK n : n = [m EXCEPT !.at = a]
  OBVIOUS
<1>8. CallOK(n)'
  BY <1>1, <1>5, <1>6, <1>7, CallMoves DEF CallOK
<1> DEFINE New == {n}
<1>9. rpcs' \subseteq rpcs \cup New /\ \A q \in New : CallOK(q)'
  BY <1>6, <1>7, <1>8 DEF Replace
<1> HIDE DEF New
<1> QED
  BY <1>2, <1>3, <1>4, <1>9, QuietOK

\* A vote is granted only after it is on disk.
LEMMA RequestVoteVoteStep ==
  ASSUME VoteInv, IndexInv', NEW m \in rpcs, RequestVote(m)
  PROVE  VoteStep
<1>1. /\ m \in RequestVoteRPC /\ m \in RPC /\ CallOK(m)
      /\ m.src \in Server /\ m.dst \in Server /\ m.term \in Nat
  BY RpcKind DEF VoteInv, IndexInv, RpcsOK, RpcOK, CallsOK, RequestVote, RPC
<1>2. UNCHANGED <<campaigns, routines>> /\ m.at = "payload"
  BY DEF RequestVote
<1>3. (\A t \in Server : Up(t)' <=> Up(t)) /\ phase' = phase
  BY <1>2 DEF Up, routines
<1>4. \A c \in campaigns' : c.server \in {d.server : d \in campaigns}
  BY <1>2
<1>5. Up(m.dst) /\ m.term <= currentTerm[m.dst] /\ m.src # m.dst
  BY <1>1, <1>2 DEF CallOK
<1>6. /\ \A t \in Server : currentTerm[t] \in Nat
      /\ \A t \in Server \ {m.dst} : votedFor' = [votedFor EXCEPT ![m.dst] = m.src] =>
           votedFor'[t] = votedFor[t]
      /\ votedFor' = [votedFor EXCEPT ![m.dst] = m.src] => votedFor'[m.dst] = m.src
  BY <1>1 DEF VoteInv, IndexInv, PersistentOK
<1>7. /\ Durable' /\ DiskStep /\ Onwards
      /\ Grants(m) => saved'[m.dst].currentTerm = currentTerm[m.dst]
                      /\ saved'[m.dst].votedFor = m.src
  <2>1. CASE Grants(m)
    <3>1. /\ votedFor' = [votedFor EXCEPT ![m.dst] = m.src]
          /\ UNCHANGED <<currentTerm, log>> /\ persist(m.dst)
      BY <2>1 DEF RequestVote
    <3>2. /\ Durable'
          /\ \A t \in Server \ {m.dst} : SameVote(t)
          /\ saved'[m.dst].currentTerm = currentTerm[m.dst]
          /\ saved'[m.dst].votedFor = m.src
      BY <1>1, <1>3, <1>6, <3>1, WrittenStep
    <3>3. /\ saved[m.dst].currentTerm = currentTerm[m.dst]
          /\ saved[m.dst].votedFor \in {None, m.src}
      BY <1>1, <1>5, <2>1 DEF VoteInv, Durable, Grants
    <3>4. SameVote(m.dst) \/ Casts(m.dst)
      BY <1>1, <1>5, <3>2, <3>3 DEF SameVote, Casts
    <3>5. DiskStep
      BY <1>1, <3>2, <3>4 DEF DiskStep
    <3>6. Onwards
      BY <1>3, <1>6, <3>1 DEF Onwards
    <3> QED
      BY <3>2, <3>5, <3>6
  <2>2. CASE ~ Grants(m)
    BY <1>3, <2>2, QuietStep DEF RequestVote
  <2> QED
    BY <2>1, <2>2
<1>8. PICK n : n = [m EXCEPT !.granted = Grants(m)]
  OBVIOUS
<1>9. /\ n \in RequestVoteRPC /\ n.granted = Grants(m)
      /\ n.at = "payload" /\ n.kind = "RV" /\ n.src = m.src /\ n.dst = m.dst
      /\ n.term = m.term /\ n.caller = m.caller
  <2>1. Grants(m) \in BOOLEAN
    BY DEF Grants
  <2> QED
    BY <1>1, <1>2, <1>8, <2>1 DEF RequestVoteRPC
<1>10. CallOK(n)'
  <2>1. CallOK(m)'
    BY <1>7, CallsKept
  <2>2. n.granted => Backed(n)'
    <3>1. n.granted = Grants(m) /\ n.term = m.term /\ n.src = m.src /\ n.dst = m.dst
      BY <1>9
    <3> QED
      BY <1>1, <1>5, <1>6, <1>7, <3>1 DEF Backed
  <2> QED
    BY <1>2, <1>9, <2>1, <2>2 DEF CallOK
<1> DEFINE New == rpcs' \ rpcs
<1>11. \A q \in New : CallOK(q)'
  <2>1. \A q \in New : q = [n EXCEPT !.at = "reply"] /\ n.caller
    BY <1>8, Zenon DEF RequestVote, Replace, Answered
  <2>2. n \in RPC
    BY <1>9 DEF RPC
  <2> QED
    BY <1>10, <2>1, <2>2, CallMoves
<1>12. rpcs' \subseteq rpcs \cup New
  OBVIOUS
<1> HIDE DEF New
<1> QED
  BY <1>4, <1>7, <1>11, <1>12, StepOK

\* AppendEntries persists the log with term and vote as they are.
LEMMA AppendEntriesVoteStep ==
  ASSUME VoteInv, IndexInv', NEW m \in rpcs, AppendEntries(m)
  PROVE  VoteStep
<1>1. /\ m \in AppendEntriesRPC /\ m \in RPC /\ CallOK(m)
      /\ m.src \in Server /\ m.dst \in Server /\ m.term \in Nat
  BY RpcKind DEF VoteInv, IndexInv, RpcsOK, RpcOK, CallsOK, AppendEntries, RPC
<1>2. UNCHANGED <<campaigns, routines>> /\ m.at = "payload"
  BY DEF AppendEntries
<1>3. (\A t \in Server : Up(t)' <=> Up(t)) /\ phase' = phase
  BY <1>2 DEF Up, routines
<1>4. \A c \in campaigns' : c.server \in {d.server : d \in campaigns}
  BY <1>2
<1>5. Up(m.dst) /\ \A t \in Server : currentTerm[t] \in Nat
  BY <1>1, <1>2 DEF CallOK, VoteInv, IndexInv, PersistentOK
<1>6. Durable' /\ DiskStep /\ Onwards
  <2>1. CASE Matches(m, log[m.dst])
    <3>1. /\ log' = [log EXCEPT ![m.dst] = Merged(m, log[m.dst])]
          /\ UNCHANGED <<currentTerm, votedFor>> /\ persist(m.dst)
      BY <2>1 DEF AppendEntries
    <3>2. \A t \in Server \ {m.dst} : log'[t] = log[t]
      BY <3>1 DEF VoteInv, IndexInv, PersistentOK
    <3>3. /\ Durable'
          /\ \A t \in Server \ {m.dst} : SameVote(t)
          /\ saved'[m.dst].currentTerm = currentTerm[m.dst]
          /\ saved'[m.dst].votedFor = votedFor[m.dst]
      BY <1>1, <1>3, <3>1, <3>2, WrittenStep
    <3>4. DiskStep
      BY <1>1, <1>5, <3>3 DEF VoteInv, Durable, SameVote, DiskStep
    <3>5. Onwards
      BY <1>3, <1>5, <3>1 DEF Onwards
    <3> QED
      BY <3>3, <3>4, <3>5
  <2>2. CASE ~ Matches(m, log[m.dst])
    BY <1>3, <2>2, QuietStep DEF AppendEntries, persistent
  <2> QED
    BY <2>1, <2>2
<1>7. CallOK(m)'
  BY <1>6, CallsKept
<1> DEFINE New == rpcs' \ rpcs
<1>8. \A q \in New : CallOK(q)'
  <2> SUFFICES ASSUME NEW q \in New PROVE CallOK(q)'
    OBVIOUS
  <2>1. PICK n : /\ n = [m EXCEPT !.success = TRUE] \/ n = [m EXCEPT !.next = Backoff(m, log[m.dst])]
                 /\ q = [n EXCEPT !.at = "reply"]
                 /\ n.caller
    BY Zenon DEF AppendEntries, Replace, Answered
  <2>2. /\ q.kind = "AE" /\ q.src = m.src /\ q.dst = m.dst /\ q.caller = n.caller
        /\ q.at = "reply" /\ n.caller = m.caller
    BY <1>1, <2>1 DEF AppendEntriesRPC
  <2> QED
    BY <1>7, <2>1, <2>2 DEF CallOK
<1>9. rpcs' \subseteq rpcs \cup New
  OBVIOUS
<1> HIDE DEF New
<1> QED
  BY <1>4, <1>6, <1>8, <1>9, StepOK

\* termSync on the sender, or the end of a call.
LEMMA SenderSyncVoteStep ==
  ASSUME VoteInv, IndexInv', NEW m \in rpcs, senderSync(m)
  PROVE  VoteStep
<1>1. /\ m \in RPC /\ m.src \in Server /\ m.dst \in Server /\ m.replyTerm \in Nat /\ CallOK(m)
      /\ \A c \in campaigns : c \in Campaign
  BY RpcKind DEF VoteInv, IndexInv, RpcsOK, RpcOK, CallsOK, CampaignsOK, CampaignOK
<1>2. Up(m.src) /\ m.caller /\ UNCHANGED routines
  BY <1>1 DEF senderSync, CallOK
<1>3. (\A t \in Server : Up(t)' <=> Up(t)) /\ phase' = phase
  BY <1>2 DEF Up, routines
<1>4. \A c \in campaigns' : c.server \in {d.server : d \in campaigns}
  <2>1. campaigns' = campaigns \/ campaigns' = {Received(c, m) : c \in campaigns}
    BY DEF senderSync
  <2>2. \A c \in campaigns : Received(c, m).server = c.server /\ Failed(c, m).server = c.server
    BY <1>1, SameCampaign
  <2> QED
    BY <2>1, <2>2
<1>5. CASE currentTerm[m.src] < m.replyTerm
  <2>1. termSync(m.src, m.replyTerm) /\ rpcs' = Replace(rpcs, m, {[m EXCEPT !.at = "demote"]})
    BY <1>5 DEF senderSync
  <2>2. Durable' /\ DiskStep /\ Onwards
    BY <1>1, <1>2, <1>3, <1>5, <2>1, TermSyncStep
  <2>3. PICK n : n = [m EXCEPT !.at = "demote"]
    OBVIOUS
  <2>4. CallOK(n)'
    BY <1>1, <1>2, <2>2, <2>3, CallsKept, CallMoves
  <2> DEFINE New == {n}
  <2>5. rpcs' \subseteq rpcs \cup New /\ \A q \in New : CallOK(q)'
    BY <2>1, <2>3, <2>4 DEF Replace
  <2> HIDE DEF New
  <2> QED
    BY <1>4, <2>2, <2>5, StepOK
<1>6. CASE ~ (currentTerm[m.src] < m.replyTerm)
  <2> DEFINE New == {}
  <2>1. UNCHANGED persistent /\ rpcs' \subseteq rpcs \cup New /\ \A q \in New : CallOK(q)'
    BY <1>6 DEF senderSync
  <2> HIDE DEF New
  <2> QED
    BY <1>3, <1>4, <2>1, QuietOK
<1> QED
  BY <1>5, <1>6

\* Start persists the log with term and vote as they are.
LEMMA StartVoteStep ==
  ASSUME VoteInv, IndexInv', NEW s \in Server, NEW command \in Command, Start(s, command)
  PROVE  VoteStep
<1>1. /\ UNCHANGED <<currentTerm, votedFor, campaigns, rpcs, routines>>
      /\ persist(s) /\ Up(s)
  BY DEF Start, Up
<1>2. /\ \A t \in Server \ {s} : log'[t] = log[t]
      /\ \A t \in Server : currentTerm[t] \in Nat
      /\ phase' = phase
  BY <1>1 DEF Start, VoteInv, IndexInv, PersistentOK, routines
<1>3. /\ Durable'
      /\ \A t \in Server \ {s} : SameVote(t)
      /\ saved'[s].currentTerm = currentTerm[s]
      /\ saved'[s].votedFor = votedFor[s]
  BY <1>1, <1>2, WrittenStep
<1>4. DiskStep
  BY <1>1, <1>3 DEF VoteInv, Durable, SameVote, DiskStep
<1>5. Onwards
  <2>1. \A t \in Server : Up(t)' <=> Up(t)
    BY <1>2 DEF Up
  <2> QED
    BY <1>1, <1>2, <2>1 DEF Onwards
<1> DEFINE New == {}
<1>6. /\ rpcs' \subseteq rpcs \cup New /\ \A q \in New : CallOK(q)'
      /\ \A c \in campaigns' : c.server \in {d.server : d \in campaigns}
  BY <1>1
<1> HIDE DEF New
<1> QED
  BY <1>3, <1>4, <1>5, <1>6, StepOK

\* A crash writes no disk and leaves only calls that can do without the peer.
LEMMA CrashVoteStep ==
  ASSUME VoteInv, IndexInv', NEW s \in Server, crash1(s)
  PROVE  VoteStep
<1>1. /\ saved' = saved
      /\ \A t \in Server \ {s} : /\ currentTerm'[t] = currentTerm[t]
                                 /\ votedFor'[t] = votedFor[t]
                                 /\ log'[t] = log[t]
                                 /\ Up(t)' <=> Up(t)
      /\ ~ Up(s)'
  BY DEF crash1, Kill, Up, VoteInv, IndexInv, PersistentOK, RoutinesOK
<1>2. Durable'
  BY <1>1 DEF VoteInv, Durable
<1>3. DiskStep
  BY <1>1 DEF DiskStep, SameVote
<1>4. CampaignsUp'
  <2>1. campaigns' = {c \in campaigns : c.server # s}
    BY DEF crash1
  <2> QED
    BY <1>1, <2>1 DEF VoteInv, IndexInv, CampaignsOK, CampaignOK, Campaign, CampaignsUp
<1>5. CallsOK'
  <2> SUFFICES ASSUME NEW n \in rpcs' PROVE CallOK(n)'
    BY DEF CallsOK
  <2>1. PICK m \in rpcs :
          /\ ~ (m.src = s /\ m.at \in {"encode", "reply", "demote", "lost"})
          /\ n = IF m.src = s THEN [m EXCEPT !.caller = FALSE]
                 ELSE IF m.dst = s /\ m.at \in {"sync", "payload"} THEN [m EXCEPT !.at = "lost"]
                 ELSE m
    BY DEF crash1, CutOff
  <2>2. m \in RPC /\ CallOK(m) /\ m.src \in Server /\ m.dst \in Server
    BY RpcKind DEF VoteInv, IndexInv, RpcsOK, RpcOK, CallsOK
  <2>3. Backed(m)' <=> Backed(m)
    BY <1>1 DEF Backed
  <2>4. CASE m.src = s
    <3>1. n = [m EXCEPT !.caller = FALSE]
      BY <2>1, <2>4
    <3>2. /\ n.at = m.at /\ n.kind = m.kind /\ n.src = m.src /\ n.dst = m.dst
          /\ n.term = m.term /\ n.caller = FALSE
          /\ m.kind = "RV" => n.granted = m.granted
      BY <2>2, <3>1, CutFields
    <3> QED
      BY <1>1, <2>1, <2>2, <2>3, <2>4, <3>2 DEF CallOK, Backed
  <2>5. CASE m.src # s /\ m.dst = s /\ m.at \in {"sync", "payload"}
    <3>1. n = [m EXCEPT !.at = "lost"]
      BY <2>1, <2>5
    <3>2. /\ n.at = "lost" /\ n.kind = m.kind /\ n.src = m.src /\ n.dst = m.dst
          /\ n.term = m.term /\ n.caller = m.caller
          /\ m.kind = "RV" => n.granted = m.granted
      BY <2>2, <3>1, RpcFields
    <3> QED
      BY <1>1, <2>2, <2>3, <2>5, <3>2 DEF CallOK, Backed
  <2>6. CASE m.src # s /\ ~ (m.dst = s /\ m.at \in {"sync", "payload"})
    BY <1>1, <2>1, <2>2, <2>3, <2>6 DEF CallOK
  <2> QED
    BY <2>4, <2>5, <2>6
<1> QED
  BY <1>2, <1>3, <1>4, <1>5 DEF VoteStep

\* A new instance takes over the term and the vote of the old one.
LEMMA RestartVoteStep ==
  ASSUME VoteInv, IndexInv', NEW s \in Server, start1(s)
  PROVE  VoteStep
<1>1. /\ UNCHANGED <<saved, campaigns, rpcs>>
      /\ \A t \in Server \ {s} : /\ currentTerm'[t] = currentTerm[t]
                                 /\ votedFor'[t] = votedFor[t]
                                 /\ log'[t] = log[t]
                                 /\ Up(t)' <=> Up(t)
      /\ currentTerm'[s] = saved[s].currentTerm
      /\ votedFor'[s] = saved[s].votedFor
      /\ log'[s] = saved[s].log
      /\ ~ Up(s) /\ \A t \in Server : currentTerm[t] \in Nat
  <2>1. /\ phase[s] = "exit"
        /\ phase' = [phase EXCEPT ![s] = "follower"]
        /\ currentTerm' = [currentTerm EXCEPT ![s] = saved[s].currentTerm]
        /\ votedFor' = [votedFor EXCEPT ![s] = saved[s].votedFor]
        /\ log' = [log EXCEPT ![s] = saved[s].log]
        /\ UNCHANGED <<saved, campaigns, rpcs>>
    BY DEF start1, Make, readPersist
  <2>2. /\ currentTerm \in [Server -> Nat]
        /\ DOMAIN votedFor = Server /\ DOMAIN log = Server /\ DOMAIN phase = Server
    BY DEF VoteInv, IndexInv, PersistentOK, RoutinesOK
  <2>3. ASSUME NEW t \in Server \ {s}
        PROVE  /\ currentTerm'[t] = currentTerm[t]
               /\ votedFor'[t] = votedFor[t]
               /\ log'[t] = log[t]
               /\ Up(t)' <=> Up(t)
    BY <2>1, <2>2 DEF Up
  <2>4. /\ currentTerm'[s] = saved[s].currentTerm
        /\ votedFor'[s] = saved[s].votedFor
        /\ log'[s] = saved[s].log
    BY <2>1, <2>2
  <2>5. ~ Up(s) /\ \A t \in Server : currentTerm[t] \in Nat
    BY <2>1, <2>2 DEF Up
  <2> QED
    BY <2>1, <2>3, <2>4, <2>5
<1>2. Durable'
  BY <1>1 DEF VoteInv, Durable
<1>3. DiskStep
  BY <1>1 DEF DiskStep, SameVote
<1>4. Onwards
  BY <1>1 DEF Onwards
<1> DEFINE New == {}
<1>5. /\ rpcs' \subseteq rpcs \cup New /\ \A q \in New : CallOK(q)'
      /\ \A c \in campaigns' : c.server \in {d.server : d \in campaigns}
  BY <1>1
<1> HIDE DEF New
<1> QED
  BY <1>2, <1>3, <1>4, <1>5, StepOK
-----------------------------------------------------------------------------
\* VoteInv is inductive, and every step does to the disks what Ballot allows.
LEMMA VoteNext == VoteInv /\ [Next]_vars => VoteInv' /\ DiskStep
<1> SUFFICES ASSUME VoteInv, [Next]_vars PROVE VoteInv' /\ DiskStep
  OBVIOUS
<1>1. IndexInv'
  BY IndexNext DEF VoteInv
<1> SUFFICES VoteStep
  BY <1>1 DEF VoteStep, VoteInv
<1>2. CASE UNCHANGED vars
  <2> DEFINE New == {}
  <2>1. /\ UNCHANGED persistent
        /\ \A s \in Server : Up(s)' <=> Up(s)
        /\ rpcs' \subseteq rpcs \cup New /\ \A q \in New : CallOK(q)'
        /\ \A c \in campaigns' : c.server \in {d.server : d \in campaigns}
    BY <1>2 DEF vars, persistent, Up
  <2> HIDE DEF New
  <2> QED
    BY <1>1, <2>1, QuietOK
<1>3. ASSUME NEW s \in Server, ServerStep(s) PROVE VoteStep
  BY <1>1, <1>3, ServerVoteSteps, CallElectionVoteStep DEF ServerStep
<1>4. ASSUME NEW c \in campaigns, CampaignStep(c) PROVE VoteStep
  BY <1>1, <1>4, CampaignVoteSteps, HeartbeatVoteStep DEF CampaignStep
<1>5. ASSUME NEW m \in rpcs, RpcStep(m) PROVE VoteStep
  BY <1>1, <1>5, PassiveRpcVoteSteps, ReceiverSyncVoteStep, DemoteVoteSteps, RequestVoteVoteStep,
     AppendEntriesVoteStep, SenderSyncVoteStep DEF RpcStep
<1> QED
  BY <1>1, <1>2, <1>3, <1>4, <1>5, StartVoteStep, CrashVoteStep, RestartVoteStep DEF Next

\* The invariant holds in every reachable state.
LEMMA VoteInvariant == Spec => []VoteInv
BY VoteInit, VoteNext, PTL DEF Spec

\* A vote that sendRequestVote can still count is on the voter's disk, or the
\* voter's disk is past that term, whatever crashes and restarts happen.
THEOREM VotesDurable == Spec => []VotesAreDurable
BY VoteInvariant, VoteInvImplies, PTL

HeldTerm == [s \in Server |-> IF Up(s) THEN currentTerm[s] ELSE saved[s].currentTerm]
HeldVote == [s \in Server |-> IF Up(s) THEN votedFor[s] ELSE saved[s].votedFor]

\* What a server holds, up or down, is what is on its disk.
LEMMA HeldIsSaved ==
  VoteInv => /\ HeldTerm = [s \in Server |-> saved[s].currentTerm]
             /\ HeldVote = [s \in Server |-> saved[s].votedFor]
BY DEF VoteInv, Durable, HeldTerm, HeldVote

\* The same of the state after a step.
LEMMA HeldIsSavedNext ==
  VoteInv' => /\ HeldTerm' = [s \in Server |-> saved'[s].currentTerm]
              /\ HeldVote' = [s \in Server |-> saved'[s].votedFor]
BY DEF VoteInv, Durable, HeldTerm, HeldVote

\* A write to one disk is one step of Ballot, or none.
LEMMA BallotStep ==
  ASSUME VoteInv, VoteInv', DiskStep
  PROVE  [B!Next]_<<HeldTerm, HeldVote>>
<1>1. /\ HeldTerm = [s \in Server |-> saved[s].currentTerm]
      /\ HeldVote = [s \in Server |-> saved[s].votedFor]
      /\ HeldTerm' = [s \in Server |-> saved'[s].currentTerm]
      /\ HeldVote' = [s \in Server |-> saved'[s].votedFor]
  BY HeldIsSaved, HeldIsSavedNext
<1>2. CASE \A s \in Server : SameVote(s)
  BY <1>1, <1>2 DEF SameVote
<1>3. ASSUME NEW s \in Server, \A t \in Server \ {s} : SameVote(t), Enters(s)
      PROVE  B!Next
  <2>1. PICK v \in {None, s} : v = saved'[s].votedFor
    BY <1>3 DEF Enters
  <2>2. B!Enter(s, v)
    <3>1. HeldTerm'[s] > HeldTerm[s]
      BY <1>1, <1>3 DEF Enters
    <3>2. HeldTerm' = [HeldTerm EXCEPT ![s] = HeldTerm'[s]]
      BY <1>1, <1>3 DEF SameVote
    <3>3. HeldVote' = [HeldVote EXCEPT ![s] = v]
      BY <1>1, <1>3, <2>1 DEF SameVote
    <3> QED
      BY <3>1, <3>2, <3>3 DEF B!Enter, HeldTerm, HeldVote
  <2> QED
    BY <2>2 DEF B!Next
<1>4. ASSUME NEW s \in Server, \A t \in Server \ {s} : SameVote(t), Casts(s)
      PROVE  B!Next
  <2>1. PICK c \in Server \ {s} : c = saved'[s].votedFor
    BY <1>4 DEF Casts
  <2>2. B!Cast(s, c)
    <3>1. HeldVote[s] = None
      BY <1>1, <1>4 DEF Casts
    <3>2. HeldVote' = [HeldVote EXCEPT ![s] = c]
      BY <1>1, <1>4, <2>1 DEF SameVote
    <3>3. HeldTerm' = HeldTerm
      BY <1>1, <1>4 DEF SameVote, Casts
    <3> QED
      BY <3>1, <3>2, <3>3 DEF B!Cast, HeldTerm, HeldVote
  <2> QED
    BY <2>2 DEF B!Next
<1> QED
  BY <1>2, <1>3, <1>4 DEF DiskStep

\* Every peer of the implementation keeps the promise of module Ballot: its
\* term never goes back, and within a term it never changes its vote or takes
\* it back, even when it is killed between any two critical sections.
THEOREM RaftImplementsBallot == Spec => BallotSpec
<1>1. Init => B!Init
  BY DEF Init, B!Init, Up
<1>2. VoteInv /\ VoteInv' /\ [Next]_vars => [B!Next]_<<HeldTerm, HeldVote>>
  BY VoteNext, BallotStep
<1> QED
  BY <1>1, <1>2, VoteInvariant, PTL DEF Spec, BallotSpec, B!Spec, HeldTerm, HeldVote
=============================================================================
