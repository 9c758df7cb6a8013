----------------------------- MODULE RaftTimely -----------------------------
(***************************************************************************)
(* Raft on a machine that is fast next to its timers: a goroutine that     *)
(* needs only the processor or rf.mu takes its step before a timer fires,  *)
(* a message arrives or the tester acts.  Election timeouts (300-500 ms)   *)
(* are long next to vote collection and heartbeats (50 ms), and labrpc     *)
(* delays a request by at most 27 ms.  The two constants give up the last  *)
(* assumption, one direction at a time.                                    *)
(***************************************************************************)
EXTENDS Raft

CONSTANTS LateReplies,   \* replies are held back for seconds (LongReordering)
          LateRequests   \* requests outlive the heartbeat round that sent them

ASSUME LatenessAssumption == LateReplies \in BOOLEAN /\ LateRequests \in BOOLEAN

\* Goroutines that wait for nothing but the processor or the lock.
RunnableServer(s) ==
  \/ spawned[s]["follower"] > 0
  \/ spawned[s]["candidate"] > 0 /\ (phase[s] = "candidate" => currentTerm[s] < MaxTerm)
  \/ waiting[s] > 0 /\ resets > 0
  \/ commitIndex[s] > lastApplied[s]

RunnableCampaign(c) ==
  \/ c.at \in {"check2", "lost", "won", "init"}
  \/ c.at = "beat" /\ RoundFree(c)
  \/ c.at = "collect" /\ resets > 0

RunnableRpc(m) ==
  \/ m.at \in {"encode", "sync", "payload", "demote"}
  \/ m.at = "reply" /\ ~ LateReplies

Runnable ==
  \/ \E s \in Server : RunnableServer(s)
  \/ \E c \in campaigns : RunnableCampaign(c)
  \/ \E m \in rpcs : RunnableRpc(m)

RunnableStep ==
  \/ \E s \in Server :
       awaitElection(s) \/ awaitReset(s) \/ callElection(s) \/ applyEntries(s)
  \/ \E c \in campaigns :
       \/ candidateCheck2(c) \/ lostVote(c) \/ elected(c) \/ initLeader(c) \/ heartbeat(c)
       \/ resets > 0 /\ voteInterrupt(c)
  \/ \E m \in rpcs :
       \/ encodeArgs(m) \/ receiverDemote(m) \/ RequestVote(m) \/ AppendEntries(m)
       \/ senderDemote(m)
       \/ m.at = "reply" /\ ~ LateReplies /\ (senderSync(m) \/ callFails(m))

\* A call that its own goroutine, or the round that sent it, has outwaited.
Pending(m) ==
  CASE m.at = "reply" -> ~ LateReplies
    [] m.at = "request" -> ~ LateRequests
    [] OTHER -> TRUE

TimerStep ==
  \/ \E s \in Server :
       /\ \A c \in campaigns : c.server = s => c.at = "collect" /\ LateReplies
       /\ currentTerm[s] < MaxTerm
       /\ awaitTimeout(s)
  \/ \E c \in campaigns :
       \/ voteInterrupt(c)
       \/ /\ \A m \in rpcs : m.src = c.server /\ m.by = c.term => ~ Pending(m)
          /\ endBeat(c)

NetworkStep ==
  \E m \in rpcs :
    \/ (m.kind = "AE" => resets < MaxResets) /\ receiverSync(m)
    \/ senderSync(m)
    \/ callFails(m)

TimelyNext ==
  /\ ~ panicked
  /\ IF Runnable THEN RunnableStep
     ELSE \/ TimerStep
          \/ NetworkStep
          \/ \E s \in Server, command \in Command : Start(s, command)
          \/ \E s \in Server : crash1(s)
          \/ \E s \in Server : start1(s)

TimelySpec == Init /\ [][TimelyNext]_vars
-----------------------------------------------------------------------------
\* At most one leader in a term, whenever the tester calls GetState
\* (config.go:315, "term %d has %d (>1) leaders").
ElectionSafety ==
  ~ Runnable => \A s, t \in Server :
    phase[s] = "leader" /\ phase[t] = "leader" /\ currentTerm[s] = currentTerm[t] => s = t

\* Two logs that have an entry of the same index and term agree up to it.
LogMatching ==
  \A s, t \in Server : \A i \in 1 .. Min(Len(log[s]), Len(log[t])) :
    log[s][i].term = log[t][i].term => SubSeq(log[s], 1, i) = SubSeq(log[t], 1, i)

\* No two servers apply different commands at an index, not even before and
\* after a restart (config.go:177, "some server has already committed a
\* different value for this entry!").
StateMachineSafety ==
  \A s, t \in Server : \A i \in 1 .. Min(Len(applied[s]), Len(applied[t])) :
    applied[s][i] = applied[t][i]

\* What is committed is still in the log, so applyEntries never runs off it.
CommittedInLog == \A s \in Server : commitIndex[s] <= LastIndex(log[s])

\* A leader whose term no server has gone past holds every entry that any
\* server has ever applied (the point of UpToDate and of committing only
\* entries of the leader's own term, raft_leader.go:85).
LeaderCompleteness ==
  ~ Runnable => \A s, t \in Server :
    phase[s] = "leader" /\ (\A u \in Server : saved[u].currentTerm <= currentTerm[s])
    => /\ Len(applied[t]) <= LastIndex(log[s])
       /\ \A i \in 1 .. Len(applied[t]) : log[s][i + 1].data = applied[t][i]

\* matchIndex is what the peer really holds: a leader counts a replica of an
\* entry only while the peer's disk has that entry, unless termSync has already
\* taken the leader on to a later term.
MatchIndexAccurate ==
  \A c \in campaigns :
    c.at \in {"beat", "sleep"} /\ phase[c.server] = "leader" /\ c.term = currentTerm[c.server] =>
      \A t \in Server \ {c.server} : saved[t].currentTerm <= currentTerm[c.server] =>
        LET i == matchIndex[c.server][t]
        IN  i < Len(saved[t].log) /\ saved[t].log[i + 1] = log[c.server][i + 1]
=============================================================================
