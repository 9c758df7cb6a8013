-------------------------------- MODULE Raft --------------------------------
(***************************************************************************)
(* The Raft peer of src/src/raft: one instance per server, the goroutines  *)
(* it spawns, the RPCs in flight between instances and the crash/restart   *)
(* cycle the tester drives.  A step is one critical section (one hold of   *)
(* rf.mu) or one blocking operation, so every place where the code lets go *)
(* of the lock is a place where other goroutines may run.                  *)
(*                                                                         *)
(* Indices keep their Go values: entry i of a Go log is log[i + 1] here,   *)
(* and entry 0 is the sentinel Make puts there.                            *)
(***************************************************************************)
EXTENDS Naturals, Sequences, FiniteSets

CONSTANTS Server,    \* the peers
          None,      \* votedFor = -1
          Command,   \* what clients pass to Start
          Aliased,   \* may the log be overwritten before args.Entries is encoded?
          MaxTerm,   \* bound: no election is called beyond this term
          MaxLog,    \* bound: Start is not called on a log of this last index
          MaxCrash,  \* bound: number of crashes
          Beats,     \* bound: heartbeat rounds of one leader with RPCs pending
          MaxResets  \* bound: senders blocked on electionReset

\* With a single peer heartbeat indexes sortedMatchIndex out of range.
ASSUME ServerAssumption ==
  /\ IsFiniteSet(Server)
  /\ Cardinality(Server) > 1
  /\ None \notin Server

ASSUME BoundAssumption ==
  /\ Aliased \in BOOLEAN
  /\ MaxTerm \in Nat
  /\ MaxLog \in Nat
  /\ MaxCrash \in Nat
  /\ Beats \in Nat \ {0}
  /\ MaxResets \in Nat

VARIABLES
  phase,        \* Raft.phase; "exit" is a killed instance
  currentTerm, votedFor, log,    \* the persistent fields of Raft
  commitIndex, lastApplied,      \* the volatile ones
  nextIndex, matchIndex,         \* the leader's slices
  saved,        \* what each server's Persister holds
  spawned,      \* init goroutines not yet past their first lock, per phase
  waiting,      \* awaitElection goroutines blocked in their select
  campaigns,    \* callElection goroutines, until they return
  rpcs,         \* Call()s in progress
  resets,       \* goroutines blocked sending on electionReset
  applied,      \* cfg.logs: what the tester saw each server apply
  crashes,      \* number of crashes so far
  panicked      \* an index out of range has ended the process

persistent == <<currentTerm, votedFor, log, saved>>
volatile   == <<commitIndex, lastApplied, applied>>
leading    == <<nextIndex, matchIndex>>
routines   == <<phase, spawned>>
environ    == <<crashes, panicked>>
vars == <<phase, currentTerm, votedFor, log, commitIndex, lastApplied,
          nextIndex, matchIndex, saved, spawned, waiting, campaigns, rpcs,
          resets, applied, crashes, panicked>>
-----------------------------------------------------------------------------
N == Cardinality(Server)
majority == (N + 1) \div 2          \* math.Ceil(len(peers) / 2)
Min(a, b) == IF a <= b THEN a ELSE b
MaxOf(S) == CHOOSE x \in S : \A y \in S : y <= x

Sentinel == [term |-> 0, data |-> None]
LogEntry == [term : Nat, data : Command \cup {None}]
LastIndex(l) == Len(l) - 1
TermAt(l, i) == l[i + 1].term

NoReply == [success |-> FALSE, next |-> 0]
NoReplies == [t \in Server |-> NoReply]
NoRoutines == [p \in {"follower", "candidate"} |-> 0]
NoIndices == [t \in Server |-> 0]

\* Mutation: the vote is not encoded.
persistWithoutVote(s) ==
  saved' = [saved EXCEPT ![s].currentTerm = currentTerm'[s], ![s].log = log'[s]]

(* persist: called with the lock held, after the fields have their new     *)
(* values.                                                                 *)
persist(s) ==
  saved' = [saved EXCEPT ![s] = [currentTerm |-> currentTerm'[s],
                                 votedFor    |-> votedFor'[s],
                                 log         |-> log'[s]]]

(* phaseChange(to, async): a critical section of its own.                  *)
phaseChange(s, to) ==
  IF phase[s] \in {"exit", to}
  THEN UNCHANGED routines
  ELSE /\ phase' = [phase EXCEPT ![s] = to]
       /\ spawned' = [spawned EXCEPT ![s][to] = @ + 1]

(* termSync's first critical section, when the other term is newer; the    *)
(* caller's later phaseChange("follower") is a separate step.              *)
termSync(s, otherTerm) ==
  /\ currentTerm' = [currentTerm EXCEPT ![s] = otherTerm]
  /\ votedFor' = [votedFor EXCEPT ![s] = None]
  /\ UNCHANGED log
  /\ persist(s)

Replace(S, old, new) == (S \ {old}) \cup new
-----------------------------------------------------------------------------
(* raft_follower.go *)

awaitElection(s) ==
  /\ spawned[s]["follower"] > 0
  /\ spawned' = [spawned EXCEPT ![s]["follower"] = @ - 1]
  /\ waiting' = [waiting EXCEPT ![s] = IF phase[s] = "follower" THEN @ + 1 ELSE @]
  /\ UNCHANGED <<persistent, volatile, leading, environ, phase, campaigns, rpcs, resets>>

\* Whoever waits on the package-wide electionReset may take the token.
awaitReset(s) ==
  /\ waiting[s] > 0
  /\ resets > 0
  /\ resets' = resets - 1
  /\ waiting' = [waiting EXCEPT ![s] = @ - 1]
  /\ spawned' = [spawned EXCEPT ![s]["follower"] = @ + 1]
  /\ UNCHANGED <<persistent, volatile, leading, environ, phase, campaigns, rpcs>>

awaitTimeout(s) ==
  /\ waiting[s] > 0
  /\ waiting' = [waiting EXCEPT ![s] = @ - 1]
  /\ phaseChange(s, "candidate")
  /\ UNCHANGED <<persistent, volatile, leading, environ, campaigns, rpcs, resets>>
-----------------------------------------------------------------------------
(* raft_candidate.go.  The goroutine of an election is identified by its   *)
(* server and term; once elected the same goroutine runs the heartbeats.   *)

\* The loop over the votes channel ends with a majority or the last vote.
Counted(c, granted) ==
  LET votes == c.votes + (IF granted THEN 1 ELSE 0)
      heard == c.heard + 1
  IN  [c EXCEPT !.votes = votes,
                !.heard = heard,
                !.at = IF votes >= majority \/ heard = N THEN "check2" ELSE "collect"]

RequestVoteArgs(s, t) ==
  [kind |-> "RV", src |-> s, dst |-> t,
   term |-> currentTerm[s] + 1, by |-> currentTerm[s] + 1,
   lastLogIndex |-> LastIndex(log[s]), lastLogTerm |-> TermAt(log[s], LastIndex(log[s])),
   at |-> "request", caller |-> TRUE, replyTerm |-> 0, granted |-> FALSE]

callElection(s) ==
  /\ spawned[s]["candidate"] > 0
  /\ spawned' = [spawned EXCEPT ![s]["candidate"] = @ - 1]
  /\ IF phase[s] # "candidate"
     THEN UNCHANGED <<persistent, campaigns, rpcs>>
     ELSE /\ currentTerm[s] < MaxTerm
          /\ currentTerm' = [currentTerm EXCEPT ![s] = @ + 1]
          /\ votedFor' = [votedFor EXCEPT ![s] = s]
          /\ UNCHANGED log
          /\ persist(s)
          /\ rpcs' = rpcs \cup {RequestVoteArgs(s, t) : t \in Server \ {s}}
          /\ campaigns' = campaigns \cup
               {Counted([server |-> s, term |-> currentTerm[s] + 1, at |-> "collect",
                         votes |-> 0, heard |-> 0,
                         beat |-> 0, myLastIndex |-> 0, replies |-> NoReplies], TRUE)}
  /\ UNCHANGED <<volatile, leading, environ, phase, waiting, resets>>

\* electionReset or voteTimeout while collecting votes.
voteInterrupt(c) ==
  /\ c.at = "collect"
  /\ \/ resets > 0 /\ resets' = resets - 1
     \/ UNCHANGED resets
  /\ phaseChange(c.server, "follower")
  /\ campaigns' = campaigns \ {c}
  /\ UNCHANGED <<persistent, volatile, leading, environ, waiting, rpcs>>

candidateCheck2(c) ==
  /\ c.at = "check2"
  /\ campaigns' = Replace(campaigns, c,
       IF phase[c.server] # "candidate" THEN {}
       ELSE {[c EXCEPT !.at = IF c.votes >= majority THEN "won" ELSE "lost"]})
  /\ UNCHANGED <<persistent, volatile, leading, environ, routines, waiting, rpcs, resets>>

lostVote(c) ==
  /\ c.at = "lost"
  /\ phaseChange(c.server, "follower")
  /\ campaigns' = campaigns \ {c}
  /\ UNCHANGED <<persistent, volatile, leading, environ, waiting, rpcs, resets>>

\* phaseChange("leader", sync): the goroutine goes on into initLeader.
elected(c) ==
  /\ c.at = "won"
  /\ phase' = [phase EXCEPT ![c.server] = "leader"]
  /\ campaigns' = Replace(campaigns, c,
       IF phase[c.server] = "leader" THEN {} ELSE {[c EXCEPT !.at = "init"]})
  /\ UNCHANGED <<persistent, volatile, leading, environ, spawned, waiting, rpcs, resets>>
-----------------------------------------------------------------------------
(* raft_leader.go *)

\* Mutation: slices that start at -1.
MinusOnes == [t \in Server |-> 0 - 1]

\* make([]int, len(rf.peers))
FreshMatch == [t \in Server |-> 0]

initLeader(c) ==
  /\ c.at = "init"
  /\ nextIndex' = [nextIndex EXCEPT ![c.server] = [t \in Server |-> Len(log[c.server])]]
  /\ matchIndex' = [matchIndex EXCEPT ![c.server] = FreshMatch]
  /\ campaigns' = Replace(campaigns, c, {[c EXCEPT !.at = "beat", !.votes = 0, !.heard = 0]})
  /\ UNCHANGED <<persistent, volatile, environ, routines, waiting, rpcs, resets>>

\* A round that still has calls pending.
RoundPending(c, beat) ==
  \E m \in rpcs : m.kind = "AE" /\ m.src = c.server /\ m.by = c.term /\ m.beat = beat

\* Rounds are told apart only while calls of more than one are pending.
NextBeat(c) == IF RoundPending(c, c.beat) THEN (c.beat + 1) % Beats ELSE c.beat

\* The bound Beats.
RoundFree(c) == ~ RoundPending(c, NextBeat(c))

AppendEntriesArgs(c, t) ==
  LET s == c.server
      prev == Min(nextIndex[s][t], Len(log[s])) - 1
  IN  [kind |-> "AE", src |-> s, dst |-> t,
       term |-> currentTerm[s], by |-> c.term, beat |-> NextBeat(c),
       prevLogIndex |-> prev, prevLogTerm |-> TermAt(log[s], prev),
       entries |-> IF nextIndex[s][t] < Len(log[s])
                   THEN SubSeq(log[s], nextIndex[s][t] + 1, Len(log[s])) ELSE << >>,
       leaderCommit |-> commitIndex[s],
       at |-> IF Aliased THEN "encode" ELSE "request", caller |-> TRUE,
       replyTerm |-> 0, success |-> FALSE, next |-> 0]

\* The first half of heartbeat, up to its sleep.
heartbeat(c) ==
  /\ c.at = "beat"
  /\ RoundFree(c)
  /\ IF phase[c.server] # "leader"
     THEN /\ campaigns' = campaigns \ {c}
          /\ UNCHANGED rpcs
     ELSE /\ rpcs' = rpcs \cup {AppendEntriesArgs(c, t) : t \in Server \ {c.server}}
          /\ campaigns' = Replace(campaigns, c,
               {[c EXCEPT !.at = "sleep", !.beat = NextBeat(c),
                          !.myLastIndex = LastIndex(log[c.server])]})
  /\ UNCHANGED <<persistent, volatile, leading, environ, routines, waiting, resets>>

\* Mutation: one server fewer than a majority.
ReplicatedOneFewer(s, match, i) ==
  Cardinality({t \in Server \ {s} : match[t] >= i}) >= N - (N + 1) \div 2 - 1

\* sortedMatchIndex[(n + 1) / 2] >= i, with the leader's own entry set to 0.
Replicated(s, match, i) ==
  Cardinality({t \in Server \ {s} : match[t] >= i}) >= N - (N + 1) \div 2

\* Mutation: entries of any term are committed.
CommittableAny(s, match) == {i \in commitIndex[s] + 1 .. LastIndex(log[s]) : Replicated(s, match, i)}

\* The entries the commit phase may commit, of which it takes the last.
Committable(s, match) ==
  {i \in commitIndex[s] + 1 .. LastIndex(log[s]) :
     Replicated(s, match, i) /\ TermAt(log[s], i) = currentTerm[s]}

\* Mutation: a round without a reply resets nextIndex.
NextIndexUnchecked(c, t) ==
  IF c.replies[t].success THEN c.myLastIndex + 1 ELSE c.replies[t].next

NextIndexAfter(c, t) ==
  IF c.replies[t].success THEN c.myLastIndex + 1
  ELSE IF c.replies[t].next >= 1 THEN c.replies[t].next
  ELSE nextIndex[c.server][t]

\* Mutation: the log as it is after the sleep, not as it was sent.
MatchIndexLate(c, t) ==
  IF c.replies[t].success THEN LastIndex(log[c.server]) ELSE matchIndex[c.server][t]

MatchIndexAfter(c, t) ==
  IF c.replies[t].success THEN c.myLastIndex ELSE matchIndex[c.server][t]

\* The second half of heartbeat: replies that have come in are used, the
\* others are never looked at.
endBeat(c) ==
  LET s == c.server
      match == [t \in Server |-> MatchIndexAfter(c, t)]
  IN  /\ c.at = "sleep"
      /\ IF phase[s] # "leader"
         THEN /\ campaigns' = campaigns \ {c}
              /\ UNCHANGED <<leading, commitIndex>>
         ELSE /\ nextIndex' = [nextIndex EXCEPT ![s] = [t \in Server |-> NextIndexAfter(c, t)]]
              /\ matchIndex' = [matchIndex EXCEPT ![s] = match]
              /\ commitIndex' = [commitIndex EXCEPT ![s] =
                    IF Committable(s, match) = {} THEN @ ELSE MaxOf(Committable(s, match))]
              /\ campaigns' = Replace(campaigns, c,
                    {[c EXCEPT !.at = "beat", !.myLastIndex = 0, !.replies = NoReplies]})
      /\ UNCHANGED <<persistent, lastApplied, applied, environ, routines, waiting, rpcs, resets>>
-----------------------------------------------------------------------------
(* The RPCs.  A Call() goes request -> (handler) sync -> payload -> reply  *)
(* -> (sender) demote; labrpc runs the handler at most once and may lose   *)
(* the request or the reply, in any order with other calls.                *)

Answered(m) == IF m.caller THEN {[m EXCEPT !.at = "reply"]} ELSE {}

\* args.Entries is a slice of rf.log, encoded by Call() after the lock is gone.
\* An append in place by AppendEntries may have overwritten any part of it.
encodeArgs(m) ==
  LET here(i) == m.prevLogIndex + i + 1
      shared == {i \in 1 .. Len(m.entries) : here(i) <= Len(log[m.src])}
  IN  /\ m.at = "encode"
      /\ \E newTerm \in SUBSET shared, newData \in SUBSET shared :
           rpcs' = Replace(rpcs, m, {[m EXCEPT !.at = "request", !.entries =
             [i \in 1 .. Len(m.entries) |->
                [term |-> IF i \in newTerm THEN log[m.src][here(i)].term ELSE m.entries[i].term,
                 data |-> IF i \in newData THEN log[m.src][here(i)].data ELSE m.entries[i].data]]]})
      /\ UNCHANGED <<persistent, volatile, leading, environ, routines, waiting, campaigns, resets>>

\* termSync on the receiver, for both handlers.
receiverSync(m) ==
  LET s == m.dst
      got == [m EXCEPT !.replyTerm = currentTerm[s]]
  IN  /\ m.at = "request"
      /\ phase[s] # "exit"
      /\ IF currentTerm[s] < m.term
         THEN /\ termSync(s, m.term)
              /\ rpcs' = Replace(rpcs, m, {[got EXCEPT !.at = "sync"]})
         ELSE /\ UNCHANGED persistent
              /\ rpcs' = Replace(rpcs, m, IF currentTerm[s] = m.term
                                          THEN {[got EXCEPT !.at = "payload"]}
                                          ELSE Answered(got))
      /\ UNCHANGED <<volatile, leading, environ, routines, waiting, campaigns, resets>>

receiverDemote(m) ==
  /\ m.at = "sync"
  /\ phaseChange(m.dst, "follower")
  /\ rpcs' = Replace(rpcs, m, {[m EXCEPT !.at = "payload"]})
  /\ UNCHANGED <<persistent, volatile, leading, environ, waiting, campaigns, resets>>

\* rpc_requestvote.go, the payload.

UpToDate(m, l) ==
  \/ m.lastLogTerm > TermAt(l, LastIndex(l))
  \/ m.lastLogTerm = TermAt(l, LastIndex(l)) /\ m.lastLogIndex >= LastIndex(l)

\* Mutation: any up-to-date candidate gets the vote.
GrantsAny(m) == UpToDate(m, log[m.dst])

Grants(m) == votedFor[m.dst] \in {None, m.src} /\ UpToDate(m, log[m.dst])

RequestVote(m) ==
  /\ m.kind = "RV"
  /\ m.at = "payload"
  /\ IF Grants(m)
     THEN /\ votedFor' = [votedFor EXCEPT ![m.dst] = m.src]
          /\ UNCHANGED <<currentTerm, log>>
          /\ persist(m.dst)
     ELSE UNCHANGED persistent
  /\ rpcs' = Replace(rpcs, m, Answered([m EXCEPT !.granted = Grants(m)]))
  /\ UNCHANGED <<volatile, leading, environ, routines, waiting, campaigns, resets>>

\* rpc_appendentries.go, the payload.

\* Mutation: the terms are not compared.
MatchesIndex(m, l) == m.prevLogIndex < Len(l)

Matches(m, l) == m.prevLogIndex < Len(l) /\ TermAt(l, m.prevLogIndex) = m.prevLogTerm

\* Mutation: the entry at prevLogIndex is cut off too.
MergedShort(m, l) == SubSeq(l, 1, m.prevLogIndex) \o m.entries

\* Mutation: what is behind the new entries stays.
MergedOver(m, l) ==
  SubSeq(l, 1, m.prevLogIndex + 1) \o m.entries \o SubSeq(l, m.prevLogIndex + Len(m.entries) + 2, Len(l))

Merged(m, l) == SubSeq(l, 1, m.prevLogIndex + 1) \o m.entries

\* The NextIndex of a rejection: where the run of equal terms that ends at
\* prevLogIndex begins, or the length of a log too short to hold it.
Backoff(m, l) ==
  LET p == m.prevLogIndex
      other == {i \in 0 .. p - 1 : TermAt(l, i) # TermAt(l, p)}
  IN  IF p >= Len(l) THEN Len(l)
      ELSE IF other = {} THEN p ELSE MaxOf(other) + 1

NewCommit(m, l) == Min(m.leaderCommit, LastIndex(Merged(m, l)))

AppendEntries(m) ==
  LET s == m.dst
      commit == NewCommit(m, log[s])
  IN  /\ m.kind = "AE"
      /\ m.at = "payload"
      /\ resets < MaxResets
      /\ resets' = resets + 1
      /\ IF Matches(m, log[s])
         THEN /\ log' = [log EXCEPT ![s] = Merged(m, @)]
              /\ commitIndex' = [commitIndex EXCEPT ![s] = IF commit > @ THEN commit ELSE @]
              /\ UNCHANGED <<currentTerm, votedFor>>
              /\ persist(s)
              /\ rpcs' = Replace(rpcs, m, Answered([m EXCEPT !.success = TRUE]))
         ELSE /\ UNCHANGED <<persistent, commitIndex>>
              /\ rpcs' = Replace(rpcs, m, Answered([m EXCEPT !.next = Backoff(m, log[s])]))
      /\ UNCHANGED <<lastApplied, applied, leading, environ, routines, waiting, campaigns>>

\* What the caller's goroutine gets: a vote on the channel of the election
\* that asked for it, or replies[ID] of the heartbeat round that sent it.
Received(c, m) ==
  IF c.server # m.src \/ c.term # m.by THEN c
  ELSE IF m.kind = "RV" /\ c.at = "collect" THEN Counted(c, m.granted)
  ELSE IF m.kind = "AE" /\ c.at = "sleep" /\ c.beat = m.beat
       THEN [c EXCEPT !.replies[m.dst] = [success |-> m.success, next |-> m.next]]
       ELSE c

\* Mutation: a failed call sends nothing on doneCh.
FailedSilently(c, m) == c

\* A call that was abandoned has told its election so already.
Failed(c, m) ==
  IF m.caller /\ c.server = m.src /\ c.term = m.by /\ m.kind = "RV" /\ c.at = "collect"
  THEN Counted(c, FALSE)
  ELSE c

\* Call() returns true: the reply is decoded and the sender syncs its term.
\* A reply with a newer term carries neither a vote nor an index.
senderSync(m) ==
  /\ m.at = "reply"
  /\ IF currentTerm[m.src] < m.replyTerm
     THEN /\ termSync(m.src, m.replyTerm)
          /\ rpcs' = Replace(rpcs, m, {[m EXCEPT !.at = "demote"]})
          /\ UNCHANGED campaigns
     ELSE /\ UNCHANGED persistent
          /\ rpcs' = rpcs \ {m}
          /\ campaigns' = {Received(c, m) : c \in campaigns}
  /\ UNCHANGED <<volatile, leading, environ, routines, waiting, resets>>

senderDemote(m) ==
  /\ m.at = "demote"
  /\ phaseChange(m.src, "follower")
  /\ rpcs' = Replace(rpcs, m, {[m EXCEPT !.at = "reply"]})
  /\ UNCHANGED <<persistent, volatile, leading, environ, waiting, campaigns, resets>>

\* Call() returns false: the request, the server or the reply was lost; or an
\* abandoned request is dropped, which nobody waits for.
callFails(m) ==
  /\ m.at \in {"request", "reply", "lost"}
  /\ rpcs' = rpcs \ {m}
  /\ campaigns' = {Failed(c, m) : c \in campaigns}
  /\ UNCHANGED <<persistent, volatile, leading, environ, routines, waiting, resets>>

\* Call() returns false while its handler is under way: labrpc has found the
\* caller disconnected.  The handler goes on for nobody.
callAbandoned(m) ==
  /\ m.at \in {"request", "sync", "payload"}
  /\ m.caller
  /\ rpcs' = Replace(rpcs, m, {[m EXCEPT !.caller = FALSE]})
  /\ campaigns' = {Failed(c, m) : c \in campaigns}
  /\ UNCHANGED <<persistent, volatile, leading, environ, routines, waiting, resets>>
-----------------------------------------------------------------------------
(* raft.go, raft_common.go and the tester's side in config.go *)

\* The tester's reader of applyCh keeps the commands by index.
Delivered(got, l, from, to) ==
  [i \in 1 .. (IF to > Len(got) THEN to ELSE Len(got)) |->
     IF i \in from .. to THEN l[i + 1].data ELSE got[i]]

\* Every advance of commitIndex spawns an applyEntries; it holds the lock
\* until all that is committed has gone to the tester.
applyEntries(s) ==
  LET from == lastApplied[s] + 1
      to == Min(commitIndex[s], LastIndex(log[s]))
  IN  /\ commitIndex[s] > lastApplied[s]
      /\ lastApplied' = [lastApplied EXCEPT ![s] = commitIndex[s]]
      /\ applied' = [applied EXCEPT ![s] = Delivered(@, log[s], from, to)]
      /\ panicked' = (commitIndex[s] > LastIndex(log[s]))
      /\ UNCHANGED <<persistent, commitIndex, leading, crashes, routines, waiting,
                     campaigns, rpcs, resets>>

Start(s, command) ==
  /\ phase[s] = "leader"
  /\ LastIndex(log[s]) < MaxLog
  /\ log' = [log EXCEPT ![s] = Append(@, [term |-> currentTerm[s], data |-> command])]
  /\ UNCHANGED <<currentTerm, votedFor>>
  /\ persist(s)
  /\ UNCHANGED <<volatile, leading, environ, routines, waiting, campaigns, rpcs, resets>>

Kill(s) == phase' = [phase EXCEPT ![s] = "exit"]

\* disconnect and DeleteServer: requests of s may still reach their handlers,
\* whose replies go nowhere; the calls it was handling return false.
CutOff(s) ==
  {IF m.src = s THEN [m EXCEPT !.caller = FALSE]
   ELSE IF m.dst = s /\ m.at \in {"sync", "payload"} THEN [m EXCEPT !.at = "lost"]
   ELSE m :
   m \in {m \in rpcs : ~ (m.src = s /\ m.at \in {"encode", "reply", "demote", "lost"})}}

\* crash1: the instance is cut off and killed and its memory is lost.
crash1(s) ==
  /\ phase[s] # "exit"
  /\ crashes < MaxCrash
  /\ crashes' = crashes + 1
  /\ Kill(s)
  /\ currentTerm' = [currentTerm EXCEPT ![s] = 0]
  /\ votedFor' = [votedFor EXCEPT ![s] = None]
  /\ log' = [log EXCEPT ![s] = <<Sentinel>>]
  /\ commitIndex' = [commitIndex EXCEPT ![s] = 0]
  /\ lastApplied' = [lastApplied EXCEPT ![s] = 0]
  /\ nextIndex' = [nextIndex EXCEPT ![s] = NoIndices]
  /\ matchIndex' = [matchIndex EXCEPT ![s] = NoIndices]
  /\ spawned' = [spawned EXCEPT ![s] = NoRoutines]
  /\ waiting' = [waiting EXCEPT ![s] = 0]
  /\ campaigns' = {c \in campaigns : c.server # s}
  /\ rpcs' = CutOff(s)
  /\ UNCHANGED <<saved, applied, resets, panicked>>

readPersist(s) ==
  /\ currentTerm' = [currentTerm EXCEPT ![s] = saved[s].currentTerm]
  /\ votedFor' = [votedFor EXCEPT ![s] = saved[s].votedFor]
  /\ log' = [log EXCEPT ![s] = saved[s].log]

Make(s) ==
  /\ readPersist(s)
  /\ phase' = [phase EXCEPT ![s] = "follower"]
  /\ spawned' = [spawned EXCEPT ![s]["follower"] = 1]

\* start1 after crash1: a new instance reads what the old one persisted.
start1(s) ==
  /\ phase[s] = "exit"
  /\ Make(s)
  /\ UNCHANGED <<saved, volatile, leading, environ, waiting, campaigns, rpcs, resets>>
-----------------------------------------------------------------------------
\* Every server started by Make on an empty Persister, from which readPersist
\* restores the fields Make has already set.
Init ==
  /\ phase = [s \in Server |-> "follower"]
  /\ currentTerm = [s \in Server |-> 0]
  /\ votedFor = [s \in Server |-> None]
  /\ log = [s \in Server |-> <<Sentinel>>]
  /\ commitIndex = [s \in Server |-> 0]
  /\ lastApplied = [s \in Server |-> 0]
  /\ nextIndex = [s \in Server |-> NoIndices]
  /\ matchIndex = [s \in Server |-> NoIndices]
  /\ saved = [s \in Server |-> [currentTerm |-> 0, votedFor |-> None, log |-> <<Sentinel>>]]
  /\ spawned = [s \in Server |-> [NoRoutines EXCEPT !["follower"] = 1]]
  /\ waiting = [s \in Server |-> 0]
  /\ campaigns = {}
  /\ rpcs = {}
  /\ resets = 0
  /\ applied = [s \in Server |-> << >>]
  /\ crashes = 0
  /\ panicked = FALSE

ServerStep(s) ==
  \/ awaitElection(s)
  \/ awaitReset(s)
  \/ awaitTimeout(s)
  \/ callElection(s)
  \/ applyEntries(s)

CampaignStep(c) ==
  \/ voteInterrupt(c)
  \/ candidateCheck2(c)
  \/ lostVote(c)
  \/ elected(c)
  \/ initLeader(c)
  \/ heartbeat(c)
  \/ endBeat(c)

RpcStep(m) ==
  \/ encodeArgs(m)
  \/ receiverSync(m)
  \/ receiverDemote(m)
  \/ RequestVote(m)
  \/ AppendEntries(m)
  \/ senderSync(m)
  \/ senderDemote(m)
  \/ callFails(m)
  \/ callAbandoned(m)

Next ==
  /\ ~ panicked
  /\ \/ \E s \in Server : ServerStep(s)
     \/ \E c \in campaigns : CampaignStep(c)
     \/ \E m \in rpcs : RpcStep(m)
     \/ \E s \in Server, command \in Command : Start(s, command)
     \/ \E s \in Server : crash1(s)
     \/ \E s \in Server : start1(s)

Spec == Init /\ [][Next]_vars
-----------------------------------------------------------------------------
Reply == [success : BOOLEAN, next : Nat]

Campaign ==
  [server : Server, term : Nat,
   at : {"collect", "check2", "lost", "won", "init", "beat", "sleep"},
   votes : Nat, heard : Nat, beat : Nat, myLastIndex : Nat,
   replies : [Server -> Reply]]

RequestVoteRPC ==
  [kind : {"RV"}, src : Server, dst : Server, term : Nat, by : Nat,
   lastLogIndex : Nat, lastLogTerm : Nat,
   at : {"request", "sync", "payload", "reply", "demote", "lost"},
   caller : BOOLEAN, replyTerm : Nat, granted : BOOLEAN]

AppendEntriesRPC ==
  [kind : {"AE"}, src : Server, dst : Server, term : Nat, by : Nat, beat : Nat,
   prevLogIndex : Nat, prevLogTerm : Nat, entries : Seq(LogEntry), leaderCommit : Nat,
   at : {"encode", "request", "sync", "payload", "reply", "demote", "lost"},
   caller : BOOLEAN, replyTerm : Nat, success : BOOLEAN, next : Nat]

\* The types of the fields of Raft and of everything in flight.
TypeOK ==
  /\ phase \in [Server -> {"follower", "candidate", "leader", "exit"}]
  /\ currentTerm \in [Server -> Nat]
  /\ votedFor \in [Server -> Server \cup {None}]
  /\ log \in [Server -> Seq(LogEntry)]
  /\ commitIndex \in [Server -> Nat]
  /\ lastApplied \in [Server -> Nat]
  /\ nextIndex \in [Server -> [Server -> Nat]]
  /\ matchIndex \in [Server -> [Server -> Nat]]
  /\ saved \in [Server -> [currentTerm : Nat, votedFor : Server \cup {None},
                           log : Seq(LogEntry)]]
  /\ spawned \in [Server -> [{"follower", "candidate"} -> Nat]]
  /\ waiting \in [Server -> Nat]
  /\ campaigns \subseteq Campaign
  /\ rpcs \subseteq RequestVoteRPC \cup AppendEntriesRPC
  /\ resets \in Nat
  /\ applied \in [Server -> Seq(Command \cup {None})]
  /\ crashes \in Nat
  /\ panicked \in BOOLEAN
-----------------------------------------------------------------------------
Up(s) == phase[s] # "exit"

\* A heartbeat never slices the log outside its bounds ("nextIndex >= 1",
\* raft_leader.go:42), and log repair never stalls: while a leader's goroutine
\* lives every nextIndex is at least 1, and a follower of the same term either
\* accepts or names a NextIndex the leader will use (raft_leader.go:71), below
\* the one it tried.
NextIndexInRange ==
  /\ \A c \in campaigns : c.at \in {"beat", "sleep"} =>
       \A t \in Server : nextIndex[c.server][t] >= 1
  /\ \A m \in rpcs : m.kind = "AE" /\ m.at = "reply" /\ m.replyTerm <= m.term =>
       m.success \/ m.next \in 1 .. m.prevLogIndex

\* A vote that has been granted (rpc_requestvote.go:45) is on the voter's
\* disk before the candidate can count it, and a crash does not undo it: the
\* voter's Persister has the vote, or has gone on to a later term.
VotesAreDurable ==
  \A m \in rpcs : m.kind = "RV" /\ m.granted =>
    \/ saved[m.dst].currentTerm > m.term
    \/ saved[m.dst].currentTerm = m.term /\ saved[m.dst].votedFor = m.src

\* A server grants its vote to one candidate of a term only
\* (rpc_requestvote.go:40, "vote for at most one per term").
OneVotePerTerm ==
  \A m, n \in rpcs : /\ m.kind = "RV" /\ m.granted
                     /\ n.kind = "RV" /\ n.granted
                     /\ m.dst = n.dst /\ m.term = n.term
                     => m.src = n.src

\* Along a log terms never go down, and a running server's log holds no
\* entry from a term it has not reached; restarts do not lose this.
LogTermsOrdered ==
  \A s \in Server :
    /\ \A i, j \in 1 .. Len(log[s]) : i <= j => log[s][i].term <= log[s][j].term
    /\ Up(s) => \A i \in 1 .. Len(log[s]) : log[s][i].term <= currentTerm[s]

\* The servers whose disk backs election c, or that can no longer vote in it.
Backers(c) ==
  {v \in Server : \/ saved[v].currentTerm > c.term
                  \/ saved[v].currentTerm = c.term /\ saved[v].votedFor = c.server}

\* callElection counts a vote only once and only if a different server's
\* disk backs it, so a majority of votes is a majority of servers.
VotesAreBacked == \A c \in campaigns : c.votes <= Cardinality(Backers(c))

\* Every vote callElection still waits for is on its way: sendRequestVote
\* always puts one on doneCh ("could deadlock", rpc_requestvote.go:98).
VotesAccounted ==
  \A c \in campaigns : c.at = "collect" =>
    c.heard + Cardinality({m \in rpcs : m.kind = "RV" /\ m.src = c.server
                                        /\ m.by = c.term /\ m.caller}) = N

\* The vote a server holds, in memory or, while it is down, on disk.
B == INSTANCE Ballot WITH
       term <- [s \in Server |-> IF Up(s) THEN currentTerm[s] ELSE saved[s].currentTerm],
       vote <- [s \in Server |-> IF Up(s) THEN votedFor[s] ELSE saved[s].votedFor]

\* Raft keeps the promise of module Ballot: terms never go back and a vote
\* is never changed or taken back within its term, through any number of
\* crashes and restarts and whatever the lock lets in between.
BallotSpec == B!Spec
=============================================================================
