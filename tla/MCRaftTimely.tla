---------------------------- MODULE MCRaftTimely ----------------------------
(* Three timely servers, from the first leader or from a contested log onwards. *)
EXTENDS RaftTimely, TLC

CONSTANTS Leader,    \* the server that won term 1
          Rival,     \* the server that won term 2, in SpecContested
          Common,    \* a command, for FewCommands
          MaxCalls,  \* bound: calls in progress at once
          MaxLater   \* bound: the same once a server has gone past the leader's term

ASSUME LeaderAssumption == {Leader, Rival} \subseteq Server /\ Leader # Rival /\ Common \in Command

FollowerSymmetry == Permutations(Server \ {Leader}) \cup Permutations(Command)

\* A leader is about to send its first heartbeat; all servers are in its term, the
\* others wait for it, and their logs and votes are what elections before have left.
InitLeader(s, term, logs, votes, indices) ==
  /\ phase = [t \in Server |-> IF t = s THEN "leader" ELSE "follower"]
  /\ currentTerm = [t \in Server |-> term]
  /\ votedFor = votes
  /\ log = logs
  /\ commitIndex = [t \in Server |-> 0]
  /\ lastApplied = [t \in Server |-> 0]
  /\ nextIndex = indices
  /\ matchIndex = [t \in Server |-> NoIndices]
  /\ saved = [t \in Server |-> [currentTerm |-> term, votedFor |-> votes[t], log |-> logs[t]]]
  /\ spawned = [t \in Server |-> NoRoutines]
  /\ waiting = [t \in Server |-> IF t = s THEN 0 ELSE 1]
  /\ campaigns = {[server |-> s, term |-> term, at |-> "beat", votes |-> 0, heard |-> 0,
                   beat |-> 0, myLastIndex |-> 0, replies |-> NoReplies]}
  /\ rpcs = {}
  /\ resets = 0
  /\ applied = [t \in Server |-> << >>]
  /\ crashes = 0
  /\ panicked = FALSE

Indices(i) == [t \in Server |-> i]

\* The state Init leads to when Leader gets every vote of term 1 and nothing
\* is lost.
InitElected ==
  InitLeader(Leader, 1, [s \in Server |-> <<Sentinel>>], [s \in Server |-> Leader],
             [s \in Server |-> Indices(IF s = Leader THEN 1 ELSE 0)])

\* States that this leads to.  Leader has appended commands that it could send to
\* nobody.  Rival, elected by the others in term 2, has done the same, and then
\* Leader has won term 3 without Rival's vote.
InitContested ==
  \E k \in 1 .. MaxLog, command \in Command \ {Common} :
    InitLeader(Leader, 3,
      [s \in Server |-> CASE s = Leader -> <<Sentinel>> \o [i \in 1 .. k |-> [term |-> 1, data |-> Common]]
                          [] s = Rival -> <<Sentinel, [term |-> 2, data |-> command]>>
                          [] OTHER -> <<Sentinel>>],
      [s \in Server |-> IF s = Rival THEN None ELSE Leader],
      [s \in Server |-> Indices(CASE s = Leader -> k + 1 [] s = Rival -> 1 [] OTHER -> 0)])

SpecElected == InitElected /\ [][TimelyNext]_vars
SpecContested == InitContested /\ [][TimelyNext]_vars

FewCalls ==
  Cardinality(rpcs) <= IF \A s \in Server : saved[s].currentTerm <= 3 THEN MaxCalls ELSE MaxLater

\* From term 3 on clients start one command, and in the last term none.
FewCommands ==
  \A s \in Server : \A i \in 1 .. Len(log[s]) :
    log[s][i].term > 2 => log[s][i].data = Common /\ log[s][i].term < MaxTerm
=============================================================================
