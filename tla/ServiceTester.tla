--------------------------- MODULE ServiceTester ---------------------------
(***************************************************************************)
(* The tester of the replicated services (src/src/shardmaster/config.go,   *)
(* and src/src/kvraft/config.go, which is the same but for statistics): it *)
(* partitions, stops and restarts servers by enabling and disabling the    *)
(* labrpc ends between them, while clients come and go.                    *)
(***************************************************************************)
EXTENDS TesterCalls

CONSTANTS N,          \* cfg.n
          Client,     \* the clerks that makeClient makes
          Sizes       \* the sizes of cluster that the tests partition around a leader

ASSUME ServiceAssumption ==
  /\ N \in Nat \ {0} /\ Server = 0 .. N - 1
  /\ N \in Sizes /\ \A n \in Sizes : n % 2 = 1 /\ n > 1

\* An end is <<i, g, j>>, from instance g of server i to server j, or <<c, j>>,
\* from a client to server j.
VARIABLES
  clerks,     \* cfg.clerks
  side,       \* where the tester has put each server: the number, from 1, of the
              \* first server on its side, or 0 if it is cut off
  leader      \* the server that make_partition has put in the minority, or N

serviceVars == <<testerVars, clerks, side, leader>>
-----------------------------------------------------------------------------
(* The ends between servers.  An operation enables and disables them one by   *)
(* one, in the order of the folds; nothing that is modelled here looks at them *)
(* in between, so that this is one step of it.                               *)

All == [k \in 1 .. N |-> k - 1]

Outgoing(i, list) == {<<i, endnames[i], list[k]>> : k \in DOMAIN list}
Incoming(i, list) == {<<list[k], endnames[list[k]], i>> : k \in DOMAIN list}

connectUnlocked(ends, i, to) == ends \cup Outgoing(i, to) \cup Incoming(i, to)

\* Mutation: the incoming ends stay.
disconnectOutgoing(i, from) == Outgoing(i, from)

\* The ends it disables.  endnames has no nil once make_config has returned.
disconnectUnlocked(i, from) == Outgoing(i, from) \cup Incoming(i, from)

\* Each of a group is cut off from the others and joined to its own.
Separate(ends, group, others) ==
  FoldLeft(LAMBDA E, i : connectUnlocked(E \ disconnectUnlocked(i, others), i, group), ends, group)

Followers(n, l) == SelectSeq([k \in 1 .. n |-> k - 1], LAMBDA i : i # l)

\* Mutation: the leader's group is the larger one.
make_partitionRoundedDown(n, l) ==
  <<SubSeq(Followers(n, l), 1, n \div 2), SubSeq(Followers(n, l), n \div 2 + 1, n - 1) \o <<l>>>>

\* Two groups with the leader in the smaller one.  An array's elements are 0
\* until assigned.
make_partition(n, l) ==
  LET big == n \div 2 + 1
      At(k) == IF k < n THEN Followers(n, l)[k] ELSE 0
  IN  <<[k \in 1 .. big |-> At(k)],
        [k \in 1 .. n \div 2 |-> IF k = n \div 2 THEN l ELSE At(big + k)]>>
-----------------------------------------------------------------------------
(* Operations of the main goroutine *)

\* Every test has all servers running when it connects them.
AllUp == \A i \in Server : netServers[i] # 0

ConnectAll ==
  /\ AllUp
  /\ Begin(FoldLeft(LAMBDA E, i : connectUnlocked(E, i, All), enabled, All), <<>>)
  /\ side' = [i \in Server |-> 1]
  /\ leader' = N
  /\ UNCHANGED clerks

partition(p1, p2) ==
  /\ AllUp
  /\ Begin(Separate(Separate(enabled, p1, p2), p2, p1), <<>>)
  /\ side' = [i \in Server |-> 1 + Min({j \in Server : (j \in ToSet(p1)) = (i \in ToSet(p1))})]
  /\ UNCHANGED clerks

\* partition(make_partition()): Leader() is whoever says it is.
partitionLeader(l) ==
  /\ partition(make_partition(N, l)[1], make_partition(N, l)[2])
  /\ leader' = l

\* Any two groups, as the tests choose them at random.
partitionServers(S) ==
  /\ partition(SelectSeq(All, LAMBDA i : i \in S), SelectSeq(All, LAMBDA i : i \notin S))
  /\ leader' = N

Operation ==
  \/ ConnectAll
  \/ \E l \in Server : partitionLeader(l)
  \/ \E S \in SUBSET Server : partitionServers(S)
  \/ \E i \in Server : (ShutdownServer(i) \/ StartServer(i)) /\ UNCHANGED <<clerks, side, leader>>

\* disconnectUnlocked(i, All()) in ShutdownServer.
isolate(i) ==
  /\ Disable(i, disconnectUnlocked(i, All))
  /\ side' = [side EXCEPT ![i] = 0]
  /\ leader' = N
  /\ UNCHANGED clerks

\* MakeEnd leaves the fresh ends disabled.
Step ==
  \E i \in Server :
    \/ isolate(i)
    \/ (MakeEnds(i, {}) \/ CallStep(i)) /\ UNCHANGED <<clerks, side, leader>>
-----------------------------------------------------------------------------
(* Clients: goroutines of the test make, connect and delete them while cfg.mu *)
(* is free                                                                    *)

ClientStep(c, ends) ==
  /\ ~ locked
  /\ enabled' = ends
  /\ UNCHANGED <<config, netServers, running, todo, locked, moves, side, leader>>

ClientEnds(c, list) == {<<c, j>> : j \in list}

makeClient(c, to) ==
  /\ c \notin clerks
  /\ clerks' = clerks \cup {c}
  /\ ClientStep(c, enabled \cup ClientEnds(c, to))

\* The ends stay in the network as they are.
deleteClient(c) ==
  /\ c \in clerks
  /\ clerks' = clerks \ {c}
  /\ ClientStep(c, enabled)

ConnectClient(c, to) == c \in clerks /\ UNCHANGED clerks /\ ClientStep(c, enabled \cup ClientEnds(c, to))

DisconnectClient(c, from) == c \in clerks /\ UNCHANGED clerks /\ ClientStep(c, enabled \ ClientEnds(c, from))

\* make_config has started all the servers and called ConnectAll.
ServiceInit ==
  /\ TesterInit({<<i, 1, j>> : i \in Server, j \in Server})
  /\ clerks = {}
  /\ side = [i \in Server |-> 1]
  /\ leader = N
-----------------------------------------------------------------------------
(* Properties *)

\* "Sets up 2 partitions with connectivity between servers in each partition"
\* (config.go:146).  Whenever no operation is under way, the ends that are enabled
\* are those between the current instances of the servers that the tester has put
\* on one side: none of an instance that was shut down, and none from or to a
\* server that was restarted, until it is connected again.
PartitionHolds ==
  todo = <<>> =>
    {e \in enabled : Len(e) = 3} =
      {<<p[1], endnames[p[1]], p[2]>> :
         p \in {q \in Server \X Server : side[q[1]] = side[q[2]] /\ side[q[1]] # 0}}

\* make_partition divides the servers of a cluster, with l among the fewer.
Divides(n, l) ==
  LET p1 == ToSet(make_partition(n, l)[1])
      p2 == ToSet(make_partition(n, l)[2])
  IN  l \in p2 /\ 2 * Cardinality(p2) < n /\ p1 = (0 .. n - 1) \ p2

AllDivide == \A n \in Sizes : \A l \in 0 .. n - 1 : Divides(n, l)

\* "put current leader in minority" (config.go:312), in a cluster of any of the
\* sizes.  After make_partition and partition, in the cluster that is modelled, the
\* server that was leader reaches less than a majority, and each of the servers it
\* is cut off from reaches a majority.
LeaderInMinority ==
  LET Reach(i) == {j \in Server : <<i, endnames[i], j>> \in enabled}
      Majority(S) == 2 * Cardinality(S) > N
  IN  /\ AllDivide
      /\ leader \in Server =>
           /\ ~ Majority(Reach(leader))
           /\ \A i \in Server \ Reach(leader) : Majority(Reach(i))
=============================================================================
