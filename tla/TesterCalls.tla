---------------------------- MODULE TesterCalls ----------------------------
(***************************************************************************)
(* How the testers of the services replace servers.  ShutdownServer and    *)
(* StartServer are the same in src/src/shardmaster/config.go,              *)
(* src/src/kvraft/config.go and src/src/shardkv/config.go but for the ends *)
(* they disable and make: an operation is a list of calls to the network,  *)
(* to the Persister and to the server, and other goroutines take steps     *)
(* between them.                                                           *)
(***************************************************************************)
EXTENDS Naturals, Sequences, FiniteSets, SequencesExt

CONSTANTS Server,
          MaxStarts,  \* bound: instances of one server
          MaxMoves    \* bound: operations of the test's main goroutine

ASSUME TesterAssumption == MaxStarts \in Nat /\ MaxMoves \in Nat

VARIABLES
  endnames,   \* the instance that has the ends endnames[i]
  enabled,    \* Network.enabled
  netServers, \* Network.servers: the instance reachable as a server, 0 for nil
  servers,    \* cfg.servers: the instance to Kill, 0 for nil
  running,    \* the instances <<s, k>> that were not killed
  saved,      \* the instance that writes cfg.saved[i], 0 if none does
  todo,       \* the calls that the operation under way still makes, with their server
  locked,     \* whether it holds cfg.mu
  moves       \* operations so far

config == <<endnames, servers, saved>>
testerVars == <<endnames, enabled, netServers, servers, running, saved, todo, locked, moves>>

Calls(s, list) == [k \in DOMAIN list |-> <<list[k], s>>]

\* Mutation: the Persister is superseded while clients still reach the server.
ShutdownCopiesFirst(s) ==
  Calls(s, <<"Disable", "Copy", "DeleteServer", "Kill", "Forget">>)

ShutdownCalls(s) ==
  Calls(s, <<"Disable", "DeleteServer", "Copy", "Kill", "Forget">>)

StartCalls(s) ==
  Calls(s, <<"MakeEnds", "Copy", "StartServer", "AddServer">>)

\* The main goroutine begins an operation; ends is what it enables before its calls.
Begin(ends, calls) ==
  /\ todo = <<>>
  /\ moves < MaxMoves
  /\ enabled' = ends
  /\ todo' = calls
  /\ moves' = moves + 1
  /\ UNCHANGED <<config, netServers, running, locked>>

ShutdownServer(s) == servers[s] # 0 /\ Begin(enabled, ShutdownCalls(s))

\* "If restart servers, first call ShutdownServer"
MayStart(s) == servers[s] = 0 /\ endnames[s] < MaxStarts
StartServer(s) == MayStart(s) /\ Begin(enabled, StartCalls(s))
-----------------------------------------------------------------------------
(* The calls *)

Call(what, s) == todo # <<>> /\ Head(todo) = <<what, s>> /\ todo' = Tail(todo) /\ UNCHANGED moves

\* Under cfg.mu, the server's ends.
Disable(s, ends) ==
  /\ Call("Disable", s)
  /\ locked' = TRUE
  /\ enabled' = enabled \ ends
  /\ UNCHANGED <<config, netServers, running>>

DeleteServer(s) ==
  /\ Call("DeleteServer", s)
  /\ netServers' = [netServers EXCEPT ![s] = 0]
  /\ UNCHANGED <<config, enabled, running, locked>>

\* cfg.saved[i] becomes a copy that no instance writes, and cfg.mu is released.
Copy(s) ==
  /\ Call("Copy", s)
  /\ saved' = [saved EXCEPT ![s] = 0]
  /\ locked' = FALSE
  /\ UNCHANGED <<endnames, servers, enabled, netServers, running>>

Kill(s) ==
  /\ Call("Kill", s)
  /\ running' = running \ {<<s, servers[s]>>}
  /\ UNCHANGED <<config, enabled, netServers, locked>>

\* cfg.mu is taken again, and released on return.
Forget(s) ==
  /\ Call("Forget", s)
  /\ servers' = [servers EXCEPT ![s] = 0]
  /\ UNCHANGED <<endnames, saved, enabled, netServers, running, locked>>

\* Under cfg.mu, a fresh set of ends; made is what the tester enables of it at once.
MakeEnds(s, made) ==
  /\ Call("MakeEnds", s)
  /\ endnames' = [endnames EXCEPT ![s] = @ + 1]
  /\ enabled' = enabled \cup made
  /\ locked' = TRUE
  /\ UNCHANGED <<servers, saved, netServers, running>>

\* The service's StartServer gets the fresh ends and cfg.saved[i].
startService(s) ==
  /\ Call("StartServer", s)
  /\ running' = running \cup {<<s, endnames[s]>>}
  /\ servers' = [servers EXCEPT ![s] = endnames[s]]
  /\ saved' = [saved EXCEPT ![s] = endnames[s]]
  /\ UNCHANGED <<endnames, enabled, netServers, locked>>

AddServer(s) ==
  /\ Call("AddServer", s)
  /\ netServers' = [netServers EXCEPT ![s] = servers[s]]
  /\ UNCHANGED <<config, enabled, running, locked>>

CallStep(s) ==
  DeleteServer(s) \/ Copy(s) \/ Kill(s) \/ Forget(s) \/ startService(s) \/ AddServer(s)

\* make_config has started every server.
TesterInit(ends) ==
  /\ endnames = [s \in Server |-> 1]
  /\ enabled = ends
  /\ netServers = [s \in Server |-> 1]
  /\ servers = [s \in Server |-> 1]
  /\ running = {<<s, 1>> : s \in Server}
  /\ saved = [s \in Server |-> 1]
  /\ todo = <<>>
  /\ locked = FALSE
  /\ moves = 0
-----------------------------------------------------------------------------
\* What is reachable as a server, what writes its cfg.saved[i] and what has its
\* ends are one instance.  An instance that was shut down runs on until Kill
\* returns, but no other runs beside it, and cfg.saved[i] is superseded only after
\* DeleteServer, "to avoid the possibility of the server returning a positive reply
\* to an Append but persisting the result in the superseded Persister"
\* (kvraft/config.go:261-266).
OneInstance ==
  \A s \in Server :
    /\ netServers[s] # 0 => {netServers[s]} = {saved[s], endnames[s], servers[s]}
    /\ Cardinality({r \in running : r[1] = s}) <= 1
    /\ \A r \in running : r[1] = s /\ r[2] # saved[s] => netServers[s] = 0 /\ servers[s] = r[2]
=============================================================================
