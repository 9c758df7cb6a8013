---------------------------- MODULE MasterClerk ----------------------------
(***************************************************************************)
(* The shard master's clerks (src/src/shardmaster/client.go) on the        *)
(* network of their tester: Query, Join, Leave and Move ask one server     *)
(* after another, round and round, until one answers that it is not the    *)
(* wrong leader.  What the handlers do is left open: they answer as they   *)
(* like, which includes the empty handlers of server.go.  A call is        *)
(* labrpc's, which LabRPC models in full.                                  *)
(***************************************************************************)
EXTENDS ServiceTester

CONSTANTS Handles,    \* the orders of the servers that random_handles can make
          MaxOps,     \* bound: operations of one clerk
          MaxLost     \* bound: calls that the network loses

ASSUME ClerkAssumption ==
  /\ \A h \in Handles : Len(h) = N /\ ToSet(h) = Server
  /\ MaxOps \in Nat /\ MaxLost \in Nat

VARIABLES
  clerk,    \* what each clerk is doing
  answered, \* operations <<c, n>> that a handler answered with WrongLeader false
  lost,     \* calls lost so far
  chosen    \* the server that is the one leader from now on, N if there is none

clerkVars == <<clerk, answered, lost, chosen>>
vars == <<serviceVars, clerkVars>>

\* servers is the order of random_handles, next the server asked or to be asked,
\* handled the answer that is on its way and the instance it comes from.
NoClerk == [at |-> "none", servers |-> <<>>, next |-> 1, ops |-> 0, handled |-> <<>>]

Asked(c) == clerk[c].servers[clerk[c].next]
Reaches(c) == clerk[c].at = "call" /\ <<c, Asked(c)>> \in enabled /\ netServers[Asked(c)] # 0

Moves(c, from, changed) ==
  /\ clerk[c].at = from
  /\ clerk' = [clerk EXCEPT ![c] = changed]
  /\ UNCHANGED serviceVars

MakeClerk(c, to) ==
  /\ makeClient(c, to)
  /\ \E h \in Handles : clerk' = [clerk EXCEPT ![c] = [NoClerk EXCEPT !.at = "idle", !.servers = h]]
  /\ UNCHANGED <<answered, lost, chosen>>

\* A test deletes the clerk of a client that is done.
Delete(c) ==
  /\ clerk[c].at = "idle"
  /\ deleteClient(c)
  /\ clerk' = [clerk EXCEPT ![c].at = "gone"]
  /\ UNCHANGED <<answered, lost, chosen>>

Invoke(c) ==
  /\ clerk[c].ops < MaxOps
  /\ Moves(c, "idle", [clerk[c] EXCEPT !.at = "try", !.ops = @ + 1, !.next = 1])
  /\ UNCHANGED <<answered, lost, chosen>>

Query(c) == Invoke(c)
Join(c) == Invoke(c)
Leave(c) == Invoke(c)
Move(c) == Invoke(c)

\* srv.Call with a fresh reply.
call(c) ==
  /\ clerk[c].next <= N
  /\ Moves(c, "try", [clerk[c] EXCEPT !.at = "call", !.handled = <<>>])
  /\ UNCHANGED <<answered, lost, chosen>>

\* A handler answers, with some WrongLeader until there is a leader.
handle(c, wrong) ==
  /\ clerk[c].handled = <<>>
  /\ Reaches(c)
  /\ chosen # N => wrong = (Asked(c) # chosen)
  /\ Moves(c, "call", [clerk[c] EXCEPT !.handled = <<netServers[Asked(c)], wrong>>])
  /\ answered' = IF wrong THEN answered ELSE answered \cup {<<c, clerk[c].ops>>}
  /\ UNCHANGED <<lost, chosen>>

\* The reply comes back from the instance that handled the call.
Replied(c) ==
  clerk[c].handled # <<>> /\ Reaches(c) /\ netServers[Asked(c)] = clerk[c].handled[1]

\* The request or the reply is lost on the way.
Lost(c) == Reaches(c) /\ (clerk[c].handled = <<>> \/ Replied(c))

\* Call returns true; "if ok && reply.WrongLeader == false".
reply(c) ==
  /\ Replied(c)
  /\ Moves(c, "call", IF clerk[c].handled[2]
                      THEN [clerk[c] EXCEPT !.at = "try", !.next = @ + 1, !.handled = <<>>]
                      ELSE [clerk[c] EXCEPT !.at = "idle", !.handled = <<>>])
  /\ UNCHANGED <<answered, lost, chosen>>

\* Mutation: ok is not looked at, and a fresh reply says WrongLeader false.
failUnseen(c) ==
  /\ Lost(c) => lost < MaxLost
  /\ Moves(c, "call", [clerk[c] EXCEPT !.at = "idle", !.handled = <<>>])
  /\ lost' = IF Lost(c) THEN lost + 1 ELSE lost
  /\ UNCHANGED <<answered, chosen>>

\* Call returns false: the server is gone or cut off, now or since it handled the
\* call, or the network loses the request or the reply.
fail(c) ==
  /\ Lost(c) => lost < MaxLost
  /\ Moves(c, "call", [clerk[c] EXCEPT !.at = "try", !.next = @ + 1, !.handled = <<>>])
  /\ lost' = IF Lost(c) THEN lost + 1 ELSE lost
  /\ UNCHANGED <<answered, chosen>>

\* Mutation: the server that was asked last is asked again.
sleepAtLast(c) ==
  /\ clerk[c].next > N
  /\ Moves(c, "try", [clerk[c] EXCEPT !.next = N])
  /\ UNCHANGED <<answered, lost, chosen>>

sleep(c) ==
  /\ clerk[c].next > N
  /\ Moves(c, "try", [clerk[c] EXCEPT !.next = 1])
  /\ UNCHANGED <<answered, lost, chosen>>

\* Nothing of the program: from here on the service has one leader, and the servers
\* stay as they are.
settle(l) ==
  /\ chosen = N /\ todo = <<>>
  /\ netServers[l] # 0
  /\ chosen' = l
  /\ UNCHANGED <<serviceVars, clerk, answered, lost>>
-----------------------------------------------------------------------------
Init ==
  /\ ServiceInit
  /\ clerk = [c \in Client |-> NoClerk]
  /\ answered = {}
  /\ lost = 0
  /\ chosen = N

ClerkStep(c) ==
  \/ call(c) \/ handle(c, TRUE) \/ handle(c, FALSE) \/ reply(c) \/ fail(c) \/ sleep(c)

Next ==
  \/ chosen = N /\ Operation /\ UNCHANGED clerkVars
  \/ Step /\ UNCHANGED clerkVars
  \/ \E c \in Client :
       \/ MakeClerk(c, Server)
       \/ Delete(c)
       \/ ConnectClient(c, Server) /\ UNCHANGED clerkVars
       \/ DisconnectClient(c, {0}) /\ UNCHANGED clerkVars
       \/ Query(c) \/ Join(c) \/ Leave(c) \/ Move(c)
       \/ ClerkStep(c)
  \/ \E l \in Server : settle(l)

\* Calls return and sleeps end.
Fairness == \A c \in Client : WF_vars(ClerkStep(c))

Spec == Init /\ [][Next]_vars
FairSpec == Spec /\ Fairness
-----------------------------------------------------------------------------
(* Properties *)

\* Query, Join, Leave and Move return only after a handler of a server has dealt
\* with this very operation and did not answer WrongLeader: not on a call that
\* failed, nor on the answer to an operation before.
ReturnsAnswered ==
  \A c \in Client : clerk[c].at \in {"idle", "gone"} =>
    \A n \in 1 .. clerk[c].ops : <<c, n>> \in answered

\* "try each known server" (client.go:35), for ever: an operation comes round to the
\* leader and returns, if in the end one server is leader and is connected to the
\* clerk.  The others may be down or cut off, or answer "wrong leader": no call to
\* them need ever succeed.
OperationsReturn ==
  \A c \in Client, l \in Server :
    <>[](chosen = l /\ <<c, l>> \in enabled)
      => []<>(clerk[c].at # "try" /\ clerk[c].at # "call")
=============================================================================
