----------------------------- MODULE ShardClerk -----------------------------
(***************************************************************************)
(* The clerks of the sharded key/value service (src/src/shardkv/client.go) *)
(* and its tester (src/src/shardkv/config.go).  Get and PutAppend ask the  *)
(* servers of the group that has the key's shard, and after a round of     *)
(* them the shard master for a newer configuration, while the tester shuts *)
(* servers down and restarts them.  What the handlers of the groups and of *)
(* the master answer is left open, as the handlers of server.go are empty. *)
(***************************************************************************)
EXTENDS TesterCalls

CONSTANTS Clerk,
          Group,      \* the gids
          n,          \* cfg.n, the servers of one group
          NShards,
          Key,        \* the first byte of the keys, 0 for an empty key
          Configs,    \* what the master may answer to Query(-1)
          MaxOps,     \* bound: operations of one clerk
          MaxLost     \* bound: calls that the network loses

\* Config.Shards, and the keys of Config.Groups.
Config == [Shards : [0 .. NShards - 1 -> Group \cup {0}], Groups : SUBSET Group]

\* The zero value, with which a clerk begins and which server.go's Query answers.
NoConfig == [Shards |-> [s \in 0 .. NShards - 1 |-> 0], Groups |-> {}]

ASSUME ShardAssumption ==
  /\ n \in Nat \ {0} /\ NShards \in Nat \ {0} /\ Key \subseteq Nat
  /\ 0 \notin Group /\ Configs \subseteq Config
  /\ Server = Group \X (1 .. n)
  /\ MaxOps \in Nat /\ MaxLost \in Nat

\* An end is <<s, k, to>>, from instance k of server s to its peers or the masters.
VARIABLES
  clerk,      \* what each clerk is doing
  answered,   \* <<c, k, g>>: group g gave operation k of c an answer to return on
  lost,       \* calls lost so far
  settled     \* once the system has settled: its configuration and the
              \* place of the leaders in their groups

clerkVars == <<clerk, answered, lost, settled>>
vars == <<testerVars, clerkVars>>
-----------------------------------------------------------------------------
(* The tester *)

ShutdownGroup(g) ==
  /\ \A i \in 1 .. n : servers[<<g, i>>] # 0
  /\ Begin(enabled, FlattenSeq([i \in 1 .. n |-> ShutdownCalls(<<g, i>>)]))

StartGroup(g) ==
  /\ \A i \in 1 .. n : MayStart(<<g, i>>)
  /\ Begin(enabled, FlattenSeq([i \in 1 .. n |-> StartCalls(<<g, i>>)]))

Ends(s, k) == {<<s, k, "peers">>, <<s, k, "masters">>}

\* Mutation: the ends to the masters are forgotten.
preventPeers(s) == Disable(s, {<<s, endnames[s], "peers">>})

\* "prevent this server from sending"
preventSending(s) == Disable(s, Ends(s, endnames[s]))

\* The fresh ends are enabled at once.
connectEnds(s) == MakeEnds(s, Ends(s, endnames[s] + 1))

Operation ==
  /\ settled = <<>>
  /\ \/ \E s \in Server : ShutdownServer(s) \/ StartServer(s)
     \/ \E g \in Group : ShutdownGroup(g) \/ StartGroup(g)
  /\ UNCHANGED clerkVars

Step ==
  /\ \E s \in Server : preventSending(s) \/ connectEnds(s) \/ CallStep(s)
  /\ UNCHANGED clerkVars
-----------------------------------------------------------------------------
(* The clerks *)

key2shard(key) == key % NShards

Moves(c, from, changed) ==
  /\ clerk[c].at = from
  /\ clerk' = [clerk EXCEPT ![c] = changed]
  /\ UNCHANGED testerVars

NoClerk == [at |-> "none", config |-> NoConfig, op |-> "Get", key |-> 0, gid |-> 0, si |-> 1, ops |-> 0, reply |-> <<>>]

makeClient(c) ==
  /\ ~ locked
  /\ Moves(c, "none", [NoClerk EXCEPT !.at = "idle"])
  /\ UNCHANGED <<answered, lost, settled>>

\* Get and PutAppend: the arguments, then the loop.
Invoke(c, op, key) ==
  /\ clerk[c].ops < MaxOps
  /\ Moves(c, "idle", [clerk[c] EXCEPT !.at = "loop", !.op = op, !.key = key, !.ops = @ + 1])
  /\ UNCHANGED <<answered, lost, settled>>

Get(c, key) == Invoke(c, "Get", key)
PutAppend(c, key) == Invoke(c, "PutAppend", key)

\* The key's group, if the configuration has it.
lookup(c) ==
  LET gid == clerk[c].config.Shards[key2shard(clerk[c].key)] IN
  /\ Moves(c, "loop", IF gid \in clerk[c].config.Groups THEN [clerk[c] EXCEPT !.at = "try", !.gid = gid]
                      ELSE [clerk[c] EXCEPT !.at = "sleep"])
  /\ UNCHANGED <<answered, lost, settled>>

\* Out of the loop over the servers.
Leaves(c, to) == [clerk[c] EXCEPT !.at = to, !.gid = 0, !.si = 1, !.reply = <<>>]

Asked(c) == <<clerk[c].gid, clerk[c].si>>
Reaches(c) == clerk[c].at = "call" /\ netServers[Asked(c)] # 0

\* make_end's end is enabled.
call(c) ==
  /\ clerk[c].si <= n
  /\ Moves(c, "try", [clerk[c] EXCEPT !.at = "call", !.reply = <<>>])
  /\ UNCHANGED <<answered, lost, settled>>

\* What the server that c asks may answer: WrongLeader and Err.  Once the system
\* has settled, the leader of the key's group does what it is asked, and the others
\* of that group are not leaders.
Answers(c) ==
  LET owner == settled.config.Shards[key2shard(clerk[c].key)] IN
  CASE settled = <<>> \/ clerk[c].gid # owner -> BOOLEAN \X {"", "OK", "ErrNoKey", "ErrWrongGroup"}
    [] clerk[c].si = settled.leader -> {FALSE} \X (IF clerk[c].op = "Get" THEN {"OK", "ErrNoKey"} ELSE {"OK"})
    [] OTHER -> {TRUE} \X {"", "OK"}

\* Mutation: WrongLeader is not looked at.
GoodAnyLeader(op, answer) == answer[2] \in (IF op = "Get" THEN {"OK", "ErrNoKey"} ELSE {"OK"})

\* The answers that Get and PutAppend return on.
Good(op, answer) ==
  ~ answer[1] /\ answer[2] \in (IF op = "Get" THEN {"OK", "ErrNoKey"} ELSE {"OK"})

handle(c) ==
  /\ Reaches(c)
  /\ clerk[c].reply = <<>>
  /\ \E answer \in Answers(c) :
       /\ Moves(c, "call", [clerk[c] EXCEPT !.reply = <<netServers[Asked(c)], answer>>])
       /\ answered' = IF ~ answer[1] /\ (answer[2] = "OK" \/ (answer[2] = "ErrNoKey" /\ clerk[c].op = "Get"))
                      THEN answered \cup {<<c, clerk[c].ops, Asked(c)[1]>>} ELSE answered
  /\ UNCHANGED <<lost, settled>>

Replied(c) == clerk[c].reply # <<>> /\ Reaches(c) /\ netServers[Asked(c)] = clerk[c].reply[1]

\* Call returns true: return, break, or try the next server.
reply(c) ==
  /\ Replied(c)
  /\ LET answer == clerk[c].reply[2]
     IN  Moves(c, "call", CASE Good(clerk[c].op, answer) -> Leaves(c, "idle")
                            [] ~ Good(clerk[c].op, answer) /\ answer[2] = "ErrWrongGroup" -> Leaves(c, "sleep")
                            [] OTHER -> [clerk[c] EXCEPT !.at = "try", !.si = @ + 1, !.reply = <<>>])
  /\ UNCHANGED <<answered, lost, settled>>

Lost(c) == Reaches(c) /\ (clerk[c].reply = <<>> \/ Replied(c))

\* Call returns false: the server is gone, or was replaced since it answered, or
\* the network loses the request or the reply.
fail(c) ==
  /\ Lost(c) => lost < MaxLost /\ settled = <<>>
  /\ Moves(c, "call", [clerk[c] EXCEPT !.at = "try", !.si = @ + 1, !.reply = <<>>])
  /\ lost' = IF Lost(c) THEN lost + 1 ELSE lost
  /\ UNCHANGED <<answered, settled>>

tried(c) ==
  /\ clerk[c].si > n
  /\ Moves(c, "try", Leaves(c, "sleep"))
  /\ UNCHANGED <<answered, lost, settled>>

\* Mutation: after a round the same servers are tried again.
queryNever(c) ==
  /\ Moves(c, "sleep", [clerk[c] EXCEPT !.at = "loop"])
  /\ UNCHANGED <<answered, lost, settled>>

\* Sleep, then ck.config = ck.sm.Query(-1), which MasterClerk shows to return.
query(c) ==
  /\ \E config_ \in IF settled = <<>> THEN Configs \cup {NoConfig} ELSE {settled.config} :
       Moves(c, "sleep", [clerk[c] EXCEPT !.at = "loop", !.config = config_])
  /\ UNCHANGED <<answered, lost, settled>>

\* Nothing of the program: from here on the environment does not change.
settle(config_, leader) ==
  /\ settled = <<>> /\ todo = <<>>
  /\ \A s \in Server : netServers[s] # 0
  /\ \A key \in Key : config_.Shards[key2shard(key)] \in config_.Groups
  /\ settled' = [config |-> config_, leader |-> leader]
  /\ UNCHANGED <<testerVars, clerk, answered, lost>>
-----------------------------------------------------------------------------
Init ==
  /\ TesterInit(UNION {Ends(s, 1) : s \in Server})
  /\ clerk = [c \in Clerk |-> NoClerk]
  /\ answered = {}
  /\ lost = 0
  /\ settled = <<>>

ClerkStep(c) ==
  lookup(c) \/ call(c) \/ handle(c) \/ reply(c) \/ fail(c) \/ tried(c) \/ query(c)

Next ==
  \/ Operation
  \/ Step
  \/ \E c \in Clerk :
       \/ makeClient(c)
       \/ \E key \in Key : Get(c, key) \/ PutAppend(c, key)
       \/ ClerkStep(c)
  \/ \E config_ \in Configs, leader \in 1 .. n : settle(config_, leader)

\* Operations of the tester finish, calls return and sleeps end.
Fairness == WF_vars(Step) /\ \A c \in Clerk : WF_vars(ClerkStep(c))

Spec == Init /\ [][Next]_vars
FairSpec == Spec /\ Fairness
-----------------------------------------------------------------------------
(* Properties *)

\* "prevent this server from sending" (config.go:159): once clients can no longer
\* reach a server, no instance of it can send to its peers or to the masters with
\* the ends it was started with, until StartServer has made new ones, and those of
\* an instance that was replaced stay disabled for ever.
CutOff ==
  \A e \in enabled : netServers[e[1]] = e[2] \/ (todo # <<>> /\ Head(todo)[2] = e[1] /\ endnames[e[1]] = e[2])

\* Get and PutAppend return only on the answer to this operation of a server of the
\* group to which the clerk's latest configuration gives the key's shard, however
\* many configurations and groups they have tried before.
AnsweredByOwner ==
  \A c \in Clerk : clerk[c].at = "idle" /\ clerk[c].ops > 0 =>
    \E g \in clerk[c].config.Groups :
      g = clerk[c].config.Shards[key2shard(clerk[c].key)] /\ <<c, clerk[c].ops, g>> \in answered

\* "keeps trying forever in the face of all other errors" (client.go:65): once the
\* configurations no longer change and the key's group is up and has a leader, Get
\* and PutAppend return, whatever stale configuration and which round they are in.
KeepsTrying == \A c \in Clerk : settled # <<>> ~> clerk[c].at \in {"none", "idle"}
=============================================================================
