# Formal models of distsys

TLA+ models of the programs in this repository: the Raft peer (`src/src/raft`),
the simulated network it runs on (`src/src/labrpc`), the MapReduce library
(`src/src/mapreduce`), the linearizability checker (`src/src/linearizability`),
and the clerks and testers of the replicated services (`src/src/shardmaster`,
`src/src/shardkv`, `src/src/kvraft`).  TLC checks them on small instances; TLAPS proves the
theorems listed below for every value of the constants.

## The system

| Part | State | Operations | What makes it hard |
|---|---|---|---|
| Raft peer | `Raft` struct, goroutines of each phase, calls in flight | `awaitElection`, `callElection`, `initLeader`, `heartbeat`, the two handlers and senders, `Start`, `applyEntries`, `persist`, `Kill`, `Make` | the lock is released between `termSync`, `phaseChange` and the payload; goroutines outlive the phase they belong to; late, lost and reordered calls; crashes |
| Persister | saved term, vote and log | save, read | copied at a crash while the old instance may still write |
| Raft tester (`config.go`) | instances, `cfg.saved`, `cfg.logs` | `crash1`, `start1`, `connect`, `disconnect` | acts at any time |
| labrpc | ends, servers, calls in progress | `Call`, `ProcessReq`, `Enable`, `Reliable`, `AddServer`, `DeleteServer`, `Cleanup` | a handler runs on after its caller has given up; servers are replaced under their name |
| MapReduce scheduling | registered workers, channels, worker loops | `Register`, `forwardRegistrations`, `schedule`, `do`, `DoTask`, `Shutdown`, `killWorkers` | workers stop or die with work in hand; unbuffered channels; a lock held over RPCs |
| MapReduce tasks | intermediate and result files | `doMap`, `doReduce`, `merge`, `Sequential` | group boundaries, empty partitions |
| Linearizability checker | a linked list, stack and cache per partition; results | `CheckOperations`, `CheckEvents`, `checkSingle` | backtracking over a list that is taken apart; a cache that prunes; goroutines that are killed or time out |
| Clerks of shardmaster and shardkv | the server asked, the latest configuration | `Query`, `Join`, `Leave`, `Move`; `Get`, `PutAppend` | failed calls, leaders and configurations that change meanwhile |
| Testers of the services | ends, instances, `cfg.saved`, partitions, clients | `ShutdownServer`, `StartServer`, groups, `partition`, `make_partition`, clients | fresh ends for each instance; `cfg.mu` released around `Kill` |
| Servers of kvraft, shardmaster, shardkv | none yet | empty handlers | skeletons |
| labgob, `main/ii.go` | none | encoding; two string functions | not protocol code |

Raft peers, and the services meant to be built on them, talk only through
labrpc; the testers drive them, and the tests of kvraft hand the history of
their clerks to the linearizability checker.  MapReduce uses Go's own `net/rpc` and is
independent of the rest.

## Modules

| Module | What it is |
|---|---|
| `Raft` | the Raft peer with its tester: the core model |
| `Ballot` | what a Raft server promises about terms and votes |
| `RaftTimely` | `Raft` under timing assumptions, and the properties that need them |
| `RaftIndexProofs`, `RaftVoteProofs`, `RaftCountProofs` | theorems about `Raft` |
| `LabRPC` | the network and its tester |
| `RpcPromise` | what the caller of `Call` may rely on |
| `LabRPCProofs` | theorems about `LabRPC` |
| `MapReduce` | a distributed job: master, workers, RPCs |
| `SequentialJob` | what the tasks compute |
| `Linearizability` | the checker, with its goroutines and linked lists |
| `EntrySearch` | the search of `checkSingle` without the list |
| `EntrySearchProofs` | theorems about `EntrySearch` |
| `TesterCalls` | how the testers stop and start a server |
| `ServiceTester` | `TesterCalls` with the partitions and clients of shardmaster's and kvraft's testers |
| `MasterClerk` | the shard master's clerk on `ServiceTester` |
| `ShardClerk` | the sharded service's clerk and tester, on `TesterCalls` |
| `MC*` | constants, symmetry and constraints for TLC; each `.cfg` is one run |

Operators marked "Mutation", such as `persistWithoutVote` and `MergedShort`,
are not part of the models: each is a plausible bug that some property must
detect when it takes the place of the definition after it.

## Raft

A step is one critical section of `rf.mu` or one blocking operation.  Variables
have the names of the struct's fields; besides them there are

- `saved`, each server's Persister; `applied`, the tester's `cfg.logs`;
- `spawned` and `waiting`, the follower and candidate goroutines before their
  first lock and in their `select`;
- `campaigns`, the goroutines of `callElection`, which become the heartbeat
  goroutine of the leader they elect;
- `rpcs`, the Calls in progress, each with the stage it has reached:
  `encode`, `request`, `sync` (term raised, not yet demoted), `payload`,
  `reply`, `demote`, `lost`;
- `resets`, goroutines blocked on `electionReset`, one channel for all servers
  of the process, as in the code.

labrpc is modelled by how a Call can go: it is lost (`callFails`), it returns
false although its handler is still to run (`callAbandoned`), or it is answered,
in any order with other calls.  `connect` and `disconnect` add nothing to that.
`crash1` is one step: `DeleteServer` and the disconnection precede the copy of
the Persister, so nothing a dead instance does later is seen, except that its
requests already under way reach their handlers.

Smaller abstractions:

- A timeout and the `phaseChange` that follows it are one step, as nothing is
  read in between; so are decoding a reply and the sender's `termSync`.
- `args.Entries` shares memory with the log until `Call` encodes it.  With
  `Aliased` each entry's fields may be read before or after they are
  overwritten (a data race in the code).
- A token for `electionReset` taken by a goroutine of a dead instance is like
  one that nobody has taken yet.  A dead instance's last `applyEntries` is one
  that came before the crash.
- Snapshots are not used by the code.  With one server `heartbeat` indexes its
  sorted slice out of range, so at least two are assumed.

`RaftTimely` adds that a goroutine which only needs the processor or the lock
runs before a timer fires, a message arrives or the tester acts, and that a
request (at most 27 ms late in labrpc) is handled within its heartbeat round
(50 ms).  `LateReplies` and `LateRequests` give up the latter.  Without the
timing, Raft's agreement properties are not claims this code can keep: see the
findings.

### Runs

| Run | Instance | Shows |
|---|---|---|
| `raft_crash` | 2 servers, 2 terms, 1 command, aliasing, 1 crash | `TypeOK`; `NextIndexInRange`: no slice out of range and log repair goes down; `VotesAreDurable`; implements `Ballot` |
| `timely_replication` | 3 servers, from the first leader, 2 terms, 2 commands, 1 crash | `ElectionSafety`, `VotesAreBacked`, `VotesAccounted`, `StateMachineSafety`, `CommittedInLog` |
| `timely_contested` | 3 servers whose logs conflict, terms 3 and 4, logs of 2 entries, replies held back past their round | `LogMatching`, `LogTermsOrdered`, `MatchIndexAccurate`, `LeaderCompleteness` |
| `raft_two_votes` | 3 servers | violated: `OneVotePerTerm` |
| `timely_late_requests` | 3 servers | violated: `StateMachineSafety` |

`timely_replication` starts at `InitElected`, a state that `Init` reaches when
the first election loses no message; that leaves room for a second term.
`timely_contested` starts at `InitContested`, which takes two more elections to
reach: one server led term 1 and took one or two commands it could send to
nobody, a rival led term 2 and did the same with one, and the first leads again,
in term 3.  From there the logs have to be repaired, by cutting the rival's or
the leader's own; an entry of term 1 comes to be on a majority during term 3,
and the rival may still be elected in term 4 and overwrite it.  So
`LeaderCompleteness` fails if `Committable` leaves out the test of the entry's
term, and `LogMatching` if the previous entry's term is not compared.

`MatchIndexAccurate` speaks of a heartbeat goroutine only while its server is in
the term it was elected in: after `termSync` has raised the term, and before the
demotion, its `matchIndex` may count what the new leader has already cut off.
Nothing is committed from it then, as its log holds no entry of the later term.

Bounds: `MaxTerm`, `MaxLog` (one entry per log is enough for two commands to
compete for an index, two for logs that differ in the middle), `MaxCrash`,
`Beats` (rounds of one leader whose calls can be pending together: the next
round takes the current number if nothing of it is left),
`MaxResets`.  The constraints of the MC modules bound calls and goroutines that
exist at once; `timely_contested` allows `MaxCalls` calls up to term 3 and
`MaxLater` in term 4.
Deadlock is not checked, because the bounds, and a panic, stop the system.

Outside these bounds: two heartbeat goroutines of one server at once, in a run
(theorem `IndicesInRange` covers them); an old election that wins in a later
term (`raft_candidate.go:68`); and whatever happens between the two critical
sections of `termSync`, which `RaftTimely` takes to follow each other.

## labrpc

One record per Call follows it from `Call` through `ProcessReq` to its return.
The handler is separate: it goes on when `ProcessReq` has given up.  `execute`
stands for a handler that persists an effect and returns.  `servers` holds the
number of the Server object under each name; `owner` the instance whose
Persister is the one that counts.  Ends are connected once, as the testers do.
Delays need no state: a delay is the time before the next step.

| Run | Instance | Shows |
|---|---|---|
| `labrpc_calls` | 2 calls, 2 instances of a server | `PositiveReplyIsDurable`; implements `RpcPromise`; `CallReturns`; `TypeOK` includes that the serving instance owns the Persister |

Fairness: labrpc's goroutines run, as Go's scheduler provides.  Handlers need
not return and the tester need not act, which is why `CallReturns` excepts a
handler that hangs on a live server.

## MapReduce

`phase` is where `run` is.  `idle` is the set of workers that some goroutine is
sending on `idleWorkers`, through the forwarder or not; the order in which they
are received is left open.  `calls` are the RPCs to workers with the `do`
goroutine that waits for each.  Channels are made anew for each phase, so a
goroutine of the earlier one is never heard.  A worker's `left` is its `nRPC`;
negative numbers are never used up.  `die` is the environment: a process that
dies takes its connections with it.

`SequentialJob` computes the files.  `mapF`'s result is the input, values are
numbers and `reduceF` is the sum of `wc.go`; keys are in their sort order, and
the empty string, which none of the repository's map functions emits, is 0.

| Run | Instance | Shows |
|---|---|---|
| `mapreduce_job` | 3 workers, 2 of them limited to 2 RPCs and mortal, 2 + 1 tasks | `TypeOK`, `OneTaskPerWorker`, `TasksConserved`, `OutputsComplete`, `JobCompletes` |
| `mapreduce_wait` | 1 worker | violated: `WorkersShutDown` |
| `tasks_output` | every input of 2 files, up to 2 pairs each, 3 keys, 2 partitions | `OutputCorrect` |

Fairness: goroutines that can run do.  One worker has no limit and does not
die; without one the job need not end.  Three keys in two partitions give
groups that share a file, and empty partitions.

After its loop `doReduce` writes the last group also when there was none, so a
reduce task with an empty partition puts a pair with the empty key in its result
(`common_reduce.go:71`), although a comment asks for one call "per distinct key"
(`common_reduce.go:92`).  `OutputCorrect` is about the keys of the input.
With no tasks at all `schedule` would never return; no caller passes none.

## Linearizability checker

`search[k]` holds the locals of the goroutine that runs `checkSingle` on key
`k`: its list as two functions `next` and `prev` on the places of the sorted
entries (0 is nil), the stack, the cache and the state.  A step is one iteration
of its loop, as two partitions share only `kill`.  `receive` and `timeoutChan`
are the cases of the `select`.  Bitsets are sets of ids; the cache is a set of
pairs, since a hash only chooses the bucket that is searched.  `sort.Sort` is
not stable: entries at the same time come in every order.  Strings are the
sequence of what was appended to them.  `KvModel` has no `PartitionEvent`, so
`CheckEvents` searches all keys of a history as if they were one; it is given
histories of one key.

`EntrySearch` is the same search on the operations that are not linearized yet,
without a list, and for any sequential model.

| Run | Instance | Shows |
|---|---|---|
| `linear_check` | every history of up to 3 operations on 2 keys at 3 times, chains of 3, event histories of 2; with and without a timeout | `AcceptedIsLinearizable` and `RefusedIsNot`: the answer agrees with the definition, over all keys at once; `ListIsWhatIsLeft`; `SearchSpec`: implements `EntrySearch`; `Returns`, `SearchesEnd` |

Three operations let a search back out of two levels, and meet a cached pair.
An operation ends later than it begins, as a `Call` takes time: one of no length
could be sorted with its return first, and `makeLinkedEntries` would then leave
the call without its `match`.
Operations that touch are held against both readings: what is accepted has
an order for the strict one, what is refused has none even for the weak one.
After a timeout the answer may be a false positive, as the code says.  `Returns`
leaves out a history without partitions, for which `checkParallel` waits for
a result that no goroutine sends unless a timeout is set.  Fairness:
goroutines run, and a timeout that was set fires.

## Clerks and testers of the services

The three testers stop and start servers by the same sequence of calls, which
`todo` holds while an operation of the main goroutine is under way; each call is
a step, and between `Copy` and `Forget`, where `cfg.mu` is released around
`Kill`, other goroutines run.  Instances are numbered: `endnames`, `servers`,
`netServers` and `saved` say which instance has the current ends, is in
`cfg.servers`, is in the network, and writes the current Persister.
`ServiceTester` adds the ends between servers, partitions and clients;
`ShardClerk` the ends to peers and masters of a group's servers.  Loops over
ends are one step: nothing that is modelled sees them half done.

A clerk's step is what it does up to or after a `Call`.  labrpc is modelled by
what `LabRPC` shows of it: a call fails if its server is gone, cut off or
replaced since it was handled, or is lost; otherwise it brings the answer.  The
repository's handlers are empty: here they answer anything their reply types
allow.  That a handler may run after its `Call` has returned false is in
`LabRPC`; no property here depends on it.

| Run | Instance | Shows |
|---|---|---|
| `master_clerk` | 3 servers, 1 clerk with 2 operations, 3 operations of the tester, 1 lost message | `PartitionHolds`, `LeaderInMinority`, `OneInstance`, `ReturnsAnswered`, `OperationsReturn` |
| `shard_clerk` | 2 groups of 2 servers, 2 configurations and the empty one, 1 clerk with 2 operations, 2 group shutdowns or starts, 1 lost message | `CutOff`, `AnsweredByOwner`, `KeepsTrying` |

Bounds: `MaxStarts` (2 instances per server: one to supersede), `MaxMoves`
(operations of the tester: partition, shut down and restart), `MaxOps` (an
operation that could be taken for the next), `MaxLost`.  Clerks share nothing
but the network, so one is enough.  The sides of a partition are computed for 3,
5 and 7 servers (`Sizes`).

Fairness: the tester's operations go on, calls return (`CallReturns` of `LabRPC`)
and sleeps end.  Both liveness properties have an environment that may `settle`,
which is no code of the repository.  For `OperationsReturn` one server becomes
leader for good, the others say that they are not, and the tester stops; if the
clerk is connected to the leader, its operation returns, although it may be
asking any server when this happens.  For `KeepsTrying` it is a
configuration that stays, all servers up, a leader in each group that answers,
and followers that do not say `ErrWrongGroup`.  The last is needed: the clerk
leaves its round on `ErrWrongGroup` whether or not it comes from a leader, so a
follower that lags behind, early in the list, keeps it from the leader.

Things seen on the way that no test reaches: `disconnectUnlocked` tests
`endnames[j]` for nil where it uses `endnames[from[j]]`; with an even number of
servers `make_partition` puts server 0 in both groups; shardkv's `makeClient`
sizes `endnames` by `cfg.n` and fills it up to `cfg.nmasters`; ends made by
`make_end` are never disabled, and `deleteClient` leaves a client's ends
enabled; clerks send no request number, so that a retried call may be carried
out twice.

## Findings

1. `raft_two_votes`: between `termSync` and the payload of `RequestVote` the
   server can enter the next term; it then grants a second vote in the old one.
2. `timely_late_requests`: `AppendEntries` truncates unconditionally, so a
   heartbeat overtaken by a newer one removes committed entries.
3. `mapreduce_wait`: after `Shutdown` a worker waits in `Accept` for ever.

The sources and the comments they contradict are in `PROJECT.json`.

`callElection`'s majority is `Ceil(n / 2)`, half of the servers when their
number is even: the first election of two servers can make both of them leader.
The tests only use odd clusters, and so do the runs about leaders.

## Theorems

Assumptions: at least two servers, `None` not one of them, bounds that are
numbers; for labrpc, ends with a server each and at least one instance.

| Theorem | Statement |
|---|---|
| `RaftIndexProofs!TypeCorrect` | `Spec => []TypeOK` |
| `RaftIndexProofs!IndicesInRange` | `Spec => []NextIndexInRange` |
| `RaftVoteProofs!VotesDurable` | `Spec => []VotesAreDurable` |
| `RaftVoteProofs!RaftImplementsBallot` | `Spec => BallotSpec` |
| `RaftCountProofs!BackedVotes` | `Spec => []VotesAreBacked` |
| `RaftCountProofs!AccountedVotes` | `Spec => []VotesAccounted` |
| `LabRPCProofs!TypeCorrect` | `Spec => []TypeOK` |
| `LabRPCProofs!RepliesDurable` | `Spec => []PositiveReplyIsDurable` |
| `LabRPCProofs!CallKeepsPromise` | `Spec => KeepsPromise` |
| `EntrySearchProofs!Sound` | `Spec => []AcceptsOnlyLinearizable` |
| `EntrySearchProofs!Complete` | `Spec => []RefusesOnlyOthers` |

`NextIndexInRange` is not inductive: that a rejected append names a usable
`NextIndex` depends on every log, in memory and on disk, beginning with the
sentinel (`LogsRooted`) and on appends at index 0 carrying its term (`RpcOK`).
`IndexInv` adds these to the types, in parts that different actions disturb.

`VoteInv` adds that a running server's term, vote and log are what its
Persister holds (`Durable`), that elections belong to running servers, and that
a handler past its `termSync` runs on a server that has reached the call's term
(`CallOK`).  A granted vote then stays backed because a Persister's term only
grows and its vote changes only with the term.  The same facts make each step
one of `Ballot`, or none: while a server is down its Persister holds the term
and vote it will come back with.

`CountInv` adds to it that an election asks every server once (`RequestsUnique`:
a RequestVote is told from all others by its sender, receiver and term, since a
term is campaigned in once), and `TallyOK`: its votes are at most its backers
from which it no longer awaits an answer, and what it has heard and what it
awaits make up the cluster.  Counting an answer takes one server out of
`Awaited`, and if it is a vote the voter is a backer, by `VotesAreDurable`.  A
backer stays one, because a disk's term only grows.  This is for any number of
servers, crashes and calls under way, with no assumption on timing.  That two
elections of one term cannot both win does not follow from it: by finding 1 a
server may grant two votes in a term, and `ElectionSafety` rests on timing.

For labrpc `Inv` says that a call's instance is not later than the last made,
and that an ended handler whose instance still serves has left its effect in
the Persister (`CallInv`).  A positive reply is given only in that case, and
the effect survives the next copy.

`EntrySearch` is proved for every history and model; nothing is assumed of
`Legal` and `After`.  Each level of the stack has passed no return and only
calls that are illegal or lead nowhere (`Level`), and what is cached is on the
stack or leads nowhere (`CacheInv`).  A pair on the stack cannot be met again
above it, because the set of linearized operations has grown; so a cached pair
that is met leads nowhere.  A return that is reached with nothing legal before
it shows that the level has no completion.  `SearchSpec` carries both results to
`checkSingle`, on the instance of `linear_check`.

Only model-checked: the properties of `RaftTimely`, which rest on timing;
`LogTermsOrdered`; MapReduce; the linked list of the checker and its collection
of results; the clerks and testers; and all liveness, which is beyond the
prover, as is induction over the folds of `SequentialJob`.

## Open ends

1. Raft liveness under `RaftTimely` (a leader is elected, an entry commits), and
   a run with three terms and late replies for "candidate check 2"
   (`raft_candidate.go:68`); both are beyond the bounds that finish.
2. Proofs: `LogTermsOrdered` without aliasing; `OneTaskPerWorker`,
   `TasksConserved` and `OutputsComplete` of MapReduce.
3. When the services' handlers are written: replace the open handlers of
   `MasterClerk` and `ShardClerk` by them, on top of `Raft`.

## Not modelled

labgob (reflection, warnings about field names; a round trip is taken as exact
for the RPCs' argument types) and `main/ii.go` (two string functions): no
protocol state.  The servers of kvraft, shardmaster and shardkv, and kvraft's
clerk: their bodies are empty.  Statistics, log size checks, logging, and file
system errors.
