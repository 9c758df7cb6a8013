----------------------------- MODULE MapReduce ------------------------------
(***************************************************************************)
(* A distributed job of src/src/mapreduce: the master's run, schedule and  *)
(* do goroutines, the registration of workers, the workers' accept loops   *)
(* and the RPCs between them.  Workers stop after a given number of RPCs   *)
(* or die at any time; a task is then done again by another worker.        *)
(***************************************************************************)
EXTENDS Integers, Sequences, FiniteSets

CONSTANTS Worker,
          nRPC,      \* RunWorker's nRPC; a negative one is never used up
          Mortal,    \* workers whose process may die
          nMap, nReduce,
          NoTask

ASSUME JobAssumption ==
  /\ nRPC \in [Worker -> Int]
  /\ Mortal \subseteq Worker
  /\ nMap \in Nat \ {0}
  /\ nReduce \in Nat \ {0}
  /\ NoTask \notin Nat

VARIABLES
  phase,        \* where run is: a phase of schedule, or what follows
  workers,      \* Master.workers
  forwarded,    \* i of the phase's forwardRegistrations
  idle,         \* workers being sent on the phase's idleWorkers
  idleTasks,    \* the buffered channel
  held,         \* the task for which schedule waits for a worker
  doneCounter,
  calls,        \* RPCs to workers, and do goroutines until they end
  killed,       \* workers killWorkers is done with
  loop,         \* where RunWorker is
  left,         \* Worker.nRPC
  files         \* the output of each task of each phase

master == <<phase, workers, forwarded, killed>>
schedule == <<idle, idleTasks, held, doneCounter>>
vars == <<phase, workers, forwarded, idle, idleTasks, held, doneCounter, calls, killed,
          loop, left, files>>
-----------------------------------------------------------------------------
Phases == {"map", "reduce"}
ntasks(p) == IF p = "map" THEN nMap ELSE nReduce
Listening(w) == loop[w] \notin {"off", "exit"}

\* A call of phase p's do goroutine: its procedure, arguments and progress.
DoTaskCall(p, t, w) ==
  [proc |-> "DoTask", phase |-> p, task |-> t, worker |-> w, at |-> "dial"]
ShutdownCall(w) ==
  [proc |-> "Shutdown", phase |-> "kill", task |-> NoTask, worker |-> w, at |-> "dial"]

Move(c, at) == calls' = (calls \ {c}) \cup {[c EXCEPT !.at = at]}
\* The calls after w has closed its listener, or died.
Broken(w, stages) ==
  {IF c.worker = w /\ c.at \in stages THEN [c EXCEPT !.at = "failed"] ELSE c : c \in calls}

\* Mutation: as many tasks as the map phase has.
beginScheduleMap(p) ==
  /\ forwarded' = 0
  /\ idle' = {}
  /\ idleTasks' = [i \in 1 .. nMap |-> i]
  /\ held' = NoTask
  /\ doneCounter' = 0

\* The start of schedule for phase p, with fresh channels: what is still being
\* sent on those of the phase before is never received.
beginSchedule(p) ==
  /\ forwarded' = 0
  /\ idle' = {}
  /\ idleTasks' = [i \in 1 .. ntasks(p) |-> i]
  /\ held' = NoTask
  /\ doneCounter' = 0
-----------------------------------------------------------------------------
(* The master *)

\* forwardRegistrations, up to the goroutine that offers the worker.
forwardRegistrations ==
  /\ phase \in Phases
  /\ forwarded < Len(workers)
  /\ forwarded' = forwarded + 1
  /\ idle' = idle \cup {workers[forwarded + 1]}
  /\ UNCHANGED <<phase, workers, killed, idleTasks, held, doneCounter, calls, loop, left, files>>

takeTask ==
  /\ phase \in Phases
  /\ held = NoTask
  /\ idleTasks # << >>
  /\ held' = Head(idleTasks)
  /\ idleTasks' = Tail(idleTasks)
  /\ UNCHANGED <<master, idle, doneCounter, calls, loop, left, files>>

\* Mutation: the worker stays on offer.
giveTaskTwice(w) ==
  /\ held # NoTask
  /\ w \in idle
  /\ held' = NoTask
  /\ calls' = calls \cup {DoTaskCall(phase, held, w)}
  /\ UNCHANGED <<master, idle, idleTasks, doneCounter, loop, left, files>>

giveTask(w) ==
  /\ held # NoTask
  /\ w \in idle
  /\ held' = NoTask
  /\ idle' = idle \ {w}
  /\ calls' = calls \cup {DoTaskCall(phase, held, w)}
  /\ UNCHANGED <<master, idleTasks, doneCounter, loop, left, files>>

\* Mutation: one task too few is waited for.
LastTaskEarly(p, n) == n >= ntasks(p) - 1 /\ n >= 1

LastTask(p, n) == n = ntasks(p)

\* case <-doneTasks.  After the last one run goes on to the reduce phase, or
\* locks the master to kill the workers.
taskDone(c) ==
  /\ c.at = "done"
  /\ c.phase = phase
  /\ held = NoTask
  /\ calls' = calls \ {c}
  /\ IF ~ LastTask(phase, doneCounter + 1)
     THEN /\ doneCounter' = doneCounter + 1
          /\ UNCHANGED <<phase, forwarded, idle, idleTasks, held>>
     ELSE \/ /\ phase = "map"
             /\ phase' = "reduce"
             /\ beginSchedule("reduce")
          \/ /\ phase = "reduce"
             /\ phase' = "kill"
             /\ doneCounter' = doneCounter + 1
             /\ UNCHANGED <<forwarded, idle, idleTasks, held>>
  /\ UNCHANGED <<workers, killed, loop, left, files>>

\* Mutation: the worker is sent without a goroutine, to a schedule that must
\* be waiting for one.
doReturnsInline(c) ==
  /\ c.at = "replied"
  /\ c.proc = "DoTask"
  /\ held # NoTask
  /\ idle' = IF c.phase = phase THEN idle \cup {c.worker} ELSE idle
  /\ Move(c, "done")
  /\ UNCHANGED <<master, idleTasks, held, doneCounter, loop, left, files>>

\* do, when its call has returned true.
doReturns(c) ==
  /\ c.at = "replied"
  /\ c.proc = "DoTask"
  /\ idle' = IF c.phase = phase THEN idle \cup {c.worker} ELSE idle
  /\ Move(c, "done")
  /\ UNCHANGED <<master, idleTasks, held, doneCounter, loop, left, files>>

\* Mutation: a failed task is forgotten.
doForgets(c) ==
  /\ c.at = "failed"
  /\ c.proc = "DoTask"
  /\ calls' = calls \ {c}
  /\ UNCHANGED <<master, schedule, loop, left, files>>

\* do, when its call has returned false: the worker is not used again.
doFails(c) ==
  /\ c.at = "failed"
  /\ c.proc = "DoTask"
  /\ c.phase = phase
  /\ Len(idleTasks) < ntasks(phase)
  /\ idleTasks' = Append(idleTasks, c.task)
  /\ calls' = calls \ {c}
  /\ UNCHANGED <<master, idle, held, doneCounter, loop, left, files>>

Killing == \E c \in calls : c.proc = "Shutdown"

\* killWorkers holds the master's lock throughout.
killWorker ==
  /\ phase = "kill"
  /\ ~ Killing
  /\ killed < Len(workers)
  /\ calls' = calls \cup {ShutdownCall(workers[killed + 1])}
  /\ UNCHANGED <<master, schedule, loop, left, files>>

killReturns(c) ==
  /\ c.proc = "Shutdown"
  /\ c.at \in {"replied", "failed"}
  /\ calls' = calls \ {c}
  /\ killed' = killed + 1
  /\ UNCHANGED <<phase, workers, forwarded, schedule, loop, left, files>>

stopRPCServer ==
  /\ phase = "kill"
  /\ ~ Killing
  /\ killed = Len(workers)
  /\ phase' = "merge"
  /\ UNCHANGED <<workers, forwarded, killed, schedule, calls, loop, left, files>>

merge ==
  /\ phase = "merge"
  /\ phase' = "done"
  /\ UNCHANGED <<workers, forwarded, killed, schedule, calls, loop, left, files>>
-----------------------------------------------------------------------------
(* Workers *)

\* RunWorker listens, then dials the master; without one it goes on unregistered.
RunWorker(w) ==
  /\ loop[w] = "off"
  /\ loop' = [loop EXCEPT ![w] = IF phase \in {"merge", "done"} THEN "check" ELSE "register"]
  /\ UNCHANGED <<master, schedule, calls, left, files>>

Register(w) ==
  /\ loop[w] = "register"
  /\ phase # "kill"
  /\ workers' = Append(workers, w)
  /\ loop' = [loop EXCEPT ![w] = "check"]
  /\ UNCHANGED <<phase, forwarded, killed, schedule, calls, left, files>>

\* The master closed its listener before it had accepted the connection.
registerFails(w) ==
  /\ loop[w] = "register"
  /\ phase \in {"merge", "done"}
  /\ loop' = [loop EXCEPT ![w] = "check"]
  /\ UNCHANGED <<master, schedule, calls, left, files>>

\* The top of the accept loop; closing the listener resets what is queued.
checkRPCs(w) ==
  /\ loop[w] = "check"
  /\ loop' = [loop EXCEPT ![w] = IF left[w] = 0 THEN "exit" ELSE "accept"]
  /\ calls' = IF left[w] = 0 THEN Broken(w, {"queued"}) ELSE calls
  /\ UNCHANGED <<master, schedule, left, files>>

accept(c) ==
  LET w == c.worker
  IN  /\ c.at = "queued"
      /\ loop[w] = "accept"
      /\ loop' = [loop EXCEPT ![w] = "check"]
      /\ left' = [left EXCEPT ![w] = IF @ > 0 THEN @ - 1 ELSE @]
      /\ Move(c, "served")
      /\ UNCHANGED <<master, schedule, files>>

\* call: a socket accepts connections as long as somebody listens.
dial(c) ==
  /\ c.at = "dial"
  /\ Move(c, IF Listening(c.worker) THEN "queued" ELSE "failed")
  /\ UNCHANGED <<master, schedule, loop, left, files>>

\* DoTask creates its output files, fills them and returns.
DoTask(c) ==
  /\ c.proc = "DoTask"
  /\ c.at = "served"
  /\ files' = [files EXCEPT ![c.phase][c.task] = "partial"]
  /\ Move(c, "running")
  /\ UNCHANGED <<master, schedule, loop, left>>

DoTaskReturns(c) ==
  /\ c.at = "running"
  /\ files' = [files EXCEPT ![c.phase][c.task] = "whole"]
  /\ Move(c, "replied")
  /\ UNCHANGED <<master, schedule, loop, left>>

Shutdown(c) ==
  /\ c.proc = "Shutdown"
  /\ c.at = "served"
  /\ left' = [left EXCEPT ![c.worker] = 1]
  /\ Move(c, "replied")
  /\ UNCHANGED <<master, schedule, loop, files>>

\* The worker's process dies, and with it its connections.  (A death while it
\* registers is one after the registration, or a worker that never came.)
die(w) ==
  /\ w \in Mortal
  /\ loop[w] \notin {"off", "register", "exit"}
  /\ loop' = [loop EXCEPT ![w] = "exit"]
  /\ calls' = Broken(w, {"queued", "served", "running", "replied"})
  /\ UNCHANGED <<master, schedule, left, files>>
-----------------------------------------------------------------------------
Init ==
  /\ phase = "map"
  /\ workers = << >>
  /\ forwarded = 0
  /\ idle = {}
  /\ idleTasks = [i \in 1 .. nMap |-> i]
  /\ held = NoTask
  /\ doneCounter = 0
  /\ calls = {}
  /\ killed = 0
  /\ loop = [w \in Worker |-> "off"]
  /\ left = nRPC
  /\ files = [p \in Phases |-> [t \in 1 .. ntasks(p) |-> "none"]]

MasterStep ==
  \/ forwardRegistrations
  \/ takeTask
  \/ \E w \in Worker : giveTask(w)
  \/ killWorker
  \/ stopRPCServer
  \/ merge

CallStep(c) ==
  \/ dial(c) \/ accept(c)
  \/ DoTask(c) \/ DoTaskReturns(c) \/ Shutdown(c)
  \/ doReturns(c) \/ doFails(c) \/ taskDone(c) \/ killReturns(c)

WorkerStep(w) == RunWorker(w) \/ Register(w) \/ registerFails(w) \/ checkRPCs(w)

Next ==
  \/ MasterStep
  \/ \E c \in calls : CallStep(c)
  \/ \E w \in Worker : WorkerStep(w) \/ die(w)

\* Goroutines that can run do; no worker has to die.
Fairness ==
  /\ WF_vars(forwardRegistrations)
  /\ WF_vars(takeTask)
  /\ WF_vars(\E w \in Worker : giveTask(w))
  /\ WF_vars(killWorker \/ stopRPCServer \/ merge)
  /\ \A t \in 1 .. nMap + nReduce, w \in Worker :
       WF_vars(\E c \in calls : c.task = t /\ c.worker = w /\ CallStep(c))
  /\ WF_vars(\E c \in calls : c.proc = "Shutdown" /\ CallStep(c))
  /\ \A w \in Worker : WF_vars(WorkerStep(w))

Spec == Init /\ [][Next]_vars
FairSpec == Spec /\ Fairness
-----------------------------------------------------------------------------
\* Every task in hand is a task of its phase, every index one into Master.workers.
TypeOK ==
  /\ phase \in {"map", "reduce", "kill", "merge", "done"}
  /\ workers \in Seq(Worker)
  /\ forwarded \in 0 .. Len(workers)
  /\ idle \subseteq Worker
  /\ idleTasks \in Seq(1 .. ntasks(phase))
  /\ held \in 1 .. ntasks(phase) \cup {NoTask}
  /\ doneCounter \in Nat
  /\ \A c \in calls :
       /\ c.proc \in {"DoTask", "Shutdown"}
       /\ c.task \in IF c.proc = "DoTask" THEN 1 .. ntasks(c.phase) ELSE {NoTask}
       /\ c.worker \in Worker
       /\ c.at \in {"dial", "queued", "served", "running", "replied", "failed", "done"}
  /\ killed \in 0 .. Len(workers)
  /\ loop \in [Worker -> {"off", "register", "check", "accept", "exit"}]
  /\ left \in [Worker -> Int]
  /\ \A p \in Phases : files[p] \in [1 .. ntasks(p) -> {"none", "partial", "whole"}]

\* "schedule() should never issue more than one RPC at a time to a given
\* worker" (worker.go:51-52): a worker with a DoTask under way has no other, and
\* is not on offer.
OneTaskPerWorker ==
  \A c \in calls : c.proc = "DoTask" /\ c.at \notin {"done", "failed"} =>
    /\ c.worker \notin idle
    /\ \A d \in calls : d.worker = c.worker /\ d.at \notin {"done", "failed"} => d = c

\* Every task of the phase is in one place: waiting, held, with a do
\* goroutine, or counted; so idleTasks (capacity ntasks) never blocks a do.
TasksConserved ==
  phase \in Phases =>
    LET given == {c.task : c \in calls}
        waiting == {idleTasks[i] : i \in 1 .. Len(idleTasks)}
        hold == {held} \ {NoTask}
    IN  /\ Cardinality(calls) + Len(idleTasks) + Cardinality(hold) + doneCounter = ntasks(phase)
        /\ Cardinality(given \cup waiting \cup hold) + doneCounter = ntasks(phase)

\* A reduce task reads, and merge reads, only files that are complete and
\* that no straggler is writing any more.
OutputsComplete ==
  /\ phase # "map" => \A t \in 1 .. nMap : files["map"][t] = "whole"
  /\ phase \notin Phases => \A t \in 1 .. nReduce : files["reduce"][t] = "whole"

\* The job ends if one worker stays alive, whatever the others do: "Once all
\* tasks have completed successfully, schedule() should return"
\* (schedule.go:26-27), and killWorkers and Register do not block each other.
JobCompletes == <>(phase = "done")

\* Wait returns when "all workers have been shut down" (master.go:153-154): at
\* the least, the workers that registered do not run for ever.
WorkersShutDown ==
  phase = "done" ~> \A i \in 1 .. Len(workers) : loop[workers[i]] = "exit"
=============================================================================
