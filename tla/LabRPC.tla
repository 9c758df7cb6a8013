------------------------------- MODULE LabRPC -------------------------------
(***************************************************************************)
(* The simulated network of src/src/labrpc: Calls, the goroutines that     *)
(* carry them, and the tester that cuts connections and replaces servers   *)
(* and their Persisters while calls are in flight.  Delays are the time    *)
(* between two steps, so LongDelays and LongReordering need no state.      *)
(***************************************************************************)
EXTENDS Naturals, FiniteSets

CONSTANTS Request,      \* the Calls that are made
          End, Server,  \* client ends and server names
          Target,       \* Network.connections: the server of each end
          MaxInstances  \* bound: Server objects added under one name

ASSUME NetworkAssumption ==
  /\ Target \in [End -> Server]
  /\ MaxInstances \in Nat \ {0}

VARIABLES
  enabled,   \* Network.enabled
  servers,   \* Network.servers: the instance under each name, 0 for nil
  reliable,  \* Network.reliable
  closed,    \* Network.done is closed
  serving,   \* the goroutine that reads endCh has not returned
  call,      \* a Call, its ProcessReq and its handler
  made,      \* instances made under each name so far
  owner,     \* the instance that writes cfg.saved, 0 once it is superseded
  saved      \* requests whose effect is in cfg.saved

network == <<enabled, servers, reliable, closed>>
tester  == <<made, owner, saved>>
vars == <<enabled, servers, reliable, closed, serving, call, made, owner, saved>>
-----------------------------------------------------------------------------
At(c, from, to) == call[c].at = from /\ call' = [call EXCEPT ![c].at = to]

Call(c, e) ==
  /\ call[c].at = "idle"
  /\ call' = [call EXCEPT ![c].at = "sent", ![c].end = e]
  /\ UNCHANGED <<network, serving, tester>>

\* case <-e.done
callDone(c) ==
  /\ closed
  /\ At(c, "sent", "returned")
  /\ UNCHANGED <<network, serving, tester>>

\* The goroutine of MakeNetwork hands the request to a ProcessReq.
serve(c) ==
  /\ serving
  /\ At(c, "sent", "process")
  /\ UNCHANGED <<network, serving, tester>>

serveDone ==
  /\ closed
  /\ serving
  /\ serving' = FALSE
  /\ UNCHANGED <<network, call, tester>>

ReadEndnameInfo(c) ==
  LET e == call[c].end
      inst == servers[Target[e]]
  IN  /\ call[c].at = "process"
      /\ call' = [call EXCEPT
           ![c].server = inst,
           ![c].reliable = reliable,
           ![c].at = IF enabled[e] /\ inst # 0 THEN "delay" ELSE "reply"]
      /\ UNCHANGED <<network, serving, tester>>

dropRequest(c) ==
  /\ ~ call[c].reliable
  /\ At(c, "delay", "reply")
  /\ UNCHANGED <<network, serving, tester>>

dispatch(c) ==
  /\ call[c].at = "delay"
  /\ call' = [call EXCEPT ![c].at = "wait", ![c].handler = "running"]
  /\ UNCHANGED <<network, serving, tester>>

\* The handler persists what it does and returns.  An instance that has been
\* superseded writes a Persister nobody will read.
execute(c) ==
  LET s == Target[call[c].end]
  IN  /\ call[c].handler = "running"
      /\ call' = [call EXCEPT ![c].handler = "ended"]
      /\ saved' = IF owner[s] = call[c].server
                  THEN [saved EXCEPT ![s] = @ \cup {c}] ELSE saved
      /\ UNCHANGED <<network, serving, made, owner>>

\* Mutation: only a name without a server is dead.
IsServerDeadNil(c) ==
  ~ enabled[call[c].end] \/ servers[Target[call[c].end]] = 0

IsServerDead(c) ==
  ~ enabled[call[c].end] \/ servers[Target[call[c].end]] # call[c].server

replyComes(c) ==
  /\ call[c].handler = "ended"
  /\ At(c, "wait", "answered")
  /\ UNCHANGED <<network, serving, tester>>

\* Mutation: the poll looks at the end only.
pollEnd(c) ==
  /\ ~ enabled[call[c].end]
  /\ At(c, "wait", "gone")
  /\ UNCHANGED <<network, serving, tester>>

poll(c) ==
  /\ IsServerDead(c)
  /\ At(c, "wait", "gone")
  /\ UNCHANGED <<network, serving, tester>>

\* Mutation: replyOK is not looked at.
finishHasty(c) ==
  /\ call[c].at \in {"answered", "gone"}
  /\ \E drop \in IF call[c].reliable THEN {FALSE} ELSE BOOLEAN :
       call' = [call EXCEPT ![c].at = "reply", ![c].ok = ~ IsServerDead(c) /\ ~ drop]
  /\ UNCHANGED <<network, serving, tester>>

\* The second look at the server, then the loss of the reply.
finish(c) ==
  /\ call[c].at \in {"answered", "gone"}
  /\ \E drop \in IF call[c].reliable THEN {FALSE} ELSE BOOLEAN :
       call' = [call EXCEPT
         ![c].at = "reply",
         ![c].ok = call[c].at = "answered" /\ ~ IsServerDead(c) /\ ~ drop]
  /\ UNCHANGED <<network, serving, tester>>

deliver(c) ==
  /\ At(c, "reply", "returned")
  /\ UNCHANGED <<network, serving, tester>>
-----------------------------------------------------------------------------
(* The tester *)

Enable(e, yes) ==
  /\ enabled[e] # yes
  /\ enabled' = [enabled EXCEPT ![e] = yes]
  /\ UNCHANGED <<servers, reliable, closed, serving, call, tester>>

Reliable(yes) ==
  /\ reliable # yes
  /\ reliable' = yes
  /\ UNCHANGED <<enabled, servers, closed, serving, call, tester>>

Cleanup ==
  /\ ~ closed
  /\ closed' = TRUE
  /\ UNCHANGED <<enabled, servers, reliable, serving, call, tester>>

DeleteServer(s) ==
  /\ servers[s] # 0
  /\ servers' = [servers EXCEPT ![s] = 0]
  /\ UNCHANGED <<enabled, reliable, closed, serving, call, tester>>

\* Mutation: the Persister is copied while the server still serves.
supersedeFirst(s) ==
  /\ owner[s] # 0
  /\ owner' = [owner EXCEPT ![s] = 0]
  /\ UNCHANGED <<network, serving, call, made, saved>>

\* crash1 copies the Persister, after DeleteServer.
supersede(s) ==
  /\ servers[s] = 0
  /\ owner[s] # 0
  /\ owner' = [owner EXCEPT ![s] = 0]
  /\ UNCHANGED <<network, serving, call, made, saved>>

\* start1: Make gets the copy, and the new instance is added.
AddServer(s) ==
  /\ owner[s] = 0
  /\ made[s] < MaxInstances
  /\ made' = [made EXCEPT ![s] = @ + 1]
  /\ owner' = [owner EXCEPT ![s] = made'[s]]
  /\ servers' = [servers EXCEPT ![s] = made'[s]]
  /\ UNCHANGED <<enabled, reliable, closed, serving, call, saved>>
-----------------------------------------------------------------------------
NoCall(e) ==
  [at |-> "idle", end |-> e, server |-> 0, reliable |-> TRUE, handler |-> "none", ok |-> FALSE]

Init ==
  /\ enabled = [e \in End |-> TRUE]
  /\ servers = [s \in Server |-> 1]
  /\ reliable = TRUE
  /\ closed = FALSE
  /\ serving = TRUE
  /\ \E e \in End : call = [c \in Request |-> NoCall(e)]
  /\ made = [s \in Server |-> 1]
  /\ owner = [s \in Server |-> 1]
  /\ saved = [s \in Server |-> {}]

CallStep(c) ==
  \/ callDone(c)
  \/ serve(c)
  \/ ReadEndnameInfo(c)
  \/ dropRequest(c)
  \/ dispatch(c)
  \/ replyComes(c)
  \/ poll(c)
  \/ finish(c)
  \/ deliver(c)

TesterStep ==
  \/ \E e \in End, yes \in BOOLEAN : Enable(e, yes)
  \/ \E yes \in BOOLEAN : Reliable(yes)
  \/ Cleanup
  \/ \E s \in Server : DeleteServer(s) \/ supersede(s) \/ AddServer(s)

Next ==
  \/ \E c \in Request : CallStep(c) \/ execute(c) \/ \E e \in End : Call(c, e)
  \/ serveDone
  \/ TesterStep

\* The goroutines of labrpc run; a handler need not return, nor the tester act.
Fairness == WF_vars(serveDone) /\ \A c \in Request : WF_vars(CallStep(c))

Spec == Init /\ [][Next]_vars
FairSpec == Spec /\ Fairness
-----------------------------------------------------------------------------
CallRecord ==
  [at : {"idle", "sent", "process", "delay", "wait", "answered", "gone", "reply", "returned"},
   end : End, server : 0 .. MaxInstances, reliable : BOOLEAN,
   handler : {"none", "running", "ended"}, ok : BOOLEAN]

\* Types; and the Server object under a name is the last one made and writes
\* the current Persister, "config.go is careful to call DeleteServer() before
\* superseding the Persister" (labrpc.go:257-258).
TypeOK ==
  /\ enabled \in [End -> BOOLEAN]
  /\ servers \in [Server -> 0 .. MaxInstances]
  /\ \A s \in Server : servers[s] # 0 => servers[s] = made[s] /\ servers[s] = owner[s]
  /\ reliable \in BOOLEAN /\ closed \in BOOLEAN /\ serving \in BOOLEAN
  /\ call \in [Request -> CallRecord]
  /\ made \in [Server -> 1 .. MaxInstances]
  /\ owner \in [Server -> 0 .. MaxInstances]
  /\ saved \in [Server -> SUBSET Request]

\* A positive reply is never about an effect that went into a superseded
\* Persister (labrpc.go:253-258): whoever the server is now, it has it.
PositiveReplyIsDurable ==
  \A c \in Request : call[c].ok => c \in saved[Target[call[c].end]]

\* "Call() is guaranteed to return (perhaps after a delay) *except* if the
\* handler function on the server side does not return" (labrpc.go:37-38), and
\* then too once its server is seen dead.
CallReturns ==
  \A c \in Request :
    \/ call[c].at = "sent" ~> call[c].at = "returned"
    \/ []<>(call[c].handler = "running" /\ ~ IsServerDead(c))

\* What the caller has seen of a call.
Outcome(k) ==
  CASE k.at = "idle" -> "none"
    [] k.at = "returned" -> IF k.ok THEN "true" ELSE "false"
    [] OTHER -> "pending"

P == INSTANCE RpcPromise WITH
       executed <- {c \in Request : call[c].handler = "ended"},
       outcome <- [c \in Request |-> Outcome(call[c])]

\* Call keeps the promise of module RpcPromise whatever the tester does.
KeepsPromise == P!Spec
=============================================================================
