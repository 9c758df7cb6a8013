---------------------------- MODULE LabRPCProofs ----------------------------
(***************************************************************************)
(* Proofs about LabRPC for any number of calls, ends and servers: a        *)
(* positive reply is durable, and Call keeps the promise of RpcPromise.    *)
(***************************************************************************)
EXTENDS LabRPC, TLAPS

\* Before its handler is dispatched a call has no result.  Afterwards the
\* instance it was dispatched to is not a later one than the last made; and
\* if that instance still serves, an ended handler has left its effect.
RecordInv(c, k) ==
  LET s == Target[k.end]
  IN  /\ k.server <= made[s]
      /\ k.at \in {"idle", "sent", "process"} => k.server = 0
      /\ k.at \in {"idle", "sent", "process", "delay"} => k.handler = "none" /\ ~ k.ok
      /\ k.at = "delay" => k.server # 0
      /\ k.handler # "none" => k.server # 0
      /\ k.at = "answered" => k.handler = "ended"
      /\ k.handler = "ended" /\ k.server = servers[s] => c \in saved[s]
      /\ k.ok => k.handler = "ended" /\ c \in saved[s]
      /\ k.ok => k.at \in {"reply", "returned"}

CallInv(c) == RecordInv(c, call[c])

Inv == TypeOK /\ \A c \in Request : CallInv(c)

\* MakeNetwork's network, with every server in place, satisfies the invariant.
LEMMA InitInv == Init => Inv
<1> SUFFICES ASSUME Init PROVE Inv
  OBVIOUS
<1>1. PICK e \in End : call = [c \in Request |-> NoCall(e)]
  BY DEF Init
<1>2. \A c \in Request : call[c] = NoCall(e)
  BY <1>1
<1>3. TypeOK
  <2>1. NoCall(e) \in CallRecord
    BY NetworkAssumption DEF NoCall, CallRecord
  <2>2. call \in [Request -> CallRecord]
    BY <1>1, <2>1
  <2>3. /\ enabled \in [End -> BOOLEAN]
        /\ reliable \in BOOLEAN /\ closed \in BOOLEAN /\ serving \in BOOLEAN
    BY DEF Init
  <2>4. /\ servers \in [Server -> 0 .. MaxInstances]
        /\ \A s \in Server : servers[s] # 0 => servers[s] = made[s] /\ servers[s] = owner[s]
        /\ made \in [Server -> 1 .. MaxInstances]
        /\ owner \in [Server -> 0 .. MaxInstances]
    BY NetworkAssumption DEF Init
  <2>5. saved \in [Server -> SUBSET Request]
    BY DEF Init
  <2> QED BY <2>2, <2>3, <2>4, <2>5 DEF TypeOK
<1>4. \A c \in Request : CallInv(c)
  <2>1. /\ made[Target[e]] = 1 /\ NoCall(e).end = e
        /\ NoCall(e).server = 0 /\ NoCall(e).at = "idle"
        /\ NoCall(e).handler = "none" /\ NoCall(e).ok = FALSE
    BY NetworkAssumption DEF Init, NoCall
  <2> QED BY <1>2, <2>1 DEF CallInv, RecordInv
<1> QED BY <1>3, <1>4 DEF Inv

\* A step that only moves a call on.
LEMMA Moved ==
  ASSUME Inv, NEW c \in Request, NEW k \in CallRecord, RecordInv(c, k),
         call' = [call EXCEPT ![c] = k], UNCHANGED <<network, serving, tester>>
  PROVE  Inv'
<1>1. call' \in [Request -> CallRecord]
  BY DEF Inv, TypeOK
<1>2. TypeOK'
  BY <1>1 DEF Inv, TypeOK, network, tester
<1>3. ASSUME NEW d \in Request PROVE CallInv(d)'
  <2>1. call'[d] = IF d = c THEN k ELSE call[d]
    BY DEF Inv, TypeOK
  <2>2. RecordInv(d, call'[d])
    BY <2>1 DEF Inv, CallInv
  <2> QED BY <2>2 DEF CallInv, RecordInv, network, tester
<1> QED BY <1>2, <1>3 DEF Inv

\* A call that moves on without having got or lost anything.
LEMMA MovedTo ==
  ASSUME Inv, NEW c \in Request, NEW from, NEW to,
         At(c, from, to), UNCHANGED <<network, serving, tester>>,
         \/ from = "sent" /\ to \in {"process", "returned"}
         \/ from = "delay" /\ to = "reply"
         \/ from = "wait" /\ to = "gone"
         \/ from = "wait" /\ to = "answered" /\ call[c].handler = "ended"
         \/ from = "reply" /\ to = "returned"
  PROVE  Inv'
<1>1. PICK old \in CallRecord : old = call[c] /\ RecordInv(c, old) /\ old.at = from
  BY DEF Inv, TypeOK, CallInv, At
<1>2. PICK k : k = [old EXCEPT !.at = to]
  OBVIOUS
<1>3. /\ k \in CallRecord /\ k.at = to /\ k.end = old.end /\ k.server = old.server
      /\ k.handler = old.handler /\ k.ok = old.ok
  BY <1>1, <1>2 DEF CallRecord
<1>4. RecordInv(c, k)
  BY <1>1, <1>3 DEF RecordInv
<1>5. call' = [call EXCEPT ![c] = k]
  BY <1>1, <1>2 DEF At
<1> QED BY <1>3, <1>4, <1>5, Moved

\* Each step of a call preserves the invariant.
LEMMA CallStepInv ==
  ASSUME Inv, NEW c \in Request, CallStep(c)
  PROVE  Inv'
<1>0. PICK old \in CallRecord : old = call[c] /\ RecordInv(c, old)
  BY DEF Inv, TypeOK, CallInv
<1>1. CASE callDone(c) BY <1>1, MovedTo DEF callDone
<1>2. CASE serve(c) BY <1>2, MovedTo DEF serve
<1>3. CASE ReadEndnameInfo(c)
  <2>1. PICK inst : inst = servers[Target[old.end]]
    OBVIOUS
  <2>2. inst \in 0 .. MaxInstances /\ inst <= made[Target[old.end]]
    BY <1>0, <2>1, NetworkAssumption DEF CallRecord, Inv, TypeOK
  <2>3. PICK at \in {"delay", "reply"} :
          /\ call' = [call EXCEPT ![c].server = inst, ![c].reliable = reliable, ![c].at = at]
          /\ at = "delay" => inst # 0
    BY <1>0, <1>3, <2>1 DEF ReadEndnameInfo
  <2>4. UNCHANGED <<network, serving, tester>> /\ old.at = "process"
    BY <1>0, <1>3 DEF ReadEndnameInfo
  <2>5. PICK k : k = [old EXCEPT !.server = inst, !.reliable = reliable, !.at = at]
    OBVIOUS
  <2>6. /\ k.at = at /\ k.end = old.end /\ k.server = inst
        /\ k.handler = old.handler /\ k.ok = old.ok
    BY <1>0, <2>5 DEF CallRecord
  <2>7. k \in CallRecord
    BY <1>0, <2>2, <2>5 DEF CallRecord, Inv, TypeOK
  <2>8. RecordInv(c, k)
    BY <1>0, <2>2, <2>3, <2>4, <2>6 DEF RecordInv
  <2>9. call' = [call EXCEPT ![c] = k]
    BY <1>0, <2>3, <2>5
  <2> QED BY <2>4, <2>7, <2>8, <2>9, Moved
<1>4. CASE dropRequest(c) BY <1>4, MovedTo DEF dropRequest
<1>5. CASE dispatch(c)
  <2>1. UNCHANGED <<network, serving, tester>> /\ old.at = "delay"
    BY <1>0, <1>5 DEF dispatch
  <2>2. PICK k : k = [old EXCEPT !.at = "wait", !.handler = "running"]
    OBVIOUS
  <2>3. /\ k \in CallRecord /\ k.at = "wait" /\ k.end = old.end /\ k.server = old.server
        /\ k.handler = "running" /\ k.ok = old.ok
    BY <1>0, <2>2 DEF CallRecord
  <2>4. RecordInv(c, k)
    BY <1>0, <2>1, <2>3 DEF RecordInv
  <2>5. call' = [call EXCEPT ![c] = k]
    BY <1>0, <1>5, <2>2 DEF dispatch
  <2> QED BY <2>1, <2>3, <2>4, <2>5, Moved
<1>6. CASE replyComes(c) BY <1>6, MovedTo DEF replyComes
<1>7. CASE poll(c) BY <1>7, MovedTo DEF poll
<1>8. CASE finish(c)
  <2>1. PICK ok \in BOOLEAN :
          /\ call' = [call EXCEPT ![c].at = "reply", ![c].ok = ok]
          /\ ok => old.at = "answered" /\ ~ IsServerDead(c)
    BY <1>0, <1>8 DEF finish
  <2>2. UNCHANGED <<network, serving, tester>> /\ old.at \in {"answered", "gone"}
    BY <1>0, <1>8 DEF finish
  <2>3. ok => c \in saved[Target[old.end]] /\ old.handler = "ended"
    BY <1>0, <2>1 DEF IsServerDead, RecordInv
  <2>4. PICK k : k = [old EXCEPT !.at = "reply", !.ok = ok]
    OBVIOUS
  <2>5. k.at = "reply" /\ k.end = old.end /\ k.server = old.server /\ k.handler = old.handler
    BY <1>0, <2>4 DEF CallRecord
  <2>6. k \in CallRecord /\ k.ok = ok
    BY <1>0, <2>1, <2>4 DEF CallRecord
  <2>7. RecordInv(c, k)
    BY <1>0, <2>2, <2>3, <2>5, <2>6 DEF RecordInv
  <2>8. call' = [call EXCEPT ![c] = k]
    BY <1>0, <2>1, <2>4
  <2> QED BY <2>2, <2>6, <2>7, <2>8, Moved
<1>9. CASE deliver(c) BY <1>9, MovedTo DEF deliver
<1> QED BY <1>1, <1>2, <1>3, <1>4, <1>5, <1>6, <1>7, <1>8, <1>9 DEF CallStep

\* So do the handlers, new calls and the goroutine that serves them.
LEMMA HandlerInv ==
  ASSUME Inv,
         \/ serveDone
         \/ \E c \in Request : execute(c) \/ \E e \in End : Call(c, e)
  PROVE  Inv'
<1> USE NetworkAssumption DEF Inv, TypeOK, CallRecord, CallInv, RecordInv, network, tester
<1>1. CASE serveDone BY <1>1 DEF serveDone
<1>2. ASSUME NEW c \in Request, execute(c) PROVE Inv'
  <2> DEFINE s == Target[call[c].end]
  <2>1. saved' \in [Server -> SUBSET Request]
    BY <1>2 DEF execute
  <2>2. /\ \A t \in Server : saved[t] \subseteq saved'[t]
        /\ owner[s] = call[c].server => c \in saved'[s]
    BY <1>2 DEF execute
  <2>3. /\ call' = [call EXCEPT ![c].handler = "ended"]
        /\ UNCHANGED <<network, serving, made, owner>>
        /\ call[c].handler = "running"
    BY <1>2 DEF execute
  <2>4. TypeOK'
    BY <2>1, <2>3
  <2>5. ASSUME NEW d \in Request PROVE CallInv(d)'
    BY <2>2, <2>3
  <2> QED BY <2>4, <2>5
<1> HIDE DEF Inv, TypeOK, CallRecord, CallInv, RecordInv, network, tester
<1>3. ASSUME NEW c \in Request, NEW e \in End, Call(c, e) PROVE Inv'
  <2>1. PICK old \in CallRecord : old = call[c] /\ RecordInv(c, old) /\ old.at = "idle"
    BY <1>3 DEF Inv, TypeOK, CallInv, Call
  <2>2. PICK k : k = [old EXCEPT !.at = "sent", !.end = e]
    OBVIOUS
  <2>3. /\ k \in CallRecord /\ k.at = "sent" /\ k.end = e /\ k.server = old.server
        /\ k.handler = old.handler /\ k.ok = old.ok
    BY <2>1, <2>2 DEF CallRecord
  <2>4. made[Target[e]] \in Nat
    BY NetworkAssumption DEF Inv, TypeOK
  <2>5. RecordInv(c, k)
    BY <2>1, <2>3, <2>4 DEF RecordInv
  <2>6. call' = [call EXCEPT ![c] = k] /\ UNCHANGED <<network, serving, tester>>
    BY <1>3, <2>1, <2>2 DEF Call
  <2> QED BY <2>3, <2>5, <2>6, Moved
<1> QED BY <1>1, <1>2, <1>3

\* So does whatever the tester does.
LEMMA TesterInv ==
  ASSUME Inv, TesterStep
  PROVE  Inv'
<1> USE NetworkAssumption DEF Inv, TypeOK, CallRecord, CallInv, RecordInv, network, tester
<1>1. ASSUME NEW e \in End, NEW yes \in BOOLEAN, Enable(e, yes) PROVE Inv'
  BY <1>1 DEF Enable
<1>2. ASSUME NEW yes \in BOOLEAN, Reliable(yes) PROVE Inv'
  BY <1>2 DEF Reliable
<1>3. CASE Cleanup BY <1>3 DEF Cleanup
<1>4. ASSUME NEW s \in Server, DeleteServer(s) PROVE Inv'
  <2>1. TypeOK'
    BY <1>4 DEF DeleteServer
  <2>2. ASSUME NEW d \in Request PROVE CallInv(d)'
    BY <1>4 DEF DeleteServer
  <2> QED BY <2>1, <2>2
<1>5. ASSUME NEW s \in Server, supersede(s) PROVE Inv'
  <2>1. TypeOK'
    BY <1>5 DEF supersede
  <2>2. ASSUME NEW d \in Request PROVE CallInv(d)'
    BY <1>5 DEF supersede
  <2> QED BY <2>1, <2>2
<1>6. ASSUME NEW s \in Server, AddServer(s) PROVE Inv'
  <2>1. TypeOK'
    BY <1>6 DEF AddServer
  <2>2. ASSUME NEW d \in Request PROVE CallInv(d)'
    BY <1>6 DEF AddServer
  <2> QED BY <2>1, <2>2
<1> HIDE DEF Inv, TypeOK, CallRecord, CallInv, RecordInv, network, tester
<1> QED BY <1>1, <1>2, <1>3, <1>4, <1>5, <1>6 DEF TesterStep

\* The invariant holds in every state of labrpc.
LEMMA Invariant == Spec => []Inv
<1>1. Inv /\ [Next]_vars => Inv'
  <2> SUFFICES ASSUME Inv, [Next]_vars PROVE Inv'
    OBVIOUS
  <2>1. CASE UNCHANGED vars
    BY <2>1 DEF vars, Inv, TypeOK, CallInv, RecordInv
  <2>2. CASE Next
    BY <2>2, CallStepInv, HandlerInv, TesterInv DEF Next
  <2> QED BY <2>1, <2>2
<1> QED BY InitInv, <1>1, PTL DEF Spec

\* The Server object under a name always writes the current Persister.
THEOREM TypeCorrect == Spec => []TypeOK
<1>1. Inv => TypeOK
  BY DEF Inv
<1> QED BY <1>1, Invariant, PTL

\* "a client gets a positive reply to an Append, but the server persisted the
\* update into the old Persister" (labrpc.go:255-257) never happens, for any
\* calls, ends, servers and number of restarts.
THEOREM RepliesDurable == Spec => []PositiveReplyIsDurable
<1>1. Inv => PositiveReplyIsDurable
  BY DEF Inv, CallInv, RecordInv, PositiveReplyIsDurable
<1> QED BY <1>1, Invariant, PTL

Executed == {c \in Request : call[c].handler = "ended"}
Outcomes == [c \in Request |-> Outcome(call[c])]

\* A step that changes neither the handler nor what the caller sees of any
\* call is none for RpcPromise.
LEMMA Invisible ==
  ASSUME Inv, NEW c \in Request, NEW k \in CallRecord,
         call' = [call EXCEPT ![c] = k],
         k.handler = "ended" <=> call[c].handler = "ended"
  PROVE  /\ Executed' = Executed
         /\ Outcomes' = [Outcomes EXCEPT ![c] = Outcome(k)]
  BY DEF Inv, TypeOK, Executed, Outcomes

\* Calls under way.
LEMMA Pending ==
  ASSUME Inv, NEW c \in Request,
         \/ serve(c) \/ ReadEndnameInfo(c) \/ dropRequest(c) \/ dispatch(c)
         \/ replyComes(c) \/ poll(c) \/ finish(c)
  PROVE  UNCHANGED <<Executed, Outcomes>>
<1> DEFINE k == call'[c]
<1>1. Inv' /\ call' = [call EXCEPT ![c] = k]
  <2>1. Inv'
    BY CallStepInv DEF CallStep
  <2>2. call' = [call EXCEPT ![c] = k]
    BY DEF serve, ReadEndnameInfo, dropRequest, dispatch, replyComes, poll, finish, At, Inv, TypeOK
  <2> QED BY <2>1, <2>2
<1>2. k \in CallRecord
  BY <1>1 DEF Inv, TypeOK
<1> DEFINE Goal == /\ k.handler = "ended" <=> call[c].handler = "ended"
                   /\ call[c].at \notin {"idle", "returned"} /\ k.at \notin {"idle", "returned"}
<1>3. Goal
  <2> USE DEF Inv, TypeOK, CallRecord
  <2>1. CASE serve(c) BY <2>1 DEF serve, At
  <2>2. CASE ReadEndnameInfo(c) BY <2>2 DEF ReadEndnameInfo
  <2>3. CASE dropRequest(c) BY <2>3 DEF dropRequest, At
  <2>4. CASE dispatch(c) BY <2>4 DEF dispatch, CallInv, RecordInv
  <2>5. CASE replyComes(c) BY <2>5 DEF replyComes, At
  <2>6. CASE poll(c) BY <2>6 DEF poll, At
  <2>7. CASE finish(c)
    <3>1. PICK ok \in BOOLEAN : call' = [call EXCEPT ![c].at = "reply", ![c].ok = ok]
      BY <2>7 DEF finish
    <3>2. call[c].at \in {"answered", "gone"}
      BY <2>7 DEF finish
    <3> QED BY <3>1, <3>2
  <2> QED BY <2>1, <2>2, <2>3, <2>4, <2>5, <2>6, <2>7
<1>4. call[c].at \notin {"idle", "returned"} /\ k.at \notin {"idle", "returned"}
  BY <1>3
<1>5. Outcome(k) = Outcome(call[c])
  BY <1>4 DEF Outcome
<1>6. /\ Executed' = Executed
      /\ Outcomes' = [Outcomes EXCEPT ![c] = Outcome(k)]
  <2>1. PICK j \in CallRecord : j = k
    BY <1>2
  <2> HIDE DEF k
  <2> QED BY <1>1, <1>3, <2>1, Invisible
<1> HIDE DEF k
<1>7. Outcomes[c] = Outcome(call[c]) /\ Outcomes = [d \in Request |-> Outcomes[d]]
  BY DEF Outcomes
<1> QED BY <1>5, <1>6, <1>7

\* A call that returns, with the result that its reply had.
LEMMA Returned ==
  ASSUME Inv, NEW c \in Request, call[c].at \in {"sent", "reply"},
         call' = [call EXCEPT ![c].at = "returned"]
  PROVE  /\ Executed' = Executed
         /\ Outcomes[c] = "pending"
         /\ \/ call[c].ok /\ Outcomes' = [Outcomes EXCEPT ![c] = "true"] /\ c \in Executed
            \/ ~ call[c].ok /\ Outcomes' = [Outcomes EXCEPT ![c] = "false"]
<1>1. PICK k \in CallRecord : k = [call[c] EXCEPT !.at = "returned"]
  BY DEF Inv, TypeOK, CallRecord
<1>2. call' = [call EXCEPT ![c] = k]
  BY <1>1
<1>3. k.handler = call[c].handler /\ k.at = "returned" /\ k.ok = call[c].ok
  BY <1>1 DEF Inv, TypeOK, CallRecord
<1>4. /\ Executed' = Executed
      /\ Outcomes' = [Outcomes EXCEPT ![c] = Outcome(k)]
  <2>1. k.handler = "ended" <=> call[c].handler = "ended"
    BY <1>3
  <2> QED BY <1>2, <2>1, Invisible
<1>5. Outcomes[c] = "pending"
  BY DEF Outcomes, Outcome
<1>6. call[c].ok => c \in Executed
  BY DEF Inv, CallInv, RecordInv, Executed
<1>7. CASE call[c].ok
  <2>1. Outcome(k) = "true" BY <1>3, <1>7 DEF Outcome
  <2> QED BY <2>1, <1>4, <1>5, <1>6, <1>7
<1>8. CASE ~ call[c].ok
  <2>1. Outcome(k) = "false" BY <1>3, <1>8 DEF Outcome
  <2> QED BY <2>1, <1>4, <1>5, <1>8
<1> QED BY <1>7, <1>8

\* Every step of labrpc is a step of RpcPromise or leaves it alone.
LEMMA PromiseStep ==
  ASSUME Inv, Next
  PROVE  [P!Next]_<<Executed, Outcomes>>
<1> USE DEF Executed, Outcomes
<1>1. ASSUME NEW c \in Request, NEW e \in End, Call(c, e)
      PROVE  P!Begin(c)
  BY <1>1 DEF Call, P!Begin, Outcome, Inv, TypeOK, CallRecord
<1>2. ASSUME NEW c \in Request, execute(c)
      PROVE  P!Execute(c)
  BY <1>2 DEF execute, P!Execute, Outcome, Inv, TypeOK, CallRecord, CallInv, RecordInv
<1>3. ASSUME NEW c \in Request, callDone(c)
      PROVE  P!Return(c, FALSE)
  BY <1>3, Returned DEF callDone, At, P!Return, Inv, CallInv, RecordInv
<1>4. ASSUME NEW c \in Request, deliver(c)
      PROVE  P!Return(c, TRUE) \/ P!Return(c, FALSE)
  BY <1>4, Returned DEF deliver, At, P!Return, Inv, CallInv, RecordInv
<1>5. ASSUME NEW c \in Request,
             \/ serve(c) \/ ReadEndnameInfo(c) \/ dropRequest(c) \/ dispatch(c)
             \/ replyComes(c) \/ poll(c) \/ finish(c)
      PROVE  UNCHANGED <<Executed, Outcomes>>
  BY <1>5, Pending
<1>6. ASSUME serveDone \/ TesterStep
      PROVE  UNCHANGED <<Executed, Outcomes>>
  BY <1>6 DEF serveDone, TesterStep, Enable, Reliable, Cleanup, DeleteServer, supersede, AddServer
<1> QED BY <1>1, <1>2, <1>3, <1>4, <1>5, <1>6 DEF Next, CallStep, P!Next

\* For any calls, ends, servers and restarts, a handler runs at most once for a
\* Call, and Call returns true only if it has run (labrpc.go:29-32).
THEOREM CallKeepsPromise == Spec => KeepsPromise
<1>1. Init => P!Init
  BY DEF Init, P!Init, NoCall, Outcome
<1>2. Inv /\ [Next]_vars => [P!Next]_<<Executed, Outcomes>>
  <2>1. Inv /\ UNCHANGED vars => UNCHANGED <<Executed, Outcomes>>
    BY DEF vars, Executed, Outcomes
  <2> QED BY <2>1, PromiseStep
<1> QED BY <1>1, <1>2, Invariant, PTL DEF Spec, KeepsPromise, P!Spec, Executed, Outcomes
=============================================================================
