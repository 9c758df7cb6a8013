----------------------------- MODULE RpcPromise -----------------------------
(***************************************************************************)
(* What a caller of ClientEnd.Call may rely on: the handler runs at most   *)
(* once, and has run when Call returns true.  It may run without the       *)
(* caller knowing, even after Call has returned false.                     *)
(***************************************************************************)
CONSTANT Request
VARIABLES executed,   \* requests whose handler has run
          outcome     \* "none" before Call, then "pending", then what it returned

Init ==
  /\ executed = {}
  /\ outcome = [c \in Request |-> "none"]

Begin(c) ==
  /\ outcome[c] = "none"
  /\ outcome' = [outcome EXCEPT ![c] = "pending"]
  /\ UNCHANGED executed

Execute(c) ==
  /\ outcome[c] # "none"
  /\ c \notin executed
  /\ executed' = executed \cup {c}
  /\ UNCHANGED outcome

Return(c, ok) ==
  /\ outcome[c] = "pending"
  /\ ok => c \in executed
  /\ outcome' = [outcome EXCEPT ![c] = IF ok THEN "true" ELSE "false"]
  /\ UNCHANGED executed

Next ==
  \E c \in Request : Begin(c) \/ Execute(c) \/ \E ok \in BOOLEAN : Return(c, ok)

Spec == Init /\ [][Next]_<<executed, outcome>>
=============================================================================
