------------------------------- MODULE Service -------------------------------
(***************************************************************************)
(* What the clients of the server rely on: a request that is called takes  *)
(* effect at one instant, at most once, and its caller is answered with    *)
(* what that instant produced, or loses its connection and is told         *)
(* nothing.  Nothing here knows of sockets, descriptors, connection        *)
(* objects or rounds; Server.tla is shown to implement this module.        *)
(***************************************************************************)
EXTENDS Keyspace

CONSTANTS Caller, Request

VARIABLES
  phase,    \* "idle", "called", "effected", "answered" or "orphan"
  cmd,      \* the request of a caller until it takes effect, or NULL
  answer    \* the answer that is on its way to a caller, or <<>>

vars == <<data, out, phase, cmd, answer>>

Init ==
  /\ DataInit
  /\ phase = [c \in Caller |-> "idle"]
  /\ cmd = [c \in Caller |-> NULL]
  /\ answer = [c \in Caller |-> <<>>]

\* out is the answer of a request only at the instant of its effect.
Quiet == out' = <<>> /\ UNCHANGED data

Call(c, x) ==
  /\ phase[c] = "idle"
  /\ phase' = [phase EXCEPT ![c] = "called"]
  /\ cmd' = [cmd EXCEPT ![c] = x]
  /\ UNCHANGED answer /\ Quiet

\* The request of a caller that is gone may still take effect.
Effect(c) ==
  /\ cmd[c] # NULL /\ do_request(cmd[c])
  /\ cmd' = [cmd EXCEPT ![c] = NULL]
  /\ \/ /\ phase[c] = "called"
        /\ phase' = [phase EXCEPT ![c] = "effected"]
        /\ answer' = [answer EXCEPT ![c] = Fitted(out')]
     \/ /\ phase[c] = "orphan"
        /\ phase' = [phase EXCEPT ![c] = "idle"]
        /\ UNCHANGED answer

Deliver(c) ==
  /\ phase[c] = "effected"
  /\ phase' = [phase EXCEPT ![c] = "answered"]
  /\ UNCHANGED <<cmd, answer>> /\ Quiet

\* The connections of these callers are lost, or they have their answers.
End(S) ==
  /\ phase' = [c \in Caller |-> IF c \in S THEN "idle" ELSE phase[c]]
  /\ cmd' = [c \in Caller |-> IF c \in S THEN NULL ELSE cmd[c]]
  /\ answer' = [c \in Caller |-> IF c \in S THEN <<>> ELSE answer[c]]

\* The caller is gone, its request is not.
Abandon(c) ==
  /\ phase[c] = "called"
  /\ phase' = [phase EXCEPT ![c] = "orphan"]
  /\ UNCHANGED <<cmd, answer>> /\ Quiet

\* A connection may break in the instant of the effect: then it is the
\* effect that is seen, and no answer.
Broken(c) ==
  /\ cmd[c] # NULL /\ do_request(cmd[c])
  /\ \E S \in SUBSET Caller : c \in S /\ End(S)

Next ==
  \/ \E c \in Caller, x \in Request : Call(c, x)
  \/ \E c \in Caller : Effect(c) \/ Deliver(c) \/ Abandon(c) \/ Broken(c)
  \/ \E S \in SUBSET Caller : End(S) /\ Quiet

Spec == Init /\ [][Next]_vars
=============================================================================
