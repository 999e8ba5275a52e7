---------------------------- MODULE WorkLifecycle ----------------------------
(***************************************************************************)
(* What the control plane promises about a Work, with no leases, handlers  *)
(* or crashes in sight: its state moves along the edges of the table, a    *)
(* verdict is backed by the results of the nodes, and results are never    *)
(* taken back.  LeaseStore is shown to implement it.                       *)
(***************************************************************************)
EXTENDS WorkGraph

CONSTANTS Work, Node, Mission

VARIABLES state,   \* the state of each Work
          done,    \* the nodes of each Work that have succeeded
          broken   \* the nodes of each Work that have failed

vars == <<state, done, broken>>

Init ==
    /\ state = [w \in Work |-> "CREATED"]
    /\ done = [w \in Work |-> {}]
    /\ broken = [w \in Work |-> {}]

\* A node reports a success ...
Succeed(w, n) ==
    /\ done' = [done EXCEPT ![w] = @ \cup {n}]
    /\ UNCHANGED <<state, broken>>

\* ... or a failure.
Break(w, n) ==
    /\ broken' = [broken EXCEPT ![w] = @ \cup {n}]
    /\ UNCHANGED <<state, done>>

\* The Work moves along an edge of the table.  It is verified and succeeds only
\* when every node has succeeded, and fails only when some node has failed.
Move(w, to) ==
    /\ ValidateTransition(state[w], to, w \in Mission)
    /\ to \in {"VERIFYING", "SUCCEEDED"} => done[w] = Node
    /\ to = "FAILED" => broken[w] # {}
    /\ state' = [state EXCEPT ![w] = to]
    /\ UNCHANGED <<done, broken>>

\* A placement takes a CREATED Work through QUEUED to RUNNING at once.
Place(w) ==
    /\ state[w] = "CREATED"
    /\ state' = [state EXCEPT ![w] = "RUNNING"]
    /\ UNCHANGED <<done, broken>>

\* A device revocation stops any active mission.
Stop(w) ==
    /\ w \in Mission
    /\ state[w] \notin TerminalState \cup MissionOnlyState
    /\ state' = [state EXCEPT ![w] = "SUSPENDED"]
    /\ UNCHANGED <<done, broken>>

Next ==
    \E w \in Work :
        \/ \E n \in Node : Succeed(w, n) \/ Break(w, n)
        \/ \E to \in State : Move(w, to)
        \/ Place(w)
        \/ Stop(w)

Spec == Init /\ [][Next]_vars

=============================================================================
