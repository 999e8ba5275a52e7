--------------------------- MODULE RunnerEnrollment ---------------------------
(***************************************************************************)
(* How a worker stays known to the API: enrollment tokens signed with a    *)
(* key of the API process (services/api/auth.go, enroll.go), the client    *)
(* that renews its token once per refused request and the single loop that *)
(* registers the runner again as its heartbeat (internal/worker).  The     *)
(* runner registry and the key live in the API's memory.  Time is counted  *)
(* in heartbeat intervals and kept as ages.                                *)
(***************************************************************************)
EXTENDS Naturals

CONSTANTS
    EWorker,       \* worker processes
    Credential,    \* [EWorker -> {"secret", "wrong", "cert", "none"}]
    TokenTTL,      \* age at which a token has expired
    StaleAge,      \* age at which a heartbeat no longer counts (three intervals)
    MaxRestarts,   \* bound: restarts of the API
    MaxLost,       \* bound: requests the network loses
    NoToken

ASSUME EnrollmentAssumption == /\ TokenTTL \in Nat \ {0} /\ StaleAge \in Nat \ {0}
                               /\ MaxRestarts \in Nat /\ MaxLost \in Nat

VARIABLES
    eMode,      \* how the API enrolls: by secret, by client certificate, or not at all
    apiKey,     \* the signing key of the running API process
    beatAge,    \* the registry: per worker the age of its heartbeat, Never when it is not registered
    wToken,     \* Client.Token: the key it was signed with and its age
    wAt,        \* where the worker's loop stands
    eLost

enrollVars == <<eMode, apiKey, beatAge, wToken, wAt, eLost>>

Never == StaleAge + 1

EnrollInit ==
    /\ eMode \in {"secret", "mtls", "disabled"}
    /\ apiKey = 0 /\ eLost = 0
    /\ beatAge = [w \in EWorker |-> Never]
    /\ wToken = [w \in EWorker |-> NoToken]
    /\ wAt = [w \in EWorker |-> "select"]

\* The token carries this process's signature and has not expired.
Verify(token) == token # NoToken /\ token.key = apiKey /\ token.age < TokenTTL

\* enrollHandler: the certificate names the worker, or the challenge is the secret.
EnrollAccepts(w) ==
    \/ eMode = "mtls" /\ Credential[w] = "cert"
    \/ eMode = "secret" /\ Credential[w] = "secret"

\* Faulty variant of Mint: the issuer still signs with the first process's key.
MintWithOldKey == [key |-> 0, age |-> 0]

\* Mint clamps the time to live; the age of a token counts from here.
Mint == [key |-> apiKey, age |-> 0]

At(w, here, there) == wAt[w] = here /\ wAt' = [wAt EXCEPT ![w] = there]

\* The heartbeat ticker fires in the worker's select: the registration goes out.
Beat(w) == At(w, "select", "sent") /\ UNCHANGED <<eMode, apiKey, beatAge, wToken, eLost>>

\* The poll ticker fires: nodes run in the same loop, which sends no heartbeat meanwhile.
StartNode(w) == At(w, "select", "running") /\ UNCHANGED <<eMode, apiKey, beatAge, wToken, eLost>>
EndNode(w) == At(w, "running", "select") /\ UNCHANGED <<eMode, apiKey, beatAge, wToken, eLost>>

\* requireBearer lets the request through and registerRunner stores a fresh heartbeat.
Registers(w, here) ==
    /\ Verify(wToken[w])
    /\ At(w, here, "select")
    /\ beatAge' = [beatAge EXCEPT ![w] = 0]
    /\ UNCHANGED <<eMode, apiKey, wToken, eLost>>

\* A 401 with something to enroll with: the client renews its token.
Refused(w) ==
    /\ ~Verify(wToken[w])
    /\ At(w, "sent", IF Credential[w] = "none" THEN "select" ELSE "renew")
    /\ UNCHANGED <<eMode, apiKey, beatAge, wToken, eLost>>

\* renewToken: the new token is stored and the request sent again; else the 401 stands.
Renew(w) ==
    /\ At(w, "renew", IF EnrollAccepts(w) THEN "resend" ELSE "select")
    /\ wToken' = IF EnrollAccepts(w) THEN [wToken EXCEPT ![w] = Mint] ELSE wToken
    /\ UNCHANGED <<eMode, apiKey, beatAge, eLost>>

\* The second 401 is the answer; the next heartbeat tries again.
RefusedAgain(w) ==
    /\ ~Verify(wToken[w])
    /\ At(w, "resend", "select")
    /\ UNCHANGED <<eMode, apiKey, beatAge, wToken, eLost>>

\* The network loses a request: a registration fails, a renewal leaves the 401.
Lose(w) ==
    /\ eLost < MaxLost
    /\ eLost' = eLost + 1
    /\ wAt[w] \in {"sent", "renew", "resend"}
    /\ wAt' = [wAt EXCEPT ![w] = "select"]
    /\ UNCHANGED <<eMode, apiKey, beatAge, wToken>>

\* A request takes less than a heartbeat interval.
Interval ==
    /\ \A w \in EWorker : wAt[w] \notin {"sent", "renew", "resend"}
    /\ beatAge' = [w \in EWorker |-> IF beatAge[w] < StaleAge THEN beatAge[w] + 1 ELSE beatAge[w]]
    /\ wToken' = [w \in EWorker |-> IF wToken[w] = NoToken THEN NoToken
                                    ELSE IF wToken[w].age < TokenTTL THEN [wToken[w] EXCEPT !.age = @ + 1]
                                    ELSE wToken[w]]
    /\ UNCHANGED <<eMode, apiKey, wAt, eLost>>

\* The API process restarts: a new key, an empty registry.
Restart ==
    /\ apiKey < MaxRestarts
    /\ apiKey' = apiKey + 1
    /\ beatAge' = [w \in EWorker |-> Never]
    /\ UNCHANGED <<eMode, wToken, wAt, eLost>>

WorkerStep(w) ==
    Registers(w, "sent") \/ Registers(w, "resend") \/ Refused(w) \/ Renew(w) \/ RefusedAgain(w) \/ EndNode(w)

EnrollNext ==
    \/ \E w \in EWorker : Beat(w) \/ StartNode(w) \/ WorkerStep(w) \/ Lose(w)
    \/ Interval \/ Restart

-----------------------------------------------------------------------------
(* What enrollment promises. *)

\* A worker that can enroll is heard again and again, through expired tokens, restarts of the API, lost
\* requests and nodes that keep its loop busy.
BeatingIsHeard ==
    \A w \in EWorker : [](EnrollAccepts(w) => <>(beatAge[w] < StaleAge))

(* Not so (the README discusses it): a worker that runs a node stays live in the registry. *)
=============================================================================
