------------------------------ MODULE NodeCache ------------------------------
(***************************************************************************)
(* The content-addressed result cache (packages/cache, cache_handler.go)   *)
(* and the worker's use of it around a node (internal/worker: execute):    *)
(* look up before running, replay a hit, store a miss after the control    *)
(* plane accepted the result.  A fingerprint stands for the key it hashes. *)
(***************************************************************************)
EXTENDS Naturals, FiniteSets

CONSTANTS
    CWorker,     \* workers
    CNode,       \* nodes with caching on: run, env, sha, image, inputs (key_inputs), local (scope), secret
    MaxExecs,    \* bound: nodes started
    NoEntry, Idle_

VARIABLES
    cacheOf,     \* work_cache: per fingerprint the entry, or NoEntry
    cAt,         \* what each worker is doing
    cReplays,    \* ghost: accepted replays, with the node that ran for them
    cExecs

cacheVars == <<cacheOf, cAt, cReplays, cExecs>>

KeyFields == {"run", "env", "sha"}

\* Without key_inputs every field takes part in the key.
Allowed(n) == IF n.inputs = {} THEN KeyFields ELSE n.inputs \cap KeyFields

\* A field that is left out is the empty one; the scope is a word, not a worker.
KeyFromNode(n) ==
    [run |-> IF "run" \in Allowed(n) THEN n.run ELSE "",
     env |-> IF "env" \in Allowed(n) THEN n.env ELSE "",
     sha |-> IF "sha" \in Allowed(n) THEN n.sha ELSE "",
     scope |-> IF n.local THEN "worker" ELSE "organization"]

\* The worker forgets the key of a node with secret references in its environment.
UsesCache(n) == ~n.secret

Keys == {KeyFromNode(n) : n \in CNode}

\* An entry of the cache, and what a worker does with a node.
CacheEntry == [node : CNode, worker : CWorker, accepted : BOOLEAN]
Execution ==
    [at : {"look", "run", "complete", "put"}, node : CNode, hit : BOOLEAN, ok : BOOLEAN, ran : CNode,
     by : CWorker \cup {"nobody"}]

ASSUME CacheAssumption == NoEntry \notin CacheEntry /\ Idle_ \notin Execution /\ MaxExecs \in Nat

Doing(at, n) == [at |-> at, node |-> n, hit |-> FALSE, ok |-> FALSE, ran |-> n, by |-> "nobody"]

CacheInit ==
    /\ cacheOf = [k \in Keys |-> NoEntry]
    /\ cAt = [w \in CWorker |-> Idle_]
    /\ cReplays = {} /\ cExecs = 0

Busy(w, at) == cAt[w] # Idle_ /\ cAt[w].at = at
GoesTo(w, doing) == cAt' = [cAt EXCEPT ![w] = doing]

\* A lease was granted.
Take(w, n) ==
    /\ cAt[w] = Idle_ /\ cExecs < MaxExecs
    /\ cExecs' = cExecs + 1
    /\ GoesTo(w, Doing(IF UsesCache(n) THEN "look" ELSE "run", n))
    /\ UNCHANGED <<cacheOf, cReplays>>

\* cacheGet answers with the entry; a miss or a failed call falls through to the run.
CacheLookup(w, answered) ==
    LET do == cAt[w]
        e == cacheOf[KeyFromNode(do.node)]
    IN  /\ Busy(w, "look")
        /\ IF answered /\ e # NoEntry
           THEN GoesTo(w, [do EXCEPT !.at = "complete", !.hit = TRUE, !.ok = TRUE, !.ran = e.node, !.by = e.worker])
           ELSE GoesTo(w, [do EXCEPT !.at = "run"])
        /\ UNCHANGED <<cacheOf, cReplays, cExecs>>

RunNode(w, ok) ==
    /\ Busy(w, "run")
    /\ GoesTo(w, [cAt[w] EXCEPT !.at = "complete", !.ok = ok, !.by = w])
    /\ UNCHANGED <<cacheOf, cReplays, cExecs>>

\* Only a run of this worker that succeeded and was accepted is stored; a replay is not stored again.
PutsAfter(do, accepted) == accepted /\ ~do.hit /\ do.ok /\ UsesCache(do.node)

\* The completion is refused when the lease is gone; the worker releases it and moves on.
CompleteLease(w, accepted) ==
    LET do == cAt[w]
    IN  /\ Busy(w, "complete")
        /\ IF PutsAfter(do, accepted) THEN GoesTo(w, [do EXCEPT !.at = "put", !.ok = accepted]) ELSE GoesTo(w, Idle_)
        /\ cReplays' = IF accepted /\ do.hit
                       THEN cReplays \cup {[node |-> do.node, ran |-> do.ran, on |-> w, by |-> do.by]} ELSE cReplays
        /\ UNCHANGED <<cacheOf, cExecs>>

\* Faulty variant of Insert: the last entry stays.
InsertOrUpdate(k, e) == [cacheOf EXCEPT ![k] = e]

\* ON CONFLICT DO NOTHING: the first entry stays.
Insert(k, e) == [cacheOf EXCEPT ![k] = IF @ = NoEntry THEN e ELSE @]

\* CachePut; a call that fails is logged and forgotten.
CachePut(w, delivered) ==
    LET do == cAt[w]
    IN  /\ Busy(w, "put")
        /\ cacheOf' = IF delivered THEN Insert(KeyFromNode(do.node), [node |-> do.node, worker |-> w, accepted |-> do.ok])
                      ELSE cacheOf
        /\ GoesTo(w, Idle_)
        /\ UNCHANGED <<cReplays, cExecs>>

CacheNext ==
    \E w \in CWorker :
        \/ \E n \in CNode : Take(w, n)
        \/ \E yes \in BOOLEAN : CacheLookup(w, yes) \/ RunNode(w, yes) \/ CompleteLease(w, yes) \/ CachePut(w, yes)

CacheSpec == CacheInit /\ [][CacheNext]_cacheVars

-----------------------------------------------------------------------------
(* What a hit is worth. *)

Entries == {cacheOf[k] : k \in Keys} \ {NoEntry}

\* The value a node's key is made with: a field its key_inputs leave out counts as empty.
KeyValue(n, f) == IF n.inputs = {} \/ f \in n.inputs THEN n[f] ELSE ""

\* All replays of a key show one run, the one the cache still records for it, whichever workers raced to
\* store theirs; and that run's node agrees with the replaying one on every field of the key, a field
\* left out of key_inputs counting as empty.  No more than that: a node without key_inputs whose
\* environment is empty is answered with the run of a node that left its environment out.
ReplayIsTheKeysRun ==
    \A r \in cReplays :
        LET e == cacheOf[KeyFromNode(r.node)]
        IN  /\ e # NoEntry /\ e.node = r.ran /\ e.worker = r.by
            /\ \A f \in KeyFields : KeyValue(r.node, f) = KeyValue(r.ran, f)

\* Whatever is in the cache was accepted by the control plane before it was stored: a worker that lost its
\* lease while running leaves nothing for others to replay.
CachedIsAccepted == \A e \in Entries : e.accepted

\* Nodes whose environment refers to secrets neither leave entries nor are answered from them.
SecretsAreNotCached ==
    /\ \A e \in Entries : ~e.node.secret
    /\ \A r \in cReplays : ~r.node.secret

\* The first result under a fingerprint stays, whichever workers race to store theirs.
EntryIsStable == [][\A k \in Keys : cacheOf[k] # NoEntry => cacheOf'[k] = cacheOf[k]]_cacheVars

=============================================================================
