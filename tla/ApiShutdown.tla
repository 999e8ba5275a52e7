---------------------------- MODULE ApiShutdown ----------------------------
(***************************************************************************)
(* How works-api stops (cmd/works-api/main.go): two HTTP servers are shut  *)
(* down one after the other within one deadline, the goroutines that       *)
(* publish a terminal Work to GitHub are drained                           *)
(* (services/api/publisher_hook.go, publisher_lifecycle.go), and the       *)
(* artifact directory that handlers read from is closed                    *)
(* (services/api/artifact_transfer.go).  Handlers run all the while, and   *)
(* none of them need ever finish.                                          *)
(***************************************************************************)
CONSTANTS Conn  \* connections, each carrying one request

Listener == {"http", "mtls"}

VARIABLES listening,   \* the servers that still accept requests
          conn,        \* what the handler of each connection is doing
          publishing,  \* the connections whose publish goroutine is in flight
          draining,    \* publisherShutdown
          artifacts,   \* artifactRoot is open
          stage,       \* how far the shutdown goroutine of main is
          drained      \* shutdownErr = nil so far

shutdownVars == <<listening, conn, publishing, draining, artifacts, stage, drained>>

Stage == {"up", "http", "mtls", "gate", "wait", "close", "stopped"}

HandlerStage == {"idle", "serving", "terminal", "add", "done"}

\* The connections of server l with a handler running: what Shutdown waits for.
Busy(l) == {c \in Conn : conn[c].on = l /\ conn[c].pc \in {"serving", "terminal", "add"}}

ShutdownInit ==
    /\ listening = Listener
    /\ conn = [c \in Conn |-> [pc |-> "idle", on |-> "http"]]
    /\ publishing = {}
    /\ draining = FALSE
    /\ artifacts = TRUE
    /\ stage = "up"
    /\ drained = TRUE

-----------------------------------------------------------------------------
HandlerGoto(c, pc) == conn' = [conn EXCEPT ![c].pc = pc]

Accept(c, l) ==
    /\ conn[c].pc = "idle" /\ l \in listening
    /\ conn' = [conn EXCEPT ![c] = [pc |-> "serving", on |-> l]]
    /\ UNCHANGED <<listening, publishing, draining, artifacts, stage, drained>>

\* A handler answers, or completeLease has a terminal Work to publish.
Serve(c) ==
    /\ conn[c].pc = "serving" /\ stage # "stopped"
    /\ HandlerGoto(c, "done") \/ HandlerGoto(c, "terminal")
    /\ UNCHANGED <<listening, publishing, draining, artifacts, stage, drained>>

\* maybePublishOnTerminal up to its check of publisherShutdownGuard.
CheckGate(c) ==
    /\ conn[c].pc = "terminal" /\ stage # "stopped"
    /\ HandlerGoto(c, IF draining THEN "done" ELSE "add")
    /\ UNCHANGED <<listening, publishing, draining, artifacts, stage, drained>>

\* publisherWG.Add(1) and the go statement.
AddPublish(c) ==
    /\ conn[c].pc = "add" /\ stage # "stopped"
    /\ publishing' = publishing \cup {c}
    /\ HandlerGoto(c, "done")
    /\ UNCHANGED <<listening, draining, artifacts, stage, drained>>

\* Publish returns or hits its own timeout, and the goroutine is Done.
PublishDone(c) ==
    /\ c \in publishing /\ stage # "stopped"
    /\ publishing' = publishing \ {c}
    /\ UNCHANGED <<listening, conn, draining, artifacts, stage, drained>>

\* SIGINT, SIGTERM or a failed mTLS listener.
Signal ==
    /\ stage = "up"
    /\ stage' = "http"
    /\ listening' = listening \ {"http"}
    /\ UNCHANGED <<conn, publishing, draining, artifacts, drained>>

\* Faulty variant of ShutdownServer: Shutdown has no deadline.
ShutdownServerUnbounded(l, next) ==
    /\ stage = l /\ Busy(l) = {}
    /\ listening' = listening \ Listener
    /\ stage' = next
    /\ UNCHANGED <<conn, publishing, draining, artifacts, drained>>

\* Shutdown of server l returns: its connections are idle, or shutdownCtx is over.
\* The next server's Shutdown closes its listener.
ShutdownServer(l, next) ==
    /\ stage = l
    /\ (Busy(l) = {} /\ UNCHANGED drained) \/ drained' = FALSE
    /\ listening' = listening \ Listener
    /\ stage' = next
    /\ UNCHANGED <<conn, publishing, draining, artifacts>>

\* WaitPublisher sets the gate ...
CloseGate ==
    /\ stage = "gate"
    /\ draining' = TRUE
    /\ stage' = "wait"
    /\ UNCHANGED <<listening, conn, publishing, artifacts, drained>>

\* ... and waits for the goroutines, or for drainCtx.
WaitPublisher ==
    /\ stage = "wait"
    /\ stage' = "close"
    /\ UNCHANGED <<listening, conn, publishing, draining, artifacts, drained>>

\* Faulty variant of CloseArtifactRoot: closed whether or not the handlers are gone.
CloseArtifactRootAlways ==
    /\ stage = "close"
    /\ artifacts' = FALSE
    /\ stage' = "stopped"
    /\ UNCHANGED <<listening, conn, publishing, draining, drained>>

\* CloseArtifactRoot only after a clean drain; then main returns.
CloseArtifactRoot ==
    /\ stage = "close"
    /\ artifacts' = (artifacts /\ ~drained)
    /\ stage' = "stopped"
    /\ UNCHANGED <<listening, conn, publishing, draining, drained>>

ShutdownStep ==
    \/ ShutdownServer("http", "mtls") \/ ShutdownServer("mtls", "gate")
    \/ CloseGate \/ WaitPublisher \/ CloseArtifactRoot

ShutdownNext ==
    \/ \E c \in Conn, l \in Listener : Accept(c, l)
    \/ \E c \in Conn : Serve(c) \/ CheckGate(c) \/ AddPublish(c) \/ PublishDone(c)
    \/ Signal
    \/ ShutdownStep

ShutdownSpec == ShutdownInit /\ [][ShutdownNext]_shutdownVars /\ WF_shutdownVars(ShutdownStep)

-----------------------------------------------------------------------------
\* Type correctness of the handlers, the gate and the shutdown goroutine.
ShutdownTypeOK ==
    /\ listening \subseteq Listener
    /\ conn \in [Conn -> [pc : HandlerStage, on : Listener]]
    /\ publishing \subseteq Conn
    /\ draining \in BOOLEAN /\ artifacts \in BOOLEAN /\ drained \in BOOLEAN
    /\ stage \in Stage

\* No handler is running once the artifact directory is closed: a request that
\* outlives the shutdown deadline keeps its root (main, CloseArtifactRoot).
ClosedAfterLastHandler == ~artifacts => Busy("http") \cup Busy("mtls") = {}

\* After a clean drain nothing is added to the WaitGroup that WaitPublisher waits for
\* (main calls it "after the HTTP server has stopped accepting new state
\* transitions").
NoAddAfterCleanDrain ==
    drained /\ stage \in {"wait", "close", "stopped"} => \A c \in Conn : conn[c].pc # "add"

\* A signal ends the process, whatever handlers and GitHub calls hang
\* (the two deadlines of main).
SignalEndsProcess == (stage = "http") ~> (stage = "stopped")

=============================================================================
