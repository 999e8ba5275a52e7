------------------------------ MODULE MCRecords ------------------------------
(***************************************************************************)
(* Small instances of EventJournal, LinkDevices and ApiShutdown.  They     *)
(* share no variable, so each is explored on its own: scene says which.    *)
(***************************************************************************)
EXTENDS EventJournal, LinkDevices, ApiShutdown, TLC

VARIABLE scene

mcVars == <<journalVars, linkVars, shutdownVars, scene>>

\* A device asks to read, or to read and act.
AskedScopes == {{"T1_read"}, {"T1_read", "T2_action"}}

MCInit ==
    /\ JournalInit /\ LinkInit /\ ShutdownInit
    /\ scene \in {"journal", "page", "link", "shutdown"}
    /\ scene # "link" => tokens = {} /\ mounts = <<>>

JournalScene == scene = "journal" /\ JournalNext({"record"}) /\ UNCHANGED <<linkVars, shutdownVars, scene>>

PageScene == scene = "page" /\ PageNext({1, 2}) /\ UNCHANGED <<linkVars, shutdownVars, scene>>

LinkScene == scene = "link" /\ LinkNext /\ UNCHANGED <<journalVars, shutdownVars, scene>>

ShutdownScene == scene = "shutdown" /\ ShutdownNext /\ UNCHANGED <<journalVars, linkVars, scene>>

MCNext == JournalScene \/ PageScene \/ LinkScene \/ ShutdownScene

\* The stream polls and its client reconnects, and the process that was signalled goes on.
MCFairness ==
    /\ WF_mcVars(ShutdownScene /\ ShutdownStep)
    /\ \A r \in Reader :
        /\ WF_mcVars(scene = "journal" /\ Poll(r) /\ UNCHANGED <<linkVars, shutdownVars, scene>>)
        /\ WF_mcVars(scene = "journal" /\ Connect(r) /\ UNCHANGED <<linkVars, shutdownVars, scene>>)

MCSpec == MCInit /\ [][MCNext]_mcVars /\ MCFairness

=============================================================================
