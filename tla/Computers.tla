------------------------------ MODULE Computers ------------------------------
(***************************************************************************)
(* The computer providers (packages/providers): the in-memory reference    *)
(* provider, which reads a computer under its lock and runs the command    *)
(* after letting go of it, and the PULSE adapter, which forwards to a      *)
(* daemon on the same host that has a consent store of its own (external). *)
(* A computer's id hashes the key and the specification's signature, so    *)
(* the two stand for it.                                                   *)
(***************************************************************************)
EXTENDS Naturals, FiniteSets

CONSTANTS
    PSpec,         \* provisioning requests: [key, org, caps, labels]; labels maps names to values, key may be ""
    POrg,          \* tenants that use handles
    MaxProvider,   \* bound: calls begun
    NoSig

VARIABLES
    computers,     \* resources: the computers that are there
    keySpecs,      \* per key the signature it was used with, or NoSig
    negotiated,    \* the capabilities of the last handshake
    execs,         \* calls of Exec: [id, cap, org, at, stale]; at: how far; stale, ghost: looked up after a teardown
    handed,        \* ghost: [spec, id, live] for every answered Provision
    ran,           \* ghost: [id, stale]: the commands begun
    down,          \* ghost: computers torn down so far
    calls,
    pulse          \* the adapter: what its configuration allows, whether it shook hands, and ghost: its last request

referenceVars == <<computers, keySpecs, negotiated, execs, handed, ran, down, calls>>
computersVars == <<referenceVars, pulse>>

Cap == {"fs", "shell", "git", "browser", "snap", "teardown_keep"}

\* Handshake.Validate of capabilities.
ValidCaps(caps) == caps \subseteq Cap

\* Only the names of the labels are in the signature.
Sig(s) == [org |-> s.org, caps |-> s.caps, labels |-> DOMAIN s.labels]
IdOf(s) == [key |-> s.key, sig |-> Sig(s)]

SKeys == {s.key : s \in PSpec}

ASSUME ProviderAssumption == NoSig \notin {Sig(s) : s \in PSpec}

ComputersInit ==
    /\ computers = {} /\ keySpecs = [k \in SKeys |-> NoSig] /\ negotiated = {}
    /\ execs = {} /\ handed = {} /\ ran = {} /\ down = {} /\ calls = 0
    /\ pulse \in [allow : SUBSET {"fs", "browser"}, shook : {FALSE}, wire : {NoSig}]

Counted == calls < MaxProvider /\ calls' = calls + 1 /\ UNCHANGED pulse

Handshake(offer) ==
    /\ ValidCaps(offer) /\ offer # negotiated
    /\ negotiated' = offer
    /\ Counted /\ UNCHANGED <<computers, keySpecs, execs, handed, ran, down>>

\* Whether a request repeats a key, and with the same signature.
Replayed(s) ==
    IF s.key = "" \/ keySpecs[s.key] = NoSig THEN "new"
    ELSE IF keySpecs[s.key] = Sig(s) THEN "same" ELSE "other"

\* Another specification under a used key is refused; a repeat is answered with the computer of the key,
\* which may be gone by now.
Provision(s) ==
    /\ s.org # "" /\ ValidCaps(s.caps)
    /\ Replayed(s) # "other"
    /\ LET id == IF Replayed(s) = "same" THEN [key |-> s.key, sig |-> keySpecs[s.key]] ELSE IdOf(s)
       IN  /\ computers' = IF Replayed(s) = "new" THEN computers \cup {id} ELSE computers
           /\ keySpecs' = IF s.key # "" THEN [keySpecs EXCEPT ![s.key] = id.sig] ELSE keySpecs
           /\ handed' = handed \cup {[spec |-> s, id |-> id, live |-> id \in computers']}
    /\ Counted /\ UNCHANGED <<negotiated, execs, ran, down>>

\* A handle is good for the tenant it was made for.
Holds(id, org) == id \in computers /\ id.sig.org = org

\* Exec looks the computer up under the lock, and lets go of it.
LookUpComputer(id, org, cap) ==
    /\ Holds(id, org) /\ cap \in id.sig.caps
    /\ execs' = execs \cup {[id |-> id, cap |-> cap, org |-> org, at |-> "found", stale |-> id \in down]}
    /\ Counted /\ UNCHANGED <<computers, keySpecs, negotiated, handed, ran, down>>

\* The command begins, on whatever has become of the computer since.
RunCommand(e) ==
    /\ e.at = "found"
    /\ execs' = (execs \ {e}) \cup {[e EXCEPT !.at = "running"]}
    /\ ran' = ran \cup {[id |-> e.id, stale |-> e.stale]}
    /\ UNCHANGED <<computers, keySpecs, negotiated, handed, down, calls, pulse>>

EndExec(e) ==
    /\ e.at = "running"
    /\ execs' = execs \ {e}
    /\ UNCHANGED <<computers, keySpecs, negotiated, handed, ran, down, calls, pulse>>

\* Faulty variant of ForgetOnTeardown: the key may be used again.
ForgetKeyToo(id) == [keySpecs EXCEPT ![id.key] = NoSig]

\* Teardown keeps the key and its signature.
ForgetOnTeardown(id) == keySpecs

\* Retaining needs the capability; both modes drop the computer.
Teardown(id, org, mode) ==
    /\ Holds(id, org)
    /\ mode = "retain" => "teardown_keep" \in id.sig.caps
    /\ computers' = computers \ {id}
    /\ keySpecs' = ForgetOnTeardown(id)
    /\ down' = down \cup {id}
    /\ Counted /\ UNCHANGED <<negotiated, execs, handed, ran>>

ReferenceNext ==
    \/ \E offer \in {{"fs"}, {"fs", "shell"}} : Handshake(offer)
    \/ \E s \in PSpec : Provision(s)
    \/ \E h \in handed, org \in POrg :
          \/ \E cap \in Cap : LookUpComputer(h.id, org, cap)
          \/ \E mode \in {"clean", "retain"} : Teardown(h.id, org, mode)
    \/ \E e \in execs : RunCommand(e) \/ EndExec(e)

ReferenceSpec == ComputersInit /\ [][ReferenceNext]_computersVars

-----------------------------------------------------------------------------
(* The PULSE adapter. *)

\* grantedCaps: from what the configuration allows.  Git and shell come with either.
grantedCaps == pulse.allow \cup (IF pulse.allow = {} THEN {} ELSE {"git", "shell"})

\* One request to the daemon, which answers when it is there and its consent store covers it.
call(path, caps) ==
    /\ \E ok \in BOOLEAN :
          pulse' = [pulse EXCEPT !.wire = [path |-> path, caps |-> caps, shook |-> pulse.shook],
                                 !.shook = @ \/ (path = "handshake" /\ ok)]
    /\ UNCHANGED referenceVars

PulseHandshake == call("handshake", {})

PulseProvision(caps) ==
    /\ pulse.shook
    /\ caps # {} /\ grantedCaps # {}
    /\ caps \subseteq grantedCaps
    /\ call("provision", caps)

PulseMayExec(cap) == pulse.shook /\ cap \in grantedCaps

PulseExec(cap) == PulseMayExec(cap) /\ call("exec", {cap})

PulseSnapshot == call("snapshot", {})

PulseTeardown(mode) ==
    /\ mode = "retain" => "teardown_keep" \in grantedCaps
    /\ call("teardown", {})

PulseNext ==
    \/ PulseHandshake \/ PulseSnapshot
    \/ \E caps \in {{}, {"fs"}, {"browser", "shell"}, {"snap"}} : PulseProvision(caps)
    \/ \E cap \in Cap : PulseExec(cap)
    \/ \E mode \in {"clean", "retain"} : PulseTeardown(mode)

PulseSpec == ComputersInit /\ [][PulseNext]_computersVars

-----------------------------------------------------------------------------
(* What a handle is worth. *)

\* However often a key is used, every answer under it names one computer, made for the tenant and with the
\* capabilities of every request that was answered.
KeyIsOneComputer ==
    /\ \A h \in handed : h.id.sig.org = h.spec.org /\ h.id.sig.caps = h.spec.caps
    /\ \A h, g \in handed : h.spec.key = g.spec.key /\ h.spec.key # "" => h.id = g.id

\* A computer with a key that was torn down stays down: it is not there again, not after a repeat of the
\* provisioning either, and no command begins for a call of Exec that looked it up after the teardown.
\* A call that looked it up before may still begin its command afterwards: Exec has let go of the lock.
TornDownStaysDown ==
    /\ \A c \in computers : c.key # "" => c \notin down
    /\ \A x \in ran : x.id.key # "" => ~x.stale

\* What the adapter asks the daemon to provision or to run was asked after a handshake and is within the
\* capabilities of the configuration, whatever the daemon would have consented to.
WireIsGranted ==
    pulse.wire # NoSig /\ pulse.wire.path \in {"provision", "exec"}
        => pulse.wire.shook /\ pulse.wire.caps \subseteq grantedCaps

=============================================================================
