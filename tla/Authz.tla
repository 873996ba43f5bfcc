-------------------------------- MODULE Authz --------------------------------
(***************************************************************************)
(* Who may reach the catch daemon, and which service a session is for.    *)
(* The three front ends each gate a request with verifyCaller (catch.go),  *)
(* the peer check against the tailnet: the SSH server in its              *)
(* NoClientAuthHandler, the API mux in its authZ wrapper (part_016) and   *)
(* the registry in ServeHTTP (part_018), which lets loopback callers read *)
(* without the check and refuses them any write.  An accepted SSH session *)
(* goes to the SFTP handler or to SSHHandler, which takes the service     *)
(* from the SSH user with serviceAndUser.  The web front end (WebMux,     *)
(* part_013, served on the tailnet's :443 in part_022) mounts the registry *)
(* at /v2/ and the API at /api/v0/, which keep their own gates, and serves *)
(* the embedded web UI files at "/" to every caller with no check.         *)
(*                                                                         *)
(* A tailnet node is abstracted to its tags and its user; an SSH user     *)
(* string to the sequence of its '@'-separated parts.                     *)
(***************************************************************************)
EXTENDS Naturals, Sequences

CONSTANTS
    Tags,    \* ACL tags
    Users,   \* tailnet user ids
    Names    \* the texts between the '@'s of an SSH user ("" included)

ASSUME AuthzAssumption == "" \in Names

\* A node: IsTagged() is Tags().Len() > 0.
Nodes == [tags : SUBSET Tags, user : Users]

IsTagged(n) == n.tags # {}

\* A caller: its node, whether its address is loopback, whether the
\* address parses, and whether the two local-client lookups succeed.  WhoIs
\* knows no loopback address.
Callers ==
    { c \in [node : Nodes, loopback : BOOLEAN, addrOk : BOOLEAN,
             statusOk : BOOLEAN, whoisOk : BOOLEAN] :
        c.loopback => ~c.whoisOk }

Transports == {"ssh", "api", "registry", "web"}

Methods == {"GET", "HEAD", "OPTIONS", "PUT", "POST", "DELETE"}

ReadMethods == {"GET", "HEAD", "OPTIONS"}

\* SSH user strings of up to three '@'-separated parts.
SSHUsers == UNION {[1..k -> Names] : k \in 1..3}

\* overlaps(a, b): some tag is in both.
Overlaps(a, b) == a \cap b # {}

\* verifyCaller's decision once both lookups have succeeded.
VerifyCallerDecision(self, who) ==
    IF IsTagged(who)
    THEN IF IsTagged(self) /\ Overlaps(who.tags, self.tags) THEN "allow" ELSE "deny"
    ELSE IF IsTagged(self) THEN "allow"
    ELSE IF self.user = who.user THEN "allow"
    ELSE "deny"

\* serviceAndUser: the service of an accepted SSH session, or "error".
ServiceAndUser(u) ==
    IF Len(u) = 1 THEN (IF u[1] = "" THEN "error" ELSE u[1])
    ELSE IF Len(u) = 2 THEN u[2]
    ELSE "error"

VARIABLES
    self,       \* the catch's own node (StatusWithoutPeers().Self)
    caller,     \* the connecting peer
    transport,  \* the front end it connects to
    method,     \* the HTTP method (registry and API)
    sshUser,    \* the SSH user string
    subsystem,  \* the SSH session asks for the sftp subsystem
    step,       \* "gate", "verify", "session", "done"
    verdict,    \* verifyCaller's result: "none", "allow", "deny", "error"
    outcome,    \* "none", "served", "401", "405", "rejected", "sftp", "usererror",
                \* "routed", or "asset" for an embedded web UI file
    service     \* the service an SSH command session runs for

vars == <<self, caller, transport, method, sshUser, subsystem, step, verdict,
          outcome, service>>

Finish(o) == step' = "done" /\ outcome' = o

Init ==
    /\ self \in Nodes
    /\ caller \in Callers
    /\ transport \in Transports
    /\ method \in Methods
    /\ sshUser \in SSHUsers
    /\ subsystem \in BOOLEAN
    /\ step = "gate"
    /\ verdict = "none"
    /\ outcome = "none"
    /\ service = "none"

\* Mutant: the loopback branch forgets the method check.
RegistryGate_NoMethodCheck ==
    /\ step = "gate"
    /\ transport = "registry"
    /\ IF ~caller.addrOk THEN Finish("405") /\ UNCHANGED verdict
       ELSE IF caller.loopback THEN Finish("served") /\ UNCHANGED verdict
       ELSE step' = "verify" /\ UNCHANGED <<verdict, outcome>>
    /\ UNCHANGED <<self, caller, transport, method, sshUser, subsystem, service>>

\* containerRegistry.ServeHTTP: an unparsable remote address is refused as
\* read-only, a loopback caller may only read, any other caller goes
\* through verifyCaller.
RegistryGate ==
    /\ step = "gate"
    /\ transport = "registry"
    /\ IF ~caller.addrOk THEN Finish("405") /\ UNCHANGED verdict
       ELSE IF caller.loopback
            THEN IF method \in ReadMethods THEN Finish("served") ELSE Finish("405")
       ELSE step' = "verify" /\ UNCHANGED outcome
    /\ UNCHANGED <<self, caller, transport, method, sshUser, subsystem, verdict, service>>

\* handleAPI: the authZ wrapper sends every API request to verifyCaller.
ApiGate ==
    /\ step = "gate"
    /\ transport = "api"
    /\ step' = "verify"
    /\ UNCHANGED <<self, caller, transport, method, sshUser, subsystem, verdict,
                   outcome, service>>

\* WebMux's "/" handler: the embedded file the path names (index.html for
\* "/"), with its ETag, or 404; no caller check.
WebGate ==
    /\ step = "gate"
    /\ transport = "web"
    /\ Finish("asset")
    /\ UNCHANGED <<self, caller, transport, method, sshUser, subsystem, verdict, service>>

\* handleSSHConnection: the server asks for no client authentication and
\* its NoClientAuthHandler sends every connection to verifyCaller.
SshGate ==
    /\ step = "gate"
    /\ transport = "ssh"
    /\ step' = "verify"
    /\ UNCHANGED <<self, caller, transport, method, sshUser, subsystem, verdict,
                   outcome, service>>

\* verifyCaller, and what the front end makes of its answer: 401 over
\* HTTP, a refused connection with the banner over SSH.
VerifyCaller ==
    LET v == IF ~caller.statusOk \/ ~caller.whoisOk THEN "error"
             ELSE VerifyCallerDecision(self, caller.node)
    IN
    /\ step = "verify"
    /\ verdict' = v
    /\ IF v = "allow"
       THEN IF transport = "ssh" THEN step' = "session" /\ UNCHANGED outcome
            ELSE Finish("served")
       ELSE Finish(IF transport = "ssh" THEN "rejected" ELSE "401")
    /\ UNCHANGED <<self, caller, transport, method, sshUser, subsystem, service>>

\* handleSession: an sftp subsystem request goes to the SFTP handler;
\* anything else to SSHHandler, which routes it with serviceAndUser.
HandleSession ==
    LET sn == ServiceAndUser(sshUser) IN
    /\ step = "session"
    /\ IF subsystem THEN Finish("sftp") /\ UNCHANGED service
       ELSE IF sn = "error" THEN Finish("usererror") /\ UNCHANGED service
       ELSE Finish("routed") /\ service' = sn
    /\ UNCHANGED <<self, caller, transport, method, sshUser, subsystem, verdict>>

Next == RegistryGate \/ ApiGate \/ WebGate \/ SshGate \/ VerifyCaller \/ HandleSession

Spec == Init /\ [][Next]_vars

-----------------------------------------------------------------------------
(* Properties.                                                              *)

Done == step = "done"

\* Nothing reaches a handler that reads or changes the daemon's state (API
\* or registry handler, SFTP server, SSH command session) on any of the
\* four front ends unless verifyCaller accepted the caller, except a
\* loopback read of the registry; a loopback write is always refused with
\* 405 (spec 5, registry authorization); and what any caller gets without
\* the check is an embedded web UI file and nothing else.
AccessControl ==
    Done =>
    /\ outcome \in {"served", "sftp", "usererror", "routed"} =>
         \/ verdict = "allow"
         \/ transport = "registry" /\ caller.loopback /\ caller.addrOk
            /\ method \in ReadMethods
    /\ transport = "registry" /\ caller.loopback /\ method \notin ReadMethods
         => outcome = "405"
    /\ outcome = "asset" => transport = "web" /\ verdict = "none"

\* The spec's Authorizer (4.H): a tagged local node admits a tagged peer
\* whose tags overlap its own and every untagged peer; an untagged local
\* node admits every tagged peer and an untagged peer of its own user.
SpecAllows(me, who) ==
    IF IsTagged(me)
    THEN IsTagged(who) => Overlaps(who.tags, me.tags)
    ELSE IsTagged(who) \/ me.user = who.user

\* Once both lookups succeed, verifyCaller decides as the spec's
\* Authorizer does.
AuthorizerMatchesSpec ==
    Done /\ verdict \in {"allow", "deny"} =>
        (verdict = "allow") = SpecAllows(self, caller.node)

\* The spec's user routing (4.I): "[user@]service", an empty service is
\* the meta-service sys; a user with a second '@' is invalid.
SpecService(u) ==
    IF Len(u) > 2 THEN "error"
    ELSE IF u[Len(u)] = "" THEN "sys" ELSE u[Len(u)]

\* An accepted command session whose SSH user the spec can route runs for
\* the service the spec names.
SessionServiceMatchesSpec ==
    Done /\ transport = "ssh" /\ verdict = "allow" /\ ~subsystem
    /\ SpecService(sshUser) # "error"
        => outcome = "routed" /\ service = SpecService(sshUser)

=============================================================================
