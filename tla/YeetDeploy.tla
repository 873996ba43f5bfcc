----------------------------- MODULE YeetDeploy -----------------------------
(***************************************************************************)
(* "yeet run <svc> <file>" (cmd/yeet/yeet.go runRun, tryRunFile) composed *)
(* with the daemon's lifecycle commands.  The client classifies the file  *)
(* locally, uploads it with scp to <svc>@host:stage (the SFTP stage       *)
(* route: Stage), and then runs "ssh <svc>@host stage commit" in a second  *)
(* session (CommitStaged).  Nothing holds the service between the two     *)
(* sessions, and other users' sessions act on the service meanwhile.      *)
(***************************************************************************)
EXTENDS ServiceLifecycle

VARIABLES
    ust,    \* ust[c]: "idle", "commit" (uploaded, commit pending), "ok", "failed"
    usvc,   \* usvc[c]: the service of c's yeet run
    want,   \* want[c]: the payload c uploaded
    got     \* got[c]: the payload c's commit promoted, or NoFile

yvars == <<ust, usvc, want, got>>

allvars == <<vars, yvars>>

YInit ==
    /\ Init
    /\ ust = [c \in Clients |-> "idle"]
    /\ usvc = [c \in Clients |-> CHOOSE s \in Services : TRUE]
    /\ want = [c \in Clients |-> NoFile]
    /\ got = [c \in Clients |-> NoFile]

\* tryRunFile: DetectFile accepted the file, and stageFile's scp upload
\* went through the stage route.
YeetUpload(c, s, p) ==
    /\ ust[c] = "idle"
    /\ Stage(c, s, p)
    /\ ust' = [ust EXCEPT ![c] = "commit"]
    /\ usvc' = [usvc EXCEPT ![c] = s]
    /\ want' = [want EXCEPT ![c] = p]
    /\ UNCHANGED got

\* tryRunFile: "stage commit" in a new session; a commit that finds nothing
\* staged fails and yeet prints "failed to run service".
YeetCommit(c) ==
    LET s == usvc[c] IN
    /\ ust[c] = "commit"
    /\ \/ /\ CommitStaged(c, s)
          /\ ust' = [ust EXCEPT ![c] = "ok"]
          /\ got' = [got EXCEPT ![c] = files[s][staged[s]]]
       \/ /\ ~(s \in present /\ staged[s] = latest[s] + 1)
          /\ ust' = [ust EXCEPT ![c] = "failed"]
          /\ UNCHANGED <<vars, got>>
    /\ UNCHANGED <<usvc, want>>

\* yeet exits; the user may run it again.
YeetExit(c) ==
    /\ ust[c] \in {"ok", "failed"}
    /\ ust' = [ust EXCEPT ![c] = "idle"]
    /\ got' = [got EXCEPT ![c] = NoFile]
    /\ UNCHANGED <<vars, usvc, want>>

\* A user who is not inside a yeet run issues any other command.
YNext ==
    \/ \E c \in Clients :
          /\ ust[c] = "idle"
          /\ SessionNext(c)
          /\ UNCHANGED yvars
    \/ \E c \in Clients :
          \/ \E s \in Services, p \in Payloads : YeetUpload(c, s, p)
          \/ YeetCommit(c)
          \/ YeetExit(c)

YSpec == YInit /\ [][YNext]_allvars

-----------------------------------------------------------------------------

\* When "yeet run" reports success, the generation its commit promoted is
\* the payload it uploaded (the client prints no error and exits 0).
RunDeploysOwnPayload ==
    \A c \in Clients : ust[c] = "ok" => got[c] = want[c]

=============================================================================
