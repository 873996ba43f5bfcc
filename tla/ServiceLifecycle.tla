--------------------------- MODULE ServiceLifecycle ---------------------------
(***************************************************************************)
(* The generation store of the catch daemon and the lifecycle commands    *)
(* that act on it, as several SSH sessions (clients) run them at once.    *)
(*                                                                         *)
(* Per service the store keeps the selected generation (Generation), the  *)
(* newest committed one (LatestGeneration), the staged one, and the       *)
(* artifact files of every retained generation.  The supervisor (systemd  *)
(* or docker compose) holds the installed unit of one generation and a    *)
(* running flag.                                                          *)
(*                                                                         *)
(* Rollback (tty.go rollbackCmdFunc) and remove (tty.go removeCmdFunc and  *)
(* catch.go RemoveService) are sequences of separate calls in the code;   *)
(* each call that touches shared state is one step of its own here, and   *)
(* pc[c] records where client c is between them; so is "edit --config"    *)
(* (tty.go editCmdFunc), whose editor may stay open for as long as the    *)
(* user likes while other sessions go on.  The installer and the          *)
(* store are not part of the source tree: Install, Stage, CommitStaged,   *)
(* InstallGen and RetainLast follow the specification's installer         *)
(* pipeline, which runs under a per-service lock and is one step here.    *)
(***************************************************************************)
EXTENDS Integers, FiniteSets

CONSTANTS
    Services,        \* service names other than "sys" and "catch"
    Clients,         \* concurrent SSH sessions issuing commands
    Payloads,        \* distinguishable contents of an uploaded artifact
    NoFile,          \* marks a generation whose files are absent
    MaxGen,          \* bound on LatestGeneration (model bound)
    maxGenerations,  \* the retention / rollback window N
    RootName         \* the empty service name: its directory is the services root

\* What the constants must satisfy; the proofs take it as a hypothesis.
ConstantsAssumption ==
    /\ Services # {}
    /\ MaxGen \in Nat \ {0}
    /\ maxGenerations \in Nat \ {0}
    /\ NoFile \notin Payloads

Gens == 1..MaxGen
GenOrNone == 0..MaxGen

VARIABLES
    present,   \* services with an entry in the JSON store
    gen,       \* gen[s]: Service.Generation, the selected generation
    latest,    \* latest[s]: Service.LatestGeneration
    staged,    \* staged[s]: generation the "staged" ref points at, 0 = none
    files,     \* files[s][g]: artifact files of generation g on disk
    unit,      \* unit[s]: generation whose unit the supervisor has installed
    active,    \* active[s]: the supervisor reports the service running
    pc,        \* pc[c]: the step client c is at, with its service and generation
    snap       \* snap[c]: the generation fields of the record edit --config read

vars == <<present, gen, latest, staged, files, unit, active, pc, snap>>

Ops == {"idle", "installgen", "rmcheck", "rmdirs", "rmentry", "editing"}

Snaps == [gen : GenOrNone, latest : GenOrNone, staged : GenOrNone]

NoSnap == [gen |-> 0, latest |-> 0, staged |-> 0]

Idle == [op |-> "idle", svc |-> CHOOSE s \in Services : TRUE, g |-> 0]

TypeOK ==
    /\ present \subseteq Services
    /\ gen \in [Services -> GenOrNone]
    /\ latest \in [Services -> GenOrNone]
    /\ staged \in [Services -> GenOrNone]
    /\ files \in [Services -> [Gens -> Payloads \cup {NoFile}]]
    /\ unit \in [Services -> GenOrNone]
    /\ active \in [Services -> BOOLEAN]
    /\ pc \in [Clients -> [op : Ops, svc : Services, g : GenOrNone]]
    /\ snap \in [Clients -> Snaps]

Init ==
    /\ present = {}
    /\ gen = [s \in Services |-> 0]
    /\ latest = [s \in Services |-> 0]
    /\ staged = [s \in Services |-> 0]
    /\ files = [s \in Services |-> [g \in Gens |-> NoFile]]
    /\ unit = [s \in Services |-> 0]
    /\ active = [s \in Services |-> FALSE]
    /\ pc = [c \in Clients |-> Idle]
    /\ snap = [c \in Clients |-> NoSnap]

\* RetainLast(N): after promoting generation g, evict every generation
\* older than the last N.
RetainLast(fs, g) ==
    [x \in Gens |-> IF x <= g - maxGenerations THEN NoFile ELSE fs[x]]

\* Promote generation g of service s: it becomes both the latest and the
\* selected generation, older generations are evicted, and the supervisor
\* is reconciled against it (unit installed, service restarted).
Promote(s, g, fs) ==
    /\ latest' = [latest EXCEPT ![s] = g]
    /\ gen' = [gen EXCEPT ![s] = g]
    /\ files' = [files EXCEPT ![s] = RetainLast(fs, g)]
    /\ unit' = [unit EXCEPT ![s] = g]
    /\ active' = [active EXCEPT ![s] = TRUE]

\* "run": upload a payload, stage it as generation latest+1 and promote it.
\* MutateService creates the store entry of a service that has none.
Install(c, s, p) ==
    LET g == latest[s] + 1 IN
    /\ pc[c].op = "idle"
    /\ g <= MaxGen
    /\ present' = present \cup {s}
    /\ staged' = [staged EXCEPT ![s] = g]
    /\ Promote(s, g, [files[s] EXCEPT ![g] = p])
    /\ UNCHANGED <<pc, snap>>

\* "stage": upload a payload as generation latest+1 without promoting it.
Stage(c, s, p) ==
    LET g == latest[s] + 1 IN
    /\ pc[c].op = "idle"
    /\ g <= MaxGen
    /\ present' = present \cup {s}
    /\ staged' = [staged EXCEPT ![s] = g]
    /\ files' = [files EXCEPT ![s][g] = p]
    /\ UNCHANGED <<gen, latest, unit, active, pc, snap>>

\* "stage commit": promote the staged generation.
CommitStaged(c, s) ==
    /\ pc[c].op = "idle"
    /\ s \in present
    /\ staged[s] = latest[s] + 1
    /\ Promote(s, staged[s], files[s])
    /\ UNCHANGED <<present, staged, pc, snap>>

\* rollbackCmdFunc, first call: MutateService decrements Generation when
\* the checks pass, and the session keeps the new value in s.Generation.
RollbackMutate(c, s) ==
    LET g == gen[s] - 1 IN
    /\ pc[c].op = "idle"
    /\ s \in present
    /\ gen[s] # 0
    /\ ~(g < latest[s] - maxGenerations)
    /\ g # 0
    /\ gen' = [gen EXCEPT ![s] = g]
    /\ pc' = [pc EXCEPT ![c] = [op |-> "installgen", svc |-> s, g |-> g]]
    /\ UNCHANGED <<present, latest, staged, files, unit, active, snap>>

\* rollbackCmdFunc, second call: InstallGen(s.Generation) with the
\* generation read back from the first call (and editCmdFunc's last call,
\* InstallGen(s2.Generation)).  It installs the unit of that generation and
\* restarts the service, and fails when the service entry or the
\* generation's files are gone.
InstallGen(c) ==
    LET s == pc[c].svc
        g == pc[c].g
    IN
    /\ pc[c].op = "installgen"
    /\ \/ /\ s \in present
          /\ g # 0
          /\ files[s][g] # NoFile
          /\ unit' = [unit EXCEPT ![s] = g]
          /\ active' = [active EXCEPT ![s] = TRUE]
       \/ /\ ~(s \in present /\ g # 0 /\ files[s][g] # NoFile)
          /\ UNCHANGED <<unit, active>>
    /\ pc' = [pc EXCEPT ![c] = Idle]
    /\ UNCHANGED <<present, gen, latest, staged, files, snap>>

\* startCmdFunc: serviceRunner needs the store entry; the runner's Start
\* fails when no unit is installed.
Start(c, s) ==
    /\ pc[c].op = "idle"
    /\ s \in present
    /\ unit[s] # 0
    /\ active' = [active EXCEPT ![s] = TRUE]
    /\ UNCHANGED <<present, gen, latest, staged, files, unit, pc, snap>>

\* stopCmdFunc.
Stop(c, s) ==
    /\ pc[c].op = "idle"
    /\ s \in present
    /\ active' = [active EXCEPT ![s] = FALSE]
    /\ UNCHANGED <<present, gen, latest, staged, files, unit, pc, snap>>

\* removeCmdFunc up to RemoveService: serviceRunner needs the store entry,
\* the user confirms, and runner.Remove stops and uninstalls the unit.
RemoveRunner(c, s) ==
    /\ pc[c].op = "idle"
    /\ s \in present
    /\ unit' = [unit EXCEPT ![s] = 0]
    /\ active' = [active EXCEPT ![s] = FALSE]
    /\ pc' = [pc EXCEPT ![c] = [op |-> "rmcheck", svc |-> s, g |-> 0]]
    /\ UNCHANGED <<present, gen, latest, staged, files, snap>>

\* RemoveService, first call: IsServiceRunning.  A running service aborts
\* the removal; an error of the status query (or of serviceType, when the
\* entry is already gone) is only logged and the removal goes on.
RemoveCheck(c) ==
    LET s == pc[c].svc IN
    /\ pc[c].op = "rmcheck"
    /\ \/ /\ s \in present
          /\ active[s]
          /\ pc' = [pc EXCEPT ![c] = Idle]
       \/ pc' = [pc EXCEPT ![c].op = "rmdirs"]
    /\ UNCHANGED <<present, gen, latest, staged, files, unit, active, snap>>

\* RemoveService: RemoveAll of every entry the glob <root>/<name>/* finds,
\* except one named data.  For the empty name that glob lists the service
\* roots themselves, so every service's tree goes.  A RemoveAll that fails
\* returns at once: what was already removed is gone, the store entry stays.
RemoveDirs(c) ==
    LET s == pc[c].svc
        hit(t) == t = s \/ s = RootName
    IN
    /\ pc[c].op = "rmdirs"
    /\ \/ /\ files' = [t \in Services |->
                         IF hit(t) THEN [g \in Gens |-> NoFile] ELSE files[t]]
          /\ pc' = [pc EXCEPT ![c].op = "rmentry"]
       \/ /\ \E kept \in SUBSET (Services \X Gens) :
                files' = [t \in Services |-> [g \in Gens |->
                            IF hit(t) /\ <<t, g>> \notin kept THEN NoFile ELSE files[t][g]]]
          /\ pc' = [pc EXCEPT ![c] = Idle]
    /\ UNCHANGED <<present, gen, latest, staged, unit, active, snap>>

\* RemoveService, the rest: the tailscale client, DeleteDevice (a 404 is
\* only logged) and MutateData deleting the entry.  Each of them can fail,
\* and RemoveService then returns with the entry kept.
RemoveEntry(c) ==
    LET s == pc[c].svc IN
    /\ pc[c].op = "rmentry"
    /\ \/ /\ present' = present \ {s}
          /\ gen' = [gen EXCEPT ![s] = 0]
          /\ latest' = [latest EXCEPT ![s] = 0]
          /\ staged' = [staged EXCEPT ![s] = 0]
       \/ UNCHANGED <<present, gen, latest, staged>>
    /\ pc' = [pc EXCEPT ![c] = Idle]
    /\ UNCHANGED <<files, unit, active, snap>>

\* editCmdFunc with --config: serviceType and serviceView need the store
\* entry; the record is marshalled to a temporary file and the editor runs.
EditOpen(c, s) ==
    /\ pc[c].op = "idle"
    /\ s \in present
    /\ pc' = [pc EXCEPT ![c] = [op |-> "editing", svc |-> s, g |-> 0]]
    /\ snap' = [snap EXCEPT ![c] = [gen |-> gen[s], latest |-> latest[s], staged |-> staged[s]]]
    /\ UNCHANGED <<present, gen, latest, staged, files, unit, active>>

\* The editor exits.  An unchanged file ("No changes detected"), or a read
\* or unmarshal error, ends the command; otherwise MutateService replaces
\* the whole record by the edited one (*s = s2, upserting a removed entry),
\* whose generation fields are those read before the editor ran, and
\* InstallGen(s2.Generation) follows.
EditSave(c) ==
    LET s == pc[c].svc
        r == snap[c]
    IN
    /\ pc[c].op = "editing"
    /\ \/ /\ pc' = [pc EXCEPT ![c] = Idle]
          /\ UNCHANGED <<present, gen, latest, staged>>
       \/ /\ present' = present \cup {s}
          /\ gen' = [gen EXCEPT ![s] = r.gen]
          /\ latest' = [latest EXCEPT ![s] = r.latest]
          /\ staged' = [staged EXCEPT ![s] = r.staged]
          /\ pc' = [pc EXCEPT ![c] = [op |-> "installgen", svc |-> s, g |-> r.gen]]
    /\ UNCHANGED <<files, unit, active, snap>>

\* Every step session c can take.
SessionNext(c) ==
    \/ \E s \in Services, p \in Payloads : Install(c, s, p) \/ Stage(c, s, p)
    \/ \E s \in Services :
          \/ CommitStaged(c, s)
          \/ RollbackMutate(c, s)
          \/ Start(c, s)
          \/ Stop(c, s)
          \/ RemoveRunner(c, s)
          \/ EditOpen(c, s)
    \/ InstallGen(c)
    \/ RemoveCheck(c)
    \/ RemoveDirs(c)
    \/ RemoveEntry(c)
    \/ EditSave(c)

Next == \E c \in Clients : SessionNext(c)

Spec == Init /\ [][Next]_vars

-----------------------------------------------------------------------------
(* Properties.                                                              *)

\* No session is between two calls of a multi-step command.
Quiescent == \A c \in Clients : pc[c].op = "idle"

\* Artifact integrity: when no command is half done, every generation of
\* the retention window [latest - N + 1, latest] of a stored service has its
\* files on disk (installs, stages, rollbacks and removals all interleaved).
ArtifactIntegrity ==
    Quiescent =>
        \A s \in present, g \in Gens :
            latest[s] - maxGenerations < g /\ g <= latest[s] => files[s][g] # NoFile

\* No step of any command lowers LatestGeneration of a service that keeps
\* its store entry, or rewrites the files of a committed generation: they
\* stay as they are until evicted or removed.
GenerationHistoryPreserved ==
    [][\A s \in present \cap present' :
          /\ latest'[s] >= latest[s]
          /\ \A g \in 1..latest[s] :
                files'[s][g] \in {files[s][g], NoFile}]_vars

\* The generation a rollback selects still has its files when the command
\* is done (S3: the compose file on disk is that generation's artifact).
SelectedGenerationStored ==
    Quiescent =>
        \A s \in present : gen[s] # 0 => files[s][gen[s]] # NoFile

\* Supervisor consistency: when no command is half done, the unit the
\* supervisor runs is the one of the selected generation.
UnitMatchesGeneration ==
    Quiescent =>
        \A s \in present : unit[s] # 0 => unit[s] = gen[s]

\* RemoveService deletes the artifact tree only of a stopped service (S6:
\* remove while running is a conflict with no mutation): whenever a remove
\* session runs RemoveAll, the service it removes is not running.
RemoveOnlyStopped ==
    [][\A c \in Clients :
          pc[c].op = "rmdirs" /\ pc'[c].op = "rmentry" => ~active[pc[c].svc]]_vars

=============================================================================
