------------------------------ MODULE Registry ------------------------------
(***************************************************************************)
(* The catch daemon's container registry: the manifest PUT and DELETE     *)
(* handlers of the forked go-containerregistry (registry/manifest.go      *)
(* manifests.handle) calling catch's manifest handler (registry.go        *)
(* RepoExists, SetManifests, SetManifest, DeleteManifest, OnImageReceived) *)
(* as several HTTP requests are served at once.                           *)
(*                                                                         *)
(* The store is the daemon's JSON database: image repositories with their *)
(* refs, and the services with their LatestGeneration.  Every catch       *)
(* manifest method reads a snapshot with getDB, edits a copy and writes    *)
(* the whole copy back with DB.Set; the read and the write are separate   *)
(* steps here.  SetManifest then hands the service to the installer       *)
(* (spec-modelled: one MutateService step that creates the service and,   *)
(* for a commit, promotes a new generation).                              *)
(***************************************************************************)
EXTENDS Naturals, FiniteSets

CONSTANTS
    Repos,        \* repository paths a client may push to
    RepoService,  \* RepoService[r]: service of "svc/container", or Invalid
    Invalid,      \* marks a path without exactly one "/"
    Services,     \* service names
    Tags,         \* tags a client may push
    Blobs,        \* manifest contents
    DigestRef,    \* DigestRef[b]: the "sha256:..." reference of blob b
    NoRef,        \* a reference that is not set
    Handlers,     \* concurrent HTTP requests
    MaxRequests   \* bound on the number of requests served (model bound)

ASSUME RegistryAssumption ==
    /\ RepoService \in [Repos -> Services \cup {Invalid}]
    /\ Invalid \notin Services
    /\ {"latest", "run"} \subseteq Tags
    /\ DigestRef \in [Blobs -> STRING]
    /\ NoRef \notin Blobs
    /\ Repos # {} /\ Blobs # {}
    /\ IsFiniteSet(Handlers)
    /\ MaxRequests \in Nat

Refs == Tags \cup {"staged"} \cup {DigestRef[b] : b \in Blobs}

\* Mutant: "latest" is stored verbatim.
RefsFor_Verbatim(tag) ==
    IF tag = "run" THEN {"run", "staged"} ELSE {tag}

\* SetManifest's tag mapping: "run" is stored as run and staged and
\* installs, "latest" is stored as staged, any other tag verbatim.
RefsFor(tag) ==
    IF tag = "run" THEN {"run", "staged"}
    ELSE IF tag = "latest" THEN {"staged"}
    ELSE {tag}

EmptyRefs == [x \in Refs |-> NoRef]

\* A value of the JSON store: image repositories, their refs, services.
DBs == [repos : SUBSET Repos,
        refs : [Repos -> [Refs -> Blobs \cup {NoRef}]],
        svcs : SUBSET Services,
        latest : [Services -> 0..MaxRequests]]

Steps == {"idle", "put", "sms_get", "sms_set", "sm_get", "sm_set", "sm_inst",
          "respond", "del_check", "del_get", "del_set"}

VARIABLES
    db,         \* the store
    snap,       \* snap[h]: the copy request h got from getDB
    pc,         \* pc[h]: step, request and which SetManifest call (k)
    pre,        \* pre[h]: refs of the request's repository when it began
    lastWrite,  \* lastWrite[r][x]: what the latest DB.Set meant ref x to hold
    served      \* number of requests received so far

vars == <<db, snap, pc, pre, lastWrite, served>>

Request == [step : Steps, repo : Repos, tag : Refs, blob : Blobs, k : 1..2]

TypeOK ==
    /\ db \in DBs
    /\ snap \in [Handlers -> DBs]
    /\ pc \in [Handlers -> Request]
    /\ pre \in [Handlers -> [Refs -> Blobs \cup {NoRef}]]
    /\ lastWrite \in [Repos -> [Refs -> Blobs \cup {NoRef}]]
    /\ served \in 0..MaxRequests

EmptyDB == [repos |-> {}, refs |-> [r \in Repos |-> EmptyRefs],
            svcs |-> {}, latest |-> [s \in Services |-> 0]]

IdleReq == [step |-> "idle", repo |-> CHOOSE r \in Repos : TRUE,
            tag |-> "latest", blob |-> CHOOSE b \in Blobs : TRUE, k |-> 1]

Init ==
    /\ db = EmptyDB
    /\ snap = [h \in Handlers |-> EmptyDB]
    /\ pc = [h \in Handlers |-> IdleReq]
    /\ pre = [h \in Handlers |-> EmptyRefs]
    /\ lastWrite = [r \in Repos |-> EmptyRefs]
    /\ served = 0

Goto(h, s) == pc' = [pc EXCEPT ![h].step = s]

\* d with refs xs of repository r set to b, creating r's entry if absent.
WithRefs(d, r, xs, b) ==
    LET base == IF r \in d.repos THEN d.refs[r] ELSE EmptyRefs IN
    [d EXCEPT !.repos = @ \cup {r},
              !.refs[r] = [x \in Refs |-> IF x \in xs THEN b ELSE base[x]]]

\* DB.Set(d) by request h, which means refs xs of repository r to hold b.
SetDB(h, d, r, xs, b) ==
    /\ db' = d
    /\ lastWrite' = [lastWrite EXCEPT ![r] = [x \in Refs |-> IF x \in xs THEN b ELSE @[x]]]

\* A manifest PUT /v2/<repo>/manifests/<tag> arrives.
ReceivePut(h, r, t, b) ==
    /\ pc[h].step = "idle"
    /\ served < MaxRequests
    /\ t \in Tags
    /\ pc' = [pc EXCEPT ![h] = [step |-> "put", repo |-> r, tag |-> t, blob |-> b, k |-> 1]]
    /\ pre' = [pre EXCEPT ![h] = IF r \in db.repos THEN db.refs[r] ELSE EmptyRefs]
    /\ served' = served + 1
    /\ UNCHANGED <<db, snap, lastWrite>>

\* PUT: if !RepoExists(repo), SetManifests(repo, {}) first.
PutCheck(h) ==
    /\ pc[h].step = "put"
    /\ Goto(h, IF pc[h].repo \in db.repos THEN "sm_get" ELSE "sms_get")
    /\ UNCHANGED <<db, snap, pre, lastWrite, served>>

\* SetManifests: getDB.
SetManifestsGet(h) ==
    /\ pc[h].step = "sms_get"
    /\ snap' = [snap EXCEPT ![h] = db]
    /\ Goto(h, "sms_set")
    /\ UNCHANGED <<db, pre, lastWrite, served>>

\* SetManifests: create the repository entry (whatever its name) and Set.
SetManifestsSet(h) ==
    /\ pc[h].step = "sms_set"
    /\ SetDB(h, WithRefs(snap[h], pc[h].repo, {}, pc[h].blob), pc[h].repo, {}, pc[h].blob)
    /\ Goto(h, "sm_get")
    /\ UNCHANGED <<snap, pre, served>>

\* The refs SetManifest call k of the request writes: the digest first,
\* then the pushed tag.
CallRefs(h) ==
    IF pc[h].k = 1 THEN {DigestRef[pc[h].blob]} ELSE RefsFor(pc[h].tag)

\* After SetManifest call k: the second call, or OnImageReceived.
AfterCall(h) ==
    IF pc[h].k = 1
    THEN pc' = [pc EXCEPT ![h].step = "sm_get", ![h].k = 2]
    ELSE Goto(h, "respond")

\* SetManifest: a repository path without exactly one "/" returns at once;
\* otherwise getDB.
SetManifestGet(h) ==
    /\ pc[h].step = "sm_get"
    /\ \/ /\ RepoService[pc[h].repo] = Invalid
          /\ AfterCall(h)
          /\ UNCHANGED snap
       \/ /\ RepoService[pc[h].repo] # Invalid
          /\ snap' = [snap EXCEPT ![h] = db]
          /\ Goto(h, "sm_set")
    /\ UNCHANGED <<db, pre, lastWrite, served>>

\* SetManifest: add the refs to the copy (creating the repository) and Set.
SetManifestSet(h) ==
    /\ pc[h].step = "sm_set"
    /\ SetDB(h, WithRefs(snap[h], pc[h].repo, CallRefs(h), pc[h].blob),
             pc[h].repo, CallRefs(h), pc[h].blob)
    /\ Goto(h, "sm_inst")
    /\ UNCHANGED <<snap, pre, served>>

\* SetManifest: NewFileInstaller with StageOnly = tag # "run", fed the
\* compose file; the installer's MutateService creates the service and, for
\* a commit, promotes generation LatestGeneration + 1.
SetManifestInstall(h) ==
    LET s == RepoService[pc[h].repo]
        commit == pc[h].k = 2 /\ pc[h].tag = "run"
    IN
    /\ pc[h].step = "sm_inst"
    /\ db' = [db EXCEPT !.svcs = @ \cup {s},
                        !.latest[s] = IF commit THEN @ + 1 ELSE @]
    /\ AfterCall(h)
    /\ UNCHANGED <<snap, pre, lastWrite, served>>

\* OnImageReceived rejects an invalid path or a tag other than latest/run
\* with a 500; either way the request is over.
Respond(h) ==
    /\ pc[h].step = "respond"
    /\ pc' = [pc EXCEPT ![h] = IdleReq]
    /\ UNCHANGED <<db, snap, pre, lastWrite, served>>

\* A manifest DELETE /v2/<repo>/manifests/<ref> arrives.
ReceiveDelete(h, r, x) ==
    /\ pc[h].step = "idle"
    /\ served < MaxRequests
    /\ pc' = [pc EXCEPT ![h] = [step |-> "del_check", repo |-> r, tag |-> x,
                                blob |-> IdleReq.blob, k |-> 1]]
    /\ served' = served + 1
    /\ UNCHANGED <<db, snap, pre, lastWrite>>

\* DELETE: RepoExists and Manifest(repo, ref), else 404.
DeleteCheck(h) ==
    /\ pc[h].step = "del_check"
    /\ IF pc[h].repo \in db.repos /\ db.refs[pc[h].repo][pc[h].tag] # NoRef
       THEN Goto(h, "del_get")
       ELSE pc' = [pc EXCEPT ![h] = IdleReq]
    /\ UNCHANGED <<db, snap, pre, lastWrite, served>>

\* DeleteManifest: getDB; a repository missing from it returns.
DeleteGet(h) ==
    /\ pc[h].step = "del_get"
    /\ snap' = [snap EXCEPT ![h] = db]
    /\ IF pc[h].repo \in db.repos THEN Goto(h, "del_set")
       ELSE pc' = [pc EXCEPT ![h] = IdleReq]
    /\ UNCHANGED <<db, pre, lastWrite, served>>

\* DeleteManifest: delete the ref from the copy and Set.
DeleteSet(h) ==
    LET r == pc[h].repo IN
    /\ pc[h].step = "del_set"
    /\ db' = [snap[h] EXCEPT !.refs[r][pc[h].tag] = NoRef]
    /\ lastWrite' = [lastWrite EXCEPT ![r][pc[h].tag] = NoRef]
    /\ pc' = [pc EXCEPT ![h] = IdleReq]
    /\ UNCHANGED <<snap, pre, served>>

Next ==
    \E h \in Handlers :
        \/ \E r \in Repos, t \in Tags, b \in Blobs : ReceivePut(h, r, t, b)
        \/ \E r \in Repos, x \in Refs : ReceiveDelete(h, r, x)
        \/ PutCheck(h) \/ SetManifestsGet(h) \/ SetManifestsSet(h)
        \/ SetManifestGet(h) \/ SetManifestSet(h) \/ SetManifestInstall(h)
        \/ Respond(h)
        \/ DeleteCheck(h) \/ DeleteGet(h) \/ DeleteSet(h)

Spec == Init /\ [][Next]_vars

-----------------------------------------------------------------------------
(* Properties.                                                              *)

\* No write is lost: every ref in the store holds what the most recent
\* write of that ref (by SetManifests, SetManifest or DeleteManifest) put
\* there, although each of them writes back a whole snapshot.
RefsMatchLastWrite ==
    \A r \in db.repos : db.refs[r] = lastWrite[r]

\* The refs spec section 4.F gives a pushed tag.
SpecTagRefs(tag) ==
    CASE tag = "run" -> {"staged", "run"}
      [] tag = "latest" -> {"staged"}
      [] OTHER -> {tag}

\* Tag mapping (spec property 7): when a PUT to a valid repository is
\* answered, the refs of that repository are those it had before with the
\* digest ref and the refs of the tag mapping ("latest" -> staged, "run" ->
\* staged and run) set to the pushed manifest, and nothing else changed.
TagMapping ==
    \A h \in Handlers :
        LET r == pc[h].repo IN
        (pc[h].step = "respond" /\ RepoService[r] # Invalid) =>
            db.refs[r] = [x \in Refs |->
                            IF x \in SpecTagRefs(pc[h].tag) \cup {DigestRef[pc[h].blob]}
                            THEN pc[h].blob ELSE pre[h][x]]

\* Repo-name constraint (spec property 6): a PUT to a path that is not
\* "<svc>/<container>" leaves the store unchanged, so no such repository is
\* ever indexed.
InvalidRepoNeverIndexed ==
    \A r \in db.repos : RepoService[r] # Invalid

\* Monotonicity (spec property 8.2): no step lowers a service's
\* LatestGeneration while the service exists.
LatestNeverDecreases ==
    [][\A s \in db.svcs \cap db'.svcs : db'.latest[s] >= db.latest[s]]_vars

=============================================================================
