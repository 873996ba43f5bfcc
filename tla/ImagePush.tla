------------------------------ MODULE ImagePush ------------------------------
(***************************************************************************)
(* "yeet run <image>" of a local container image (cmd/yeet/yeet.go        *)
(* tryRunDocker and pushImage) against the catch's registry.  pushImage   *)
(* turns the image reference into the repository it pushes to: it cuts    *)
(* the reference at its last ':' (to drop a tag), drops a first path      *)
(* component containing '.' or ':' (a registry host) and refuses a path   *)
(* with more than one '/'.  The registry stages the image for the         *)
(* service named by a "service/container" repository (the tag is          *)
(* "latest") and refuses every other repository; then yeet runs "stage    *)
(* commit" for the service it was asked to deploy.                        *)
(*                                                                         *)
(* A reference is a sequence of '/'-separated components.  A component is *)
(* a name with two flags: whether it contains a '.', and whether a        *)
(* ":suffix" follows the name (a port on a host, a tag on the last        *)
(* component).                                                             *)
(***************************************************************************)
EXTENDS Naturals, Sequences

CONSTANTS
    Names,      \* component names
    Services    \* the services yeet may be asked to deploy (names among Names)

Comps == [n : Names, dot : BOOLEAN, colon : BOOLEAN]

\* Image references of up to three components: a ':' may only end the
\* first component (a port, when more follow) or the last (a tag).
Images ==
    { img \in UNION {[1..k -> Comps] : k \in 1..3} :
        \A i \in DOMAIN img : img[i].colon => i \in {1, Len(img)} }

\* A service's repository component: a plain name.
Plain(n) == [n |-> n, dot |-> FALSE, colon |-> FALSE]

\* strings.LastIndex(repo, ":"): the component holding the last ':', or 0.
LastColon(img) ==
    IF \E i \in DOMAIN img : img[i].colon
    THEN CHOOSE i \in DOMAIN img :
            img[i].colon /\ \A j \in DOMAIN img : img[j].colon => j <= i
    ELSE 0

\* Mutant: the first component is taken for a host whenever two parts remain.
StripHost_Always(repo) ==
    IF Len(repo) >= 2 THEN Tail(repo) ELSE repo

\* repo = repo[:i]: the text up to the last ':' (components after it go,
\* and the component holding it loses its suffix).
StripTag(img) ==
    LET i == LastColon(img) IN
    IF i = 0 THEN img
    ELSE [SubSeq(img, 1, i) EXCEPT ![i].colon = FALSE]

\* strings.SplitN(repo, "/", 2): a first part containing '.' or ':' is a
\* registry host and is dropped.
StripHost(repo) ==
    IF Len(repo) >= 2 /\ (repo[1].dot \/ repo[1].colon) THEN Tail(repo) ELSE repo

\* The repository pushImage derives from an image reference.
PushRepo(img) == StripHost(StripTag(img))

VARIABLES
    image,    \* the image argument
    svc,      \* the service yeet deploys (getService)
    exists,   \* imageExists: docker knows the image locally
    staged,   \* repositories' services with a staged, uncommitted image
    pushed,   \* the repository pushImage pushed to, or <<>>
    step,     \* "exists", "push", "commit", "done"
    result    \* "none", "notimage" (tryRunDocker returns false), "error", "ok", "failed"

vars == <<image, svc, exists, staged, pushed, step, result>>

Finish(r) == step' = "done" /\ result' = r

\* runRun has found no file of that name and calls tryRunDocker; a
\* service may already have a staged image from an earlier push.
Init ==
    /\ image \in Images
    /\ svc \in Services
    /\ exists \in BOOLEAN
    /\ staged \in SUBSET {Plain(n) : n \in Services}
    /\ pushed = <<>>
    /\ step = "exists"
    /\ result = "none"

\* tryRunDocker: an image docker does not know is not an error, runRun
\* reports an unknown payload.
ImageExists ==
    /\ step = "exists"
    /\ IF exists THEN step' = "push" /\ result' = result ELSE Finish("notimage")
    /\ UNCHANGED <<image, svc, exists, staged, pushed>>

\* pushImage: a path with more than one '/' is refused; otherwise docker
\* tags and pushes <host>/<repo>:latest.  The registry's SetManifest
\* stages the image for the service of a "service/container" repository
\* and ignores any other, whose push then fails in OnImageReceived.
PushImage ==
    LET repo == PushRepo(image) IN
    /\ step = "push"
    /\ IF Len(repo) = 2
       THEN /\ pushed' = repo
            /\ staged' = staged \cup {repo[1]}
            /\ step' = "commit"
            /\ result' = result
       ELSE /\ pushed' = IF Len(repo) > 2 THEN pushed ELSE repo
            /\ Finish("error")
            /\ UNCHANGED staged
    /\ UNCHANGED <<image, svc, exists>>

\* tryRunDocker: "ssh <svc>@host stage commit"; the commit fails when
\* nothing is staged for svc.
StageCommit ==
    /\ step = "commit"
    /\ IF Plain(svc) \in staged
       THEN Finish("ok") /\ staged' = staged \ {Plain(svc)}
       ELSE Finish("failed") /\ UNCHANGED staged
    /\ UNCHANGED <<image, svc, exists, pushed>>

Next == ImageExists \/ PushImage \/ StageCommit

Spec == Init /\ [][Next]_vars

-----------------------------------------------------------------------------
(* Properties.  Docker's reference grammar is the reference definition: a  *)
(* first component of several that contains '.' or ':' or is "localhost"   *)
(* is the registry host, and a ':' on the last component starts the tag.  *)

RefHasDomain(img) ==
    Len(img) >= 2 /\ (img[1].dot \/ img[1].colon \/ img[1].n = "localhost")

\* The repository path of a reference, without host and tag.
RefPath(img) ==
    LET p == IF RefHasDomain(img) THEN Tail(img) ELSE img IN
    [p EXCEPT ![Len(p)].colon = FALSE]

Done == step = "done"

\* "yeet run svc/container[:tag]" of an image docker knows deploys it: the
\* push stages it under the service and the stage commit succeeds.
ServiceImageDeploys ==
    Done /\ exists /\ Len(image) = 2 /\ image[1] = Plain(svc) => result = "ok"

\* pushImage pushes an image into the repository its reference names (the
\* path without registry host and tag), or refuses it.
PushedRepoIsReferencePath ==
    Done /\ pushed # <<>> => pushed = RefPath(image)

\* When "yeet run <image>" reports success, the image it pushed went to
\* the repository of the service it deployed (<svc>/<container>, spec 7).
RunDeploysImageToService ==
    Done /\ result = "ok" => pushed[1] = Plain(svc)

=============================================================================
