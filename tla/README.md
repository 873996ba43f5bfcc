# Formal models of yeet / catch

TLA+ models of the catch daemon (`src/pkg/catch`, `src/unnamed/part_016..018`),
of the container registry front end it embeds
(`src/tempfork/google/go-containerregistry/pkg/registry/manifest.go`), of the
WebSocket adapter (`src/pkg/websocketutil`), of the web UI's service context
(`src/pkg/catch/web/context/ServiceContext.js`), of the payload classifier
(`src/pkg/ftdetect`) and of the `yeet` client's deploy paths
(`src/cmd/yeet/yeet.go`). TLC checks the runs listed in `PROJECT.json` and
TLAPS checks the theorems of `*Proofs.tla`.

## The system and how its parts interact

catch is a daemon that runs on each host. Its clients are:
* the `yeet` CLI over SSH;
* the web UI over the API;
* `docker push` against the internal registry.

They drive per-service operations:

* **Authorization.** The front ends that reach the daemon's state gate a caller with `verifyCaller` (`catch.go:246`), which checks the peer against the tailnet:
  * the SSH server's `NoClientAuthHandler`;
  * the API's `authZ` wrapper;
  * the registry's `ServeHTTP`. It lets loopback callers read without the check and gives a loopback write 405.

  The web front end (`WebMux`, `part_013`, served on the tailnet's `:443` in `part_022`) mounts the registry at `/v2/` and the API at `/api/v0/`, which keep their gates. Its `/` handler serves the embedded web UI files to every caller with no check. The specification (4.J) puts every endpoint, `/` included, under one authenticating mux; the model keeps the code's behaviour.

  An accepted SSH session goes to SFTP, or to the command handler. The command handler takes the service name from the SSH user (`serviceAndUser`).
* **Generation store and lifecycle commands.** A service has a selected `Generation`, a `LatestGeneration`, a staged generation, and the artifact files of the last `maxGenerations` generations. The commands that change them are:
  * `run`/install, and `stage`/`commit` through the installer;
  * `rollback`, which is `MutateService` followed by a separate `InstallGen`;
  * `start` and `stop`;
  * `edit --config`, which reads the record, waits for the editor and writes the whole record back;
  * `remove`, which runs `runner.Remove`, then `IsServiceRunning`, then `RemoveAll`, then the tailscale device and store deletions. Each call after the status check can fail, and `RemoveService` then returns with the store entry kept.

  Several SSH sessions run these commands at once.
* **Event bus.** The heartbeat and `RemoveService` call `PublishEvent`. It holds a mutex while it sends on each listener's unbuffered channel. The listeners are the `events` SSH command and the `/api/v0/events` WebSocket handler.
* **Registry.** A manifest PUT runs `RepoExists`/`SetManifests`, then `SetManifest(digest)`, then `SetManifest(tag)`, then `OnImageReceived`. Each `SetManifest*` call is a `getDB` followed by a `DB.Set` of the whole database, and stages (tag `latest`) or installs (tag `run`) a compose file.
* **Exec terminal.** `handleExec` wraps the socket in `websocketutil.ConnReadWriter`. Its `handleReads` goroutine pumps messages into the buffered `readCh`, and the command reads its stdin from `readCh`. A resize handler is installed after the pump starts. The deferred `Close` closes the socket and `readCh`.
* **Web UI service context.** The page opens the `/api/v0/events` socket and fetches the service list once. Each event is applied to its list. A socket that closes or errs schedules a reconnect.
* **yeet client.** `yeet run` of a file classifies it (`ftdetect`), uploads it to the stage route, and runs `stage commit` in a second session. `yeet run` of a docker image pushes it to the registry and runs `stage commit`.

## Modules

| Module | Models | State and actions ↔ code |
|---|---|---|
| `ServiceLifecycle` | generation store, lifecycle commands, `edit --config` | `present`, `gen`, `latest`, `staged` = the service record; `files[s][g]` = artifacts on disk; `unit`/`active` = the supervisor; `pc[c]` = session c's place between the separate calls of rollback, remove and edit; `snap[c]` = the generation fields of the record an editor holds |
| `YeetDeploy` | `yeet run <file>` composed with `ServiceLifecycle` | the client's upload and its later commit session |
| `EventBus` | event bus, heartbeat, subscribers | `holder` = owner of `eventListeners.mu`; `ppc/pending/target` = a publisher inside its send loop; `lstate` = a subscriber's place in its select loop |
| `Registry` | manifest PUT and DELETE handlers | `db` = the database; `snap[h]` = handler h's `getDB` copy; `pc[h]` = its place in the PUT/DELETE sequence; `lastWrite` = a history variable |
| `Authz` | `verifyCaller`, the four front ends' gates, SSH session routing | one request: the node, the caller (with loopback and lookup failures), the transport, the method, the SSH user; one action per gate, `VerifyCaller`, `HandleSession` |
| `Classifier` | `ftdetect` `detect()` | one step per detector over an abstract file, for every host GOOS/GOARCH |
| `WebSocketConn` | `ConnReadWriter` with `handleExec` | the socket's inbox, the pump's `rpc`, `readCh`, whether it is closed, the session's `spc` and input |
| `ImagePush` | `yeet run <image>`: `pushImage`'s reference rewriting, staging, `stage commit` | the image reference as a sequence of components |
| `ServiceContext` | `ServiceContext.js`: `connectWebSocket`, its handlers, `handleReconnect`, the initial fetch, the reducer | `sock[i]` = state of WebSocket object i; `cur` = `wsRef.current`; `timers` = pending `setTimeout`s; `q[i]` = events sent on socket i; `fetchSt`/`snap` = the fetch; `ui` = the reducer's services |
| `*Proofs` | TLAPS proofs | |
| `MC_*` | TLC instances: model values, symmetry | |

Every action is one call of the code that changes shared state. A command made
of several such calls is split into several actions. The code of the installer
and the database store is not in `src/`, so `Promote` and `RetainLast` follow
the specification's installer pipeline; they are marked `spec_modelled` in
`PROJECT.json`. The network closing a socket in `ServiceContext` is modelled
from the specification in the same way; its service changes follow
`RemoveService`, the only code that publishes a service event
(`ServiceDeleted`): a creation publishes nothing.
The "map" of `PROJECT.json` gives the source lines of every definition.

Data is abstracted to what the properties tell apart:
* payloads, clients, handlers and blobs are model values;
* an event is a service and a kind;
* an image reference is a sequence of components with "has a dot" and "has a `:suffix`" flags;
* a tailnet node is its tags and its user;
* an SSH user is the sequence of its `@`-separated parts.

## Runs

| Run | Checks | Result |
|---|---|---|
| `eventbus` | `ExactlyOnceInOrder` | pass, 32,644 states |
| `registry` | `TagMapping` (one request at a time) | pass, 80,674 states |
| `classifier` | `BinaryForHostOS`, `ScriptsRecognised` | pass, 1,185 states |
| `websocket` | `KeystrokesInOrder`, `PeerCloseEndsInput` | pass, 6,376 states |
| `authz` | `AccessControl` | pass, 1,347,360 states |
| `servicecontext` | `AtMostOneLiveSocket`, `AlwaysReconnects` | pass, 36,069 states |
| `edit_config` | `GenerationHistoryPreserved` over every lifecycle command | **violated** |
| `eventbus_blocking` | `PublishCompletes` | **violated** |
| `websocket_panic` | `NoSendOnClosedChannel` | **violated** |
| `registry_lostref` | `RefsMatchLastWrite` with two concurrent handlers | **violated** |
| `image_service` | `RunDeploysImageToService` | **violated** |
| `reconnect_churn` | `ReconnectSettles` | **violated** |

What the violations show (the "findings" of `PROJECT.json`):

* **`edit --config` rolls generations back** (`tty.go:650`). The edit reads the record, waits for the editor for as long as the user likes, and writes the whole record back (`*s = s2`). A deploy by another session in the meantime has its `LatestGeneration` lowered again, against the specification's monotone generations (8.2), and the next deploy overwrites that generation's files.
* **Event-bus deadlock** (`catch.go:123`). A subscriber whose context ends leaves its `select`. A publisher holding the mutex then blocks on its send, and the subscriber's deferred `RemoveEventListener` waits for the mutex. Every later `PublishEvent` blocks too. This holds even under weak fairness of every goroutine.
* **Send on a closed channel** (`websocketutil.go:67`). `Close` closes `readCh` while `handleReads` holds a message in its `select`. The send case panics and takes down the catch process.
* **Registry lost update** (`part_018:254`). Each `SetManifest` writes back the whole database it read, so two concurrent PUTs erase each other's refs.
* **`yeet run <image>` ignores its service** (`yeet.go:707`). `pushImage` pushes `other/app` into `other`'s repository. The following `stage commit` of the requested service commits whatever that service had staged before, and reports success.
* **Reconnect churn in the web UI** (`ServiceContext.js:165`). After a single error:
  1. `onerror` closes the socket and calls `handleReconnect`;
  2. the socket's close event calls `handleReconnect` again;
  3. each of the two timers runs `connectWebSocket`, which closes the live socket;
  4. that socket's `onclose` schedules the next reconnect.

  Two reconnects therefore stay pending forever, even when the network never fails again. A page that sees only clean closes settles.

Further configurations are kept beside these runs for reproduction. Each
states a property that TLC finds violated:
* `MC_ServiceContext_Stale.cfg` (`UIConverges`): an event published before the socket opens is lost, and nothing fetches again.
* `MC_ServiceLifecycle_RemoveRunning.cfg` (`RemoveOnlyStopped`): an install between `RemoveService`'s running check and its `RemoveAll`.
* `MC_ServiceLifecycle_RemoveFail.cfg` (`ArtifactIntegrity`): a `RemoveService` call that fails after `RemoveAll` (a later `RemoveAll`, the tailscale client, `DeleteDevice` or `MutateData`) leaves a stored service without its files. The specification calls removal best-effort (7) and asks for artifact integrity (8.1); the model shows the two meet here.
* `MC_ServiceLifecycle_RollbackRace.cfg` (`UnitMatchesGeneration`): an install between rollback's `MutateService` and its `InstallGen`.
* `MC_Registry_RepoName.cfg` and `MC_Registry_Generation.cfg`.
* `Authz_Spec.cfg` and `Authz_Routing.cfg`: the differences from the specification's Authorizer and its user routing.
* `WebSocketConn_Resize.cfg`: a resize before `SetReadHandler` reaches the command as input.
* `Classifier_Arch.cfg`, `Classifier_Darwin.cfg`, `Classifier_Compose.cfg`.
* `ImagePush_Reference.cfg`: `host:port/app` loses `/app`.

The "hazards" of `PROJECT.json` name the code line of each.

Each property of a passing run has a mutant in `PROJECT.json`. A mutant is a
plausible bug in a mapped definition (a dropped guard, a missing close, a
missing reconnect, an off-by-one), and TLC finds it violating the property.

### Bounds

* **Lifecycle:** one service, two sessions, two payloads, `MaxGen = 3`, `maxGenerations = 2`. An edit can stay open across a deploy of the other session, which is the violation `edit_config` finds.
* **Event bus:** two publishers, an `--all` listener, a listener filtered to one service, and three events.
* **Registry:** two service repositories and an invalid one, two blobs, the tags `latest` and `run`, and four requests, handled one at a time in the `registry` run (its question is the tag mapping of a PUT) and two at a time in `registry_lostref`.
* **Authz:** two tags and two users, which give tagged and untagged nodes with overlapping and disjoint tags and same and different users. SSH users have up to three parts over `{"", "web"}`. The run enumerates every request.
* **WebSocket:** three browser messages and a `readCh` of one slot, so the pump has to wait on a full buffer.
* **ServiceContext:** two services, three socket slots, two service changes, two network faults and three pending timers. Three slots allow a live socket, a closing one and a new one. Two faults allow a failure during a reconnect.

Symmetry is used only over interchangeable model values (clients, payloads).
`CHECK_DEADLOCK FALSE` appears where the bounds make the system stop once they
are used up: requests, events, messages, or the one request of `Authz`. The
real daemon keeps serving, and the page keeps waiting for events.

### Fairness

* **`EventBus!FairSpec` and `WebSocketConn!FairSpec`** put weak fairness on every goroutine step. The Go runtime schedules every runnable goroutine, a channel operation completes once its partner is ready, and a free mutex is taken. The actions of the client, the browser and the command (leaving, sending, closing, the command's exit) are not forced.
* **`ServiceContext!FairSpec`** puts weak fairness on:
  * the browser's dispatch of a due callback: `onopen`, `onclose`, `onmessage`, and a timer firing;
  * the daemon's acceptance of the socket;
  * the answer to the fetch.

  Service changes, failures and drops are not forced.

## Proofs (TLAPS)

Eleven theorems are proved for every value of the constants, one of them
under a hypothesis that the runs show to be necessary:

* **`ServiceLifecycleProofs!TypeCorrect`**: `Spec => []TypeOK` under the hypothesis `ConstantsAssumption` (at least one service, `MaxGen` a positive natural), failing removals and `edit --config` included. There is one lemma per action, with a case per branch of `RemoveDirs`, `RemoveEntry` and `EditSave`.
* **`AuthzProofs!AccessControlHolds`**: `Spec => []AccessControl`, over all four front ends. `AccessControl` is about the finished request only, so it is not inductive. `IInv` adds what each step has established:
  * a request at a gate or at `verifyCaller` has no verdict and no outcome;
  * the registry sends only parsable non-loopback callers to `verifyCaller`;
  * an SSH session exists only after an `allow` over SSH.

  There is one lemma per gate and step, with a case split on the registry's branches and on the verdict.
* **`ServiceContextProofs!AtMostOneLiveSocketHolds`**: `Spec => []AtMostOneLiveSocket`. The strengthening is that every live socket is `wsRef.current`:
  * failures, drops and close events only take sockets out of the live states;
  * `Accept` keeps the socket's identity;
  * a timer's `connectWebSocket` closes `wsRef.current` before it stores the new socket there.

  The proof of the timer step splits on whether `wsRef.current` was live. It needs `NoSock \notin Slots` (`ServiceContextAssumption`).
* **`RegistryProofs!TypeCorrect`**: `Spec => []TypeOK` of the registry, for any number of handlers. `TypeOK` bounds `LatestGeneration` by `MaxRequests`, in the store and in every snapshot. It is not inductive, because a "run" PUT installs one generation after its request was counted. `LatestBound` strengthens it: in the store and in every snapshot, `latest[s]` plus the number of handlers with a pending "run" install for `s` (`Pending(s)`) is at most the number of requests served. There is one lemma per action, and counting lemmas for the pending set.
* **`RegistrySerialProofs!TagMappingHolds`**: `Spec => []TagMapping`, assuming `Handlers = {h}`. With two handlers, TLC finds the lost update of `registry_lostref`, so the hypothesis is necessary: the registry is correct only while requests are handled one at a time. `SerialInv(h)` is the inductive invariant; it includes `RefsMatchLastWrite`, because a PUT's answer is right only if no earlier write was lost:
  * the handler's snapshot is the store it will write back (`SnapFresh`);
  * a repository not in the store was never written (`UnindexedEmpty`);
  * the refs of a valid PUT's repository are `pre` with what its `SetManifest` calls have written so far (`PutProgress`).

  The set steps use one lemma about `SetDB` on a fresh snapshot (`SetDBFacts`).

* **`EventBusProofs!TypeCorrect`**: `Spec => []TypeOK` of the event bus. `TypeOK` alone is not inductive: `Deliver` sends the last event of the log. The strengthening adds three facts. A publisher is in its fan-out exactly when it holds `eventListeners.mu`. A fan-out has a non-empty log. The log stays within `MaxEvents`.
* **`WebSocketConnProofs!TypeCorrect`**: `Spec => []TypeOK` of the exec terminal, including that `readCh` never holds more than `ReadChCap` messages. `TypeOK` is inductive. The proof splits it into the message part (SMT) and the flags (Zenon). It needs `MaxMsgs >= 1` in `WebSocketAssumption`, because `Init`'s placeholder `rdata` (nothing read yet) is message 1.
* **`EventBusProofs!DeliveredByPositionHolds`**: `Spec => []DeliveredByPosition`. This is `ExactlyOnceInOrder` (which the `eventbus` run checks) stated by positions in the log instead of through `SelectSeq`. Every event a subscriber received is the one at its position `id`, published after its `AddEventListener`, and accepted by its filter. The positions come in increasing order. No accepted event before one it received is missing. Once no publisher holds the mutex, every accepted event since its registration has arrived. The inductive invariant is the type invariant's `IInv` plus `DRest`:
  * the log's ids are its positions (`LogIds`);
  * registered subscribers are live, new ones have received nothing, and `addedAt` lies within the log;
  * the shape of a fan-out (`FanoutShape`): pending subscribers are registered, and the current target is registered (or `NoOne`), out of `pending`, and accepted by its filter;
  * completeness when no fan-out runs (`QuietComplete`);
  * completeness during a fan-out (`FanoutComplete`): a registered subscriber has the current event exactly when the publisher has already visited it and its filter accepts the event.

  `FanoutComplete` is what `RemoveEventListener` and `AddEventListener` in the middle of a fan-out need. There is one lemma per action, and three sequence lemmas: `HasIdAppend`, `PrefixPublish` and `PrefixDeliver`.
* **`WebSocketConnProofs!KeystrokesByPositionHolds`**: `Spec => []KeystrokesByPosition`. This is `KeystrokesInOrder` (which the `websocket` run checks) stated by positions in `sent`. The inductive invariant `WInv` follows a message along the pipe:
  * `inbox` is the suffix of `sent` after the `Front` messages read so far;
  * the message `handleReads` holds is `sent[Front]`;
  * `readCh` and `input` are increasing runs of `sent`, with every id in `input` below every id in `readCh`;
  * while the session reads, every keystroke up to `Front` is in `input` or `readCh`, or is the one held (`KeysOnTheWay`).

  The select may drop a held message only when `rw.ctx` is done. By `CtxDoneWhy`, that happens only after `handleReads` has exited or the session has returned. A swallowed resize is not a keystroke. Each action has its own lemma, and so does each branch of `ReadMessage`, `SendToReadCh` and `Read`.
* **`ClassifierProofs!BinaryForHostOSHolds`** and **`ClassifierProofs!ScriptsRecognisedHolds`**: `Spec => []BinaryForHostOS` and `Spec => []ScriptsRecognised`, for every set of systems, architectures and CPUs. Both speak of the result only. `CInv` states what each detector step has established:
  * `isSameArch` runs only on a binary in the host's format;
  * only it returns `Binary`;
  * a four-byte shebang file is still on the path `binary -> zstd -> script`, or has been returned as `Script`.

The registry proofs rest on `RegistryAssumption`. It asks for non-empty sets of repositories and blobs, and a finite set of handlers, which the server's goroutines are.

These stay with TLC:
* **Liveness and `ENABLED`:** `PublishCompletes`, `PeerCloseEndsInput`, `AlwaysReconnects`, `ReconnectSettles` and `UIConverges`.
* **`ExactlyOnceInOrder` and `KeystrokesInOrder` in their `SelectSeq` form:** what `SelectSeq` returns after an `Append` needs induction over the sequence, which the provers cannot do here. Their positional restatements, `DeliveredByPosition` and `KeystrokesByPosition`, are proved above; the runs check the `SelectSeq` forms. The step from the positional form to the `SelectSeq` form is what remains model-checked only.

## Not modelled

See "components" in `PROJECT.json`:
* the systemd and docker compose runners: they are abstracted to `unit`/`active`, since their `systemctl` and `docker` invocations are I/O;
* `status.js`: a pure presentation function;
* the database migrations;
* the web development server and the examples;
* host listing, installation and preferences in the `yeet` client.

Known inconsistency in the specification: scenario S1 says staging sets
`latest_generation = 1`, while section 4.D step 8 bumps latest only on
promote. The model follows 4.D.
