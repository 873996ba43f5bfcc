---------------------------- MODULE RegistryProofs ----------------------------
(***************************************************************************)
(* Proofs about the registry's manifest handlers (Registry): the store is *)
(* well typed for any number of concurrent requests, and with one request *)
(* at a time no write is lost and a PUT maps its tag as the specification *)
(* says.                                                                   *)
(***************************************************************************)
EXTENDS Registry, FiniteSetTheorems, TLAPS

\* The steps of a PUT before its second SetManifest has run the installer.
PutSteps == {"put", "sms_get", "sms_set", "sm_get", "sm_set", "sm_inst"}

\* Request h is a "run" PUT to a repository of service s whose commit (the
\* installer of its second SetManifest call) has not happened yet.
PendingCommit(h, s) ==
    /\ pc[h].step \in PutSteps
    /\ pc[h].tag = "run"
    /\ RepoService[pc[h].repo] = s

Pending(s) == {h \in Handlers : PendingCommit(h, s)}

\* Every commit promotes a generation for a request already counted in
\* served, and a request commits once: neither the store nor any snapshot
\* a request holds has a LatestGeneration above the requests served less
\* the commits still to come.
LatestBound ==
    \A s \in Services :
        \A d \in {db} \cup {snap[h] : h \in Handlers} :
            d.latest[s] + Cardinality(Pending(s)) <= served

\* A SetManifest past its path check is for a "service/container" path.
ValidAtInstall ==
    \A h \in Handlers :
        pc[h].step \in {"sm_set", "sm_inst"} => RepoService[pc[h].repo] \in Services

-----------------------------------------------------------------------------
(* Types.  DBw is DBs with LatestGeneration any natural: the bound on it   *)
(* comes from LatestBound.                                                  *)

DBw == [repos : SUBSET Repos,
        refs : [Repos -> [Refs -> Blobs \cup {NoRef}]],
        svcs : SUBSET Services,
        latest : [Services -> Nat]]

TypeW ==
    /\ db \in DBw
    /\ snap \in [Handlers -> DBw]
    /\ pc \in [Handlers -> Request]
    /\ pre \in [Handlers -> [Refs -> Blobs \cup {NoRef}]]
    /\ lastWrite \in [Repos -> [Refs -> Blobs \cup {NoRef}]]
    /\ served \in 0..MaxRequests

\* The inductive invariant: the weak types, the path check, the bound.
IInv == TypeW /\ ValidAtInstall /\ LatestBound

LEMMA HandlerSetsFinite ==
  \A S \in SUBSET Handlers : IsFiniteSet(S) /\ Cardinality(S) \in Nat
  BY RegistryAssumption, FS_Subset, FS_CardinalityType

LEMMA TypeOKW == TypeOK => TypeW
  BY DEF TypeOK, TypeW, DBs, DBw

LEMMA FunRange ==
  ASSUME NEW f, NEW S, NEW T, NEW U, f \in [S -> T], \A x \in S : f[x] \in U
  PROVE  f \in [S -> U]
  OBVIOUS

LEMMA DBwToDBs ==
  ASSUME NEW d \in DBw, d.latest \in [Services -> 0..MaxRequests]
  PROVE  d \in DBs
  BY DEF DBw, DBs

LEMMA WFromBound == TypeW /\ LatestBound => TypeOK
  <1> SUFFICES ASSUME TypeW, LatestBound PROVE TypeOK
    OBVIOUS
  <1>1. \A s \in Services : Cardinality(Pending(s)) \in Nat
    BY HandlerSetsFinite DEF Pending
  <1>2. ASSUME NEW d \in {db} \cup {snap[h] : h \in Handlers} PROVE d \in DBs
    <2>1. d \in DBw
      BY DEF TypeW
    <2>2. ASSUME NEW s \in Services PROVE d.latest[s] \in 0..MaxRequests
      <3>1. d.latest[s] \in Nat
        BY <2>1 DEF DBw
      <3>2. d.latest[s] + Cardinality(Pending(s)) <= served
        BY DEF LatestBound
      <3>3. served \in 0..MaxRequests /\ Cardinality(Pending(s)) \in Nat
        BY <1>1 DEF TypeW
      <3> QED
        BY <3>1, <3>2, <3>3, RegistryAssumption
    <2>3. d.latest \in [Services -> 0..MaxRequests]
      BY <2>1, <2>2, FunRange DEF DBw
    <2> QED
      BY <2>1, <2>3, DBwToDBs
  <1>3. db \in DBs /\ snap \in [Handlers -> DBs]
    BY <1>2 DEF TypeW
  <1> QED
    BY <1>3 DEF TypeOK, TypeW

LEMMA IdleReqType == IdleReq \in Request
  BY RegistryAssumption DEF IdleReq, Request, Refs, Steps

LEMMA WithRefsType ==
  ASSUME NEW d \in DBw, NEW r \in Repos, NEW xs \in SUBSET Refs, NEW b \in Blobs
  PROVE  WithRefs(d, r, xs, b) \in DBw /\ WithRefs(d, r, xs, b).latest = d.latest
  <1> DEFINE base == IF r \in d.repos THEN d.refs[r] ELSE EmptyRefs
  <1>1. base \in [Refs -> Blobs \cup {NoRef}]
    BY DEF DBw, EmptyRefs
  <1>2. [x \in Refs |-> IF x \in xs THEN b ELSE base[x]] \in [Refs -> Blobs \cup {NoRef}]
    BY <1>1
  <1> QED
    BY <1>2 DEF WithRefs, DBw

-----------------------------------------------------------------------------
(* The commits still to come.                                               *)

\* A step of request h leaves every other request where it was.
OthersStay(h) == \A g \in Handlers \ {h} : pc'[g] = pc[g]

LEMMA PendingFinite ==
  ASSUME NEW s
  PROVE  /\ IsFiniteSet(Pending(s)) /\ Cardinality(Pending(s)) \in Nat
         /\ IsFiniteSet(Pending(s)') /\ Cardinality(Pending(s)') \in Nat
  <1>1. Pending(s) \in SUBSET Handlers /\ Pending(s)' \in SUBSET Handlers
    BY DEF Pending
  <1> QED
    BY <1>1, HandlerSetsFinite

LEMMA PendingFrame ==
  ASSUME NEW h \in Handlers, NEW s, OthersStay(h),
         PendingCommit(h, s)' <=> PendingCommit(h, s)
  PROVE  Pending(s)' = Pending(s)
  BY DEF Pending, PendingCommit, OthersStay

LEMMA PendingAdd ==
  ASSUME NEW h \in Handlers, NEW s, OthersStay(h)
  PROVE  Cardinality(Pending(s)') <= Cardinality(Pending(s)) + 1
  <1>1. Pending(s)' \subseteq Pending(s) \cup {h}
    BY DEF Pending, PendingCommit, OthersStay
  <1>2. IsFiniteSet(Pending(s) \cup {h})
        /\ Cardinality(Pending(s) \cup {h}) <= Cardinality(Pending(s)) + 1
        /\ Cardinality(Pending(s) \cup {h}) \in Nat
    <2>1. IsFiniteSet(Pending(s)) /\ Cardinality(Pending(s)) \in Nat
      BY PendingFinite
    <2>2. IsFiniteSet(Pending(s) \cup {h})
          /\ Cardinality(Pending(s) \cup {h}) =
             IF h \in Pending(s) THEN Cardinality(Pending(s)) ELSE Cardinality(Pending(s)) + 1
      BY <2>1, FS_AddElement
    <2> QED
      BY <2>1, <2>2
  <1>3. Cardinality(Pending(s)') <= Cardinality(Pending(s) \cup {h})
    BY <1>1, <1>2, FS_Subset
  <1> QED
    BY <1>2, <1>3, PendingFinite

LEMMA PendingRemove ==
  ASSUME NEW h \in Handlers, NEW s, OthersStay(h),
         PendingCommit(h, s), ~PendingCommit(h, s)'
  PROVE  Cardinality(Pending(s)') = Cardinality(Pending(s)) - 1
  <1>1. Pending(s)' = Pending(s) \ {h}
    BY DEF Pending, PendingCommit, OthersStay
  <1>2. h \in Pending(s)
    BY DEF Pending
  <1> QED
    BY <1>1, <1>2, PendingFinite, FS_RemoveElement

\* Every LatestGeneration the step leaves, in the store or a snapshot, is
\* at most one that was there before.
LatMono(s) ==
    \A d \in {db'} \cup {snap'[g] : g \in Handlers} :
        \E e \in {db} \cup {snap[g] : g \in Handlers} : d.latest[s] <= e.latest[s]

LEMMA BoundStep ==
  ASSUME LatestBound, TypeW, TypeW', NEW s \in Services, LatMono(s),
         Cardinality(Pending(s)') + served <= Cardinality(Pending(s)) + served'
  PROVE  \A d \in {db'} \cup {snap'[g] : g \in Handlers} :
            d.latest[s] + Cardinality(Pending(s)') <= served'
  <1> SUFFICES ASSUME NEW d \in {db'} \cup {snap'[g] : g \in Handlers}
               PROVE  d.latest[s] + Cardinality(Pending(s)') <= served'
    OBVIOUS
  <1>1. PICK e \in {db} \cup {snap[g] : g \in Handlers} : d.latest[s] <= e.latest[s]
    BY DEF LatMono
  <1>2. e.latest[s] + Cardinality(Pending(s)) <= served
    BY DEF LatestBound
  <1>3. d.latest[s] \in Nat /\ e.latest[s] \in Nat
    BY DEF TypeW, DBw
  <1>4. served \in Nat /\ served' \in Nat
    BY RegistryAssumption DEF TypeW
  <1> QED
    BY <1>1, <1>2, <1>3, <1>4, PendingFinite

\* The three ways a step treats the stores: it leaves them, it takes a
\* snapshot (getDB), or it writes back what it built from its snapshot.
LEMMA MonoSame ==
  ASSUME TypeW, NEW s \in Services, UNCHANGED <<db, snap>>
  PROVE  LatMono(s)
  <1> SUFFICES ASSUME NEW d \in {db'} \cup {snap'[g] : g \in Handlers}
               PROVE  \E e \in {db} \cup {snap[g] : g \in Handlers} : d.latest[s] <= e.latest[s]
    BY DEF LatMono
  <1>1. d \in {db} \cup {snap[g] : g \in Handlers}
    OBVIOUS
  <1>2. d.latest[s] \in Nat
    BY <1>1 DEF TypeW, DBw
  <1> QED
    BY <1>1, <1>2

LEMMA MonoGet ==
  ASSUME TypeW, NEW h \in Handlers, NEW s \in Services,
         db' = db, snap' = [snap EXCEPT ![h] = db]
  PROVE  LatMono(s)
  <1> SUFFICES ASSUME NEW d \in {db'} \cup {snap'[g] : g \in Handlers}
               PROVE  \E e \in {db} \cup {snap[g] : g \in Handlers} : d.latest[s] <= e.latest[s]
    BY DEF LatMono
  <1>1. d \in {db} \cup {snap[g] : g \in Handlers}
    BY DEF TypeW
  <1>2. d.latest[s] \in Nat
    BY <1>1 DEF TypeW, DBw
  <1> QED
    BY <1>1, <1>2

LEMMA MonoSet ==
  ASSUME TypeW, NEW h \in Handlers, NEW s \in Services,
         snap' = snap, db'.latest = snap[h].latest
  PROVE  LatMono(s)
  <1> SUFFICES ASSUME NEW d \in {db'} \cup {snap'[g] : g \in Handlers}
               PROVE  \E e \in {db} \cup {snap[g] : g \in Handlers} : d.latest[s] <= e.latest[s]
    BY DEF LatMono
  <1>1. CASE d = db'
    <2>1. snap[h].latest[s] \in Nat
      BY DEF TypeW, DBw
    <2> QED
      BY <1>1, <2>1
  <1>2. CASE d \in {snap[g] : g \in Handlers}
    <2>1. d.latest[s] \in Nat
      BY <1>2 DEF TypeW, DBw
    <2> QED
      BY <1>2, <2>1
  <1> QED
    BY <1>1, <1>2

-----------------------------------------------------------------------------
(* One step preserves IInv.                                                 *)

\* A step that keeps the types and ValidAtInstall, never raises a
\* LatestGeneration, and serves a request for each commit it adds.
LEMMA StepIInv ==
  ASSUME IInv, TypeW', ValidAtInstall',
         \A s \in Services :
            /\ LatMono(s)
            /\ Cardinality(Pending(s)') + served <= Cardinality(Pending(s)) + served'
  PROVE  IInv'
  <1>1. LatestBound'
    BY BoundStep DEF IInv, LatestBound
  <1> QED
    BY <1>1 DEF IInv

\* A step of request h that serves no request and leaves h's pending
\* commit as it was.
LEMMA QuietStep ==
  ASSUME IInv, NEW h \in Handlers, TypeW', ValidAtInstall', OthersStay(h),
         served' = served,
         \A s \in Services : PendingCommit(h, s)' <=> PendingCommit(h, s),
         \A s \in Services : LatMono(s)
  PROVE  IInv'
  <1> SUFFICES ASSUME NEW s \in Services
               PROVE  Cardinality(Pending(s)') + served <= Cardinality(Pending(s)) + served'
    BY StepIInv
  <1>1. Pending(s)' = Pending(s)
    BY PendingFrame
  <1>2. Cardinality(Pending(s)) \in Nat /\ served \in Nat
    BY PendingFinite DEF IInv, TypeW
  <1> QED
    BY <1>1, <1>2

\* Goto moves request h to step st and changes nothing else of it.
LEMMA GotoFacts ==
  ASSUME pc \in [Handlers -> Request], NEW h \in Handlers, NEW st \in Steps, Goto(h, st)
  PROVE  /\ pc' \in [Handlers -> Request]
         /\ OthersStay(h)
         /\ pc'[h] = [pc[h] EXCEPT !.step = st]
  BY DEF Goto, OthersStay, Request

\* pc'[h] = IdleReq and nothing else of pc changes.
LEMMA IdleFacts ==
  ASSUME pc \in [Handlers -> Request], NEW h \in Handlers, pc' = [pc EXCEPT ![h] = IdleReq]
  PROVE  /\ pc' \in [Handlers -> Request]
         /\ OthersStay(h)
         /\ \A s \in Services : ~PendingCommit(h, s)'
  BY IdleReqType DEF OthersStay, PendingCommit, IdleReq, PutSteps

LEMMA GotoFields ==
  ASSUME pc \in [Handlers -> Request], NEW h \in Handlers, NEW st \in Steps, Goto(h, st)
  PROVE  /\ pc' \in [Handlers -> Request]
         /\ OthersStay(h)
         /\ pc'[h].step = st /\ pc'[h].repo = pc[h].repo /\ pc'[h].tag = pc[h].tag
         /\ pc'[h].blob = pc[h].blob /\ pc'[h].k = pc[h].k
  <1>1. pc' \in [Handlers -> Request] /\ OthersStay(h) /\ pc'[h] = [pc[h] EXCEPT !.step = st]
    BY GotoFacts
  <1>2. pc[h] \in Request
    OBVIOUS
  <1> QED
    BY <1>1, <1>2 DEF Request

LEMMA PutCheckIInv ==
  ASSUME IInv, NEW h \in Handlers, PutCheck(h)
  PROVE  IInv'
  <1>1. pc' \in [Handlers -> Request] /\ OthersStay(h)
        /\ pc'[h].step \in {"sm_get", "sms_get"}
        /\ pc'[h].repo = pc[h].repo /\ pc'[h].tag = pc[h].tag
    <2> DEFINE st == IF pc[h].repo \in db.repos THEN "sm_get" ELSE "sms_get"
    <2>1. st \in Steps /\ st \in {"sm_get", "sms_get"} /\ Goto(h, st)
      BY DEF PutCheck, Steps
    <2>2. pc \in [Handlers -> Request]
      BY DEF IInv, TypeW
    <2>3. pc' \in [Handlers -> Request] /\ OthersStay(h) /\ pc'[h] = [pc[h] EXCEPT !.step = st]
      BY <2>1, <2>2, GotoFacts
    <2>4. pc[h] \in Request
      BY <2>2
    <2> QED
      BY <2>1, <2>3, <2>4 DEF Request
  <1>2. TypeW' /\ ValidAtInstall'
    BY <1>1 DEF PutCheck, IInv, TypeW, ValidAtInstall, OthersStay
  <1>3. \A s \in Services : PendingCommit(h, s)' <=> PendingCommit(h, s)
    BY <1>1 DEF PutCheck, PendingCommit, PutSteps
  <1>4. \A s \in Services : LatMono(s)
    BY MonoSame DEF PutCheck, IInv
  <1> QED
    BY <1>1, <1>2, <1>3, <1>4, QuietStep DEF PutCheck

LEMMA RespondIInv ==
  ASSUME IInv, NEW h \in Handlers, Respond(h)
  PROVE  IInv'
  <1>1. pc' \in [Handlers -> Request] /\ OthersStay(h) /\ \A s \in Services : ~PendingCommit(h, s)'
    BY IdleFacts DEF Respond, IInv, TypeW
  <1>2. \A s \in Services : ~PendingCommit(h, s)
    BY DEF Respond, PendingCommit, PutSteps
  <1>3. TypeW' /\ ValidAtInstall'
    BY <1>1, IdleReqType DEF Respond, IInv, TypeW, ValidAtInstall, OthersStay, IdleReq
  <1>4. \A s \in Services : LatMono(s)
    BY MonoSame DEF Respond, IInv
  <1> QED
    BY <1>1, <1>2, <1>3, <1>4, QuietStep DEF Respond

LEMMA SetManifestsGetIInv ==
  ASSUME IInv, NEW h \in Handlers, SetManifestsGet(h)
  PROVE  IInv'
  <1>1. pc' \in [Handlers -> Request] /\ OthersStay(h)
        /\ pc'[h].step = "sms_set" /\ pc'[h].repo = pc[h].repo /\ pc'[h].tag = pc[h].tag
    BY GotoFields DEF SetManifestsGet, IInv, TypeW, Steps
  <1>2. TypeW' /\ ValidAtInstall'
    BY <1>1 DEF SetManifestsGet, IInv, TypeW, ValidAtInstall, OthersStay
  <1>3. \A s \in Services : PendingCommit(h, s)' <=> PendingCommit(h, s)
    BY <1>1 DEF SetManifestsGet, PendingCommit, PutSteps
  <1>4. \A s \in Services : LatMono(s)
    BY MonoGet DEF SetManifestsGet, IInv
  <1> QED
    BY <1>1, <1>2, <1>3, <1>4, QuietStep DEF SetManifestsGet

\* DB.Set of a copy built by WithRefs from request h's snapshot.
LEMMA SetDBType ==
  ASSUME TypeW, NEW h \in Handlers, NEW r \in Repos, NEW xs \in SUBSET Refs, NEW b \in Blobs,
         SetDB(h, WithRefs(snap[h], r, xs, b), r, xs, b)
  PROVE  /\ db' \in DBw /\ db'.latest = snap[h].latest
         /\ lastWrite' \in [Repos -> [Refs -> Blobs \cup {NoRef}]]
  <1>1. snap[h] \in DBw
    BY DEF TypeW
  <1>2. WithRefs(snap[h], r, xs, b) \in DBw /\ WithRefs(snap[h], r, xs, b).latest = snap[h].latest
    BY <1>1, WithRefsType
  <1> QED
    BY <1>2 DEF SetDB, TypeW

LEMMA SetManifestsSetIInv ==
  ASSUME IInv, NEW h \in Handlers, SetManifestsSet(h)
  PROVE  IInv'
  <1>1. pc' \in [Handlers -> Request] /\ OthersStay(h)
        /\ pc'[h].step = "sm_get" /\ pc'[h].repo = pc[h].repo /\ pc'[h].tag = pc[h].tag
    BY GotoFields DEF SetManifestsSet, IInv, TypeW, Steps
  <1>2. pc[h].repo \in Repos /\ pc[h].blob \in Blobs
    BY DEF IInv, TypeW, Request
  <1>3. db' \in DBw /\ db'.latest = snap[h].latest
        /\ lastWrite' \in [Repos -> [Refs -> Blobs \cup {NoRef}]]
    BY <1>2, SetDBType DEF SetManifestsSet, IInv
  <1>4. TypeW' /\ ValidAtInstall'
    BY <1>1, <1>3 DEF SetManifestsSet, IInv, TypeW, ValidAtInstall, OthersStay
  <1>5. \A s \in Services : PendingCommit(h, s)' <=> PendingCommit(h, s)
    BY <1>1 DEF SetManifestsSet, PendingCommit, PutSteps
  <1>6. \A s \in Services : LatMono(s)
    BY <1>3, MonoSet DEF SetManifestsSet, IInv
  <1> QED
    BY <1>1, <1>4, <1>5, <1>6, QuietStep DEF SetManifestsSet

LEMMA SetManifestSetIInv ==
  ASSUME IInv, NEW h \in Handlers, SetManifestSet(h)
  PROVE  IInv'
  <1>1. pc' \in [Handlers -> Request] /\ OthersStay(h)
        /\ pc'[h].step = "sm_inst" /\ pc'[h].repo = pc[h].repo /\ pc'[h].tag = pc[h].tag
    BY GotoFields DEF SetManifestSet, IInv, TypeW, Steps
  <1>2. pc[h].repo \in Repos /\ pc[h].blob \in Blobs /\ CallRefs(h) \in SUBSET Refs
    BY RegistryAssumption DEF IInv, TypeW, Request, CallRefs, RefsFor, Refs
  <1>3. db' \in DBw /\ db'.latest = snap[h].latest
        /\ lastWrite' \in [Repos -> [Refs -> Blobs \cup {NoRef}]]
    BY <1>2, SetDBType DEF SetManifestSet, IInv
  <1>4. TypeW'
    BY <1>1, <1>3 DEF SetManifestSet, IInv, TypeW
  <1>5. ValidAtInstall'
    BY <1>1 DEF SetManifestSet, IInv, ValidAtInstall, OthersStay
  <1>6. \A s \in Services : PendingCommit(h, s)' <=> PendingCommit(h, s)
    BY <1>1 DEF SetManifestSet, PendingCommit, PutSteps
  <1>7. \A s \in Services : LatMono(s)
    BY <1>3, MonoSet DEF SetManifestSet, IInv
  <1> QED
    BY <1>1, <1>4, <1>5, <1>6, <1>7, QuietStep DEF SetManifestSet

\* AfterCall: the second SetManifest call, or the response.
LEMMA AfterCallFields ==
  ASSUME pc \in [Handlers -> Request], NEW h \in Handlers, AfterCall(h)
  PROVE  /\ pc' \in [Handlers -> Request]
         /\ OthersStay(h)
         /\ pc'[h].step = IF pc[h].k = 1 THEN "sm_get" ELSE "respond"
         /\ pc'[h].repo = pc[h].repo /\ pc'[h].tag = pc[h].tag
  <1>1. CASE pc[h].k = 1
    <2>1. pc' = [pc EXCEPT ![h].step = "sm_get", ![h].k = 2]
      BY <1>1 DEF AfterCall
    <2>2. pc[h] \in Request
      OBVIOUS
    <2> QED
      BY <1>1, <2>1, <2>2 DEF OthersStay, Request, Steps
  <1>2. CASE pc[h].k # 1
    BY <1>2, GotoFields DEF AfterCall, Steps
  <1> QED
    BY <1>1, <1>2

LEMMA SetManifestGetIInv ==
  ASSUME IInv, NEW h \in Handlers, SetManifestGet(h)
  PROVE  IInv'
  <1>0. pc \in [Handlers -> Request] /\ pc[h].repo \in Repos
    BY DEF IInv, TypeW, Request
  <1>1. CASE RepoService[pc[h].repo] = Invalid /\ AfterCall(h) /\ UNCHANGED snap
    \* An invalid path: no getDB, and the repository is of no service.
    <2>1. pc' \in [Handlers -> Request] /\ OthersStay(h)
          /\ pc'[h].step \in {"sm_get", "respond"}
          /\ pc'[h].repo = pc[h].repo /\ pc'[h].tag = pc[h].tag
      BY <1>0, <1>1, AfterCallFields
    <2>2. TypeW' /\ ValidAtInstall'
      BY <1>1, <2>1 DEF SetManifestGet, IInv, TypeW, ValidAtInstall, OthersStay
    <2>3. \A s \in Services : PendingCommit(h, s)' <=> PendingCommit(h, s)
      BY <1>1, <2>1, RegistryAssumption DEF PendingCommit, PutSteps
    <2>4. \A s \in Services : LatMono(s)
      BY <1>1, MonoSame DEF SetManifestGet, IInv
    <2> QED
      BY <2>1, <2>2, <2>3, <2>4, QuietStep DEF SetManifestGet
  <1>2. CASE RepoService[pc[h].repo] # Invalid /\ snap' = [snap EXCEPT ![h] = db]
             /\ Goto(h, "sm_set")
    <2>1. pc' \in [Handlers -> Request] /\ OthersStay(h)
          /\ pc'[h].step = "sm_set" /\ pc'[h].repo = pc[h].repo /\ pc'[h].tag = pc[h].tag
      BY <1>0, <1>2, GotoFields DEF Steps
    <2>2. RepoService[pc[h].repo] \in Services
      BY <1>0, <1>2, RegistryAssumption
    <2>3. TypeW' /\ ValidAtInstall'
      BY <1>2, <2>1, <2>2 DEF SetManifestGet, IInv, TypeW, ValidAtInstall, OthersStay
    <2>4. \A s \in Services : PendingCommit(h, s)' <=> PendingCommit(h, s)
      BY <1>2, <2>1 DEF SetManifestGet, PendingCommit, PutSteps
    <2>5. \A s \in Services : LatMono(s)
      BY <1>2, MonoGet DEF SetManifestGet, IInv
    <2> QED
      BY <2>1, <2>3, <2>4, <2>5, QuietStep DEF SetManifestGet
  <1> QED
    BY <1>1, <1>2 DEF SetManifestGet

\* Request h ends (IdleReq) or moves to one of the DELETE steps.
LEMMA DeleteMove ==
  ASSUME pc \in [Handlers -> Request], NEW h \in Handlers, NEW st \in {"del_get", "del_set"},
         \/ Goto(h, st)
         \/ pc' = [pc EXCEPT ![h] = IdleReq]
  PROVE  /\ pc' \in [Handlers -> Request]
         /\ OthersStay(h)
         /\ pc'[h].step \in {"del_get", "del_set", "idle"}
  <1>1. CASE Goto(h, st)
    BY <1>1, GotoFields DEF Steps
  <1>2. CASE pc' = [pc EXCEPT ![h] = IdleReq]
    BY <1>2, IdleFacts DEF IdleReq
  <1> QED
    BY <1>1, <1>2

LEMMA DeleteCheckIInv ==
  ASSUME IInv, NEW h \in Handlers, DeleteCheck(h)
  PROVE  IInv'
  <1>1. pc' \in [Handlers -> Request] /\ OthersStay(h)
        /\ pc'[h].step \in {"del_get", "del_set", "idle"}
    <2>1. pc \in [Handlers -> Request]
      BY DEF IInv, TypeW
    <2> QED
      BY <2>1, DeleteMove DEF DeleteCheck
  <1>2. TypeW' /\ ValidAtInstall'
    BY <1>1 DEF DeleteCheck, IInv, TypeW, ValidAtInstall, OthersStay
  <1>3. \A s \in Services : PendingCommit(h, s)' <=> PendingCommit(h, s)
    BY <1>1 DEF DeleteCheck, PendingCommit, PutSteps
  <1>4. \A s \in Services : LatMono(s)
    BY MonoSame DEF DeleteCheck, IInv
  <1> QED
    BY <1>1, <1>2, <1>3, <1>4, QuietStep DEF DeleteCheck

LEMMA DeleteGetIInv ==
  ASSUME IInv, NEW h \in Handlers, DeleteGet(h)
  PROVE  IInv'
  <1>1. pc' \in [Handlers -> Request] /\ OthersStay(h)
        /\ pc'[h].step \in {"del_get", "del_set", "idle"}
    <2>1. pc \in [Handlers -> Request]
      BY DEF IInv, TypeW
    <2> QED
      BY <2>1, DeleteMove DEF DeleteGet
  <1>2. TypeW' /\ ValidAtInstall'
    BY <1>1 DEF DeleteGet, IInv, TypeW, ValidAtInstall, OthersStay
  <1>3. \A s \in Services : PendingCommit(h, s)' <=> PendingCommit(h, s)
    BY <1>1 DEF DeleteGet, PendingCommit, PutSteps
  <1>4. \A s \in Services : LatMono(s)
    BY MonoGet DEF DeleteGet, IInv
  <1> QED
    BY <1>1, <1>2, <1>3, <1>4, QuietStep DEF DeleteGet

LEMMA DeleteSetIInv ==
  ASSUME IInv, NEW h \in Handlers, DeleteSet(h)
  PROVE  IInv'
  <1>0. pc \in [Handlers -> Request] /\ pc[h].repo \in Repos /\ pc[h].tag \in Refs
        /\ snap[h] \in DBw
    BY DEF IInv, TypeW, Request
  <1>1. pc' \in [Handlers -> Request] /\ OthersStay(h) /\ \A s \in Services : ~PendingCommit(h, s)'
    BY <1>0, IdleFacts DEF DeleteSet
  <1>2. db' \in DBw /\ db'.latest = snap[h].latest
    BY <1>0 DEF DeleteSet, DBw
  <1>3. TypeW' /\ ValidAtInstall'
    BY <1>0, <1>1, <1>2, IdleReqType DEF DeleteSet, IInv, TypeW, ValidAtInstall, OthersStay, IdleReq
  <1>4. \A s \in Services : ~PendingCommit(h, s)
    BY DEF DeleteSet, PendingCommit, PutSteps
  <1>5. \A s \in Services : LatMono(s)
    BY <1>2, MonoSet DEF DeleteSet, IInv
  <1> QED
    BY <1>1, <1>3, <1>4, <1>5, QuietStep DEF DeleteSet

\* A PUT is received: one request more is served, and at most one commit
\* more is to come.
LEMMA ReceivePutIInv ==
  ASSUME IInv, NEW h \in Handlers, NEW r \in Repos, NEW t \in Tags, NEW b \in Blobs,
         ReceivePut(h, r, t, b)
  PROVE  IInv'
  <1>0. TypeW
    BY DEF IInv
  <1>1. [step |-> "put", repo |-> r, tag |-> t, blob |-> b, k |-> 1] \in Request
    BY DEF Request, Steps, Refs
  <1>2. pc' \in [Handlers -> Request] /\ OthersStay(h) /\ pc'[h].step = "put"
    BY <1>0, <1>1 DEF ReceivePut, TypeW, OthersStay
  <1>3. pre' \in [Handlers -> [Refs -> Blobs \cup {NoRef}]]
    BY <1>0 DEF ReceivePut, TypeW, DBw, EmptyRefs
  <1>4. served' \in 0..MaxRequests
    BY <1>0, RegistryAssumption DEF ReceivePut, TypeW
  <1>5. TypeW' /\ ValidAtInstall'
    BY <1>0, <1>2, <1>3, <1>4 DEF ReceivePut, IInv, TypeW, ValidAtInstall, OthersStay
  <1>6. ASSUME NEW s \in Services
        PROVE  Cardinality(Pending(s)') + served <= Cardinality(Pending(s)) + served'
    <2>1. Cardinality(Pending(s)') <= Cardinality(Pending(s)) + 1
      BY <1>2, PendingAdd
    <2>2. Cardinality(Pending(s)') \in Nat /\ Cardinality(Pending(s)) \in Nat /\ served \in Nat
      BY <1>0, PendingFinite DEF TypeW
    <2> QED
      BY <2>1, <2>2 DEF ReceivePut
  <1>7. \A s \in Services : LatMono(s)
    BY <1>0, MonoSame DEF ReceivePut
  <1> QED
    BY <1>5, <1>6, <1>7, StepIInv

\* A DELETE is received: one request more is served, no commit is added.
LEMMA ReceiveDeleteIInv ==
  ASSUME IInv, NEW h \in Handlers, NEW r \in Repos, NEW x \in Refs, ReceiveDelete(h, r, x)
  PROVE  IInv'
  <1>0. TypeW
    BY DEF IInv
  <1>1. [step |-> "del_check", repo |-> r, tag |-> x, blob |-> IdleReq.blob, k |-> 1] \in Request
    BY IdleReqType DEF Request, Steps
  <1>2. pc' \in [Handlers -> Request] /\ OthersStay(h) /\ pc'[h].step = "del_check"
    BY <1>0, <1>1 DEF ReceiveDelete, TypeW, OthersStay
  <1>3. served' \in 0..MaxRequests
    BY <1>0, RegistryAssumption DEF ReceiveDelete, TypeW
  <1>4. TypeW' /\ ValidAtInstall'
    BY <1>0, <1>2, <1>3 DEF ReceiveDelete, IInv, TypeW, ValidAtInstall, OthersStay
  <1>5. ASSUME NEW s \in Services
        PROVE  Cardinality(Pending(s)') + served <= Cardinality(Pending(s)) + served'
    <2>1. PendingCommit(h, s)' <=> PendingCommit(h, s)
      BY <1>2 DEF ReceiveDelete, PendingCommit, PutSteps
    <2>2. Pending(s)' = Pending(s)
      BY <1>2, <2>1, PendingFrame
    <2>3. Cardinality(Pending(s)) \in Nat /\ served \in Nat
      BY <1>0, PendingFinite DEF TypeW
    <2> QED
      BY <2>2, <2>3 DEF ReceiveDelete
  <1>6. \A s \in Services : LatMono(s)
    BY <1>0, MonoSame DEF ReceiveDelete
  <1> QED
    BY <1>4, <1>5, <1>6, StepIInv

\* The installer: for a commit it raises LatestGeneration of the request's
\* service by one, and that request's pending commit is done.
LEMMA SetManifestInstallIInv ==
  ASSUME IInv, NEW h \in Handlers, SetManifestInstall(h)
  PROVE  IInv'
  <1> DEFINE sv == RepoService[pc[h].repo]
             commit == pc[h].k = 2 /\ pc[h].tag = "run"
  <1>0. /\ TypeW /\ LatestBound
        /\ pc \in [Handlers -> Request] /\ pc[h] \in Request /\ pc[h].step = "sm_inst"
        /\ sv \in Services /\ db \in DBw /\ served \in Nat
    BY DEF IInv, TypeW, ValidAtInstall, SetManifestInstall
  <1>1. /\ pc' \in [Handlers -> Request] /\ OthersStay(h)
        /\ pc'[h].step = IF pc[h].k = 1 THEN "sm_get" ELSE "respond"
        /\ pc'[h].repo = pc[h].repo /\ pc'[h].tag = pc[h].tag
    BY <1>0, AfterCallFields DEF SetManifestInstall
  <1>2. db' = [db EXCEPT !.svcs = @ \cup {sv}, !.latest[sv] = IF commit THEN @ + 1 ELSE @]
    BY DEF SetManifestInstall
  <1>3. /\ db' \in DBw
        /\ \A s \in Services :
              db'.latest[s] = IF s = sv /\ commit THEN db.latest[s] + 1 ELSE db.latest[s]
    <2>1. db.latest \in [Services -> Nat] /\ db.svcs \in SUBSET Services
      BY <1>0 DEF DBw
    <2>2. /\ db'.latest = [db.latest EXCEPT ![sv] = IF commit THEN db.latest[sv] + 1 ELSE db.latest[sv]]
          /\ db'.svcs = db.svcs \cup {sv} /\ db'.repos = db.repos /\ db'.refs = db.refs
      BY <1>0, <1>2 DEF DBw
    <2>3. db'.latest \in [Services -> Nat] /\ db'.svcs \in SUBSET Services
      BY <1>0, <2>1, <2>2
    <2>4. db' = [repos |-> db'.repos, refs |-> db'.refs, svcs |-> db'.svcs, latest |-> db'.latest]
      BY <1>0, <1>2 DEF DBw
    <2> QED
      BY <1>0, <2>1, <2>2, <2>3, <2>4 DEF DBw
  <1>4. TypeW'
    BY <1>0, <1>1, <1>3 DEF SetManifestInstall, TypeW
  <1>5. ValidAtInstall'
    BY <1>0, <1>1 DEF SetManifestInstall, IInv, ValidAtInstall, OthersStay
  <1>6. ASSUME NEW s \in Services, NEW d \in {db'} \cup {snap'[g] : g \in Handlers}
        PROVE  d.latest[s] + Cardinality(Pending(s)') <= served'
    <2>0. /\ Cardinality(Pending(s)) \in Nat /\ Cardinality(Pending(s)') \in Nat
          /\ snap' = snap /\ served' = served
          /\ \A g \in Handlers : snap[g].latest[s] \in Nat
          /\ db.latest[s] \in Nat
      BY <1>0, PendingFinite DEF SetManifestInstall, TypeW, DBw
    <2>1. CASE commit /\ s = sv
      <3>1. PendingCommit(h, s) /\ ~PendingCommit(h, s)'
        BY <1>0, <1>1, <2>1 DEF PendingCommit, PutSteps
      <3>2. Cardinality(Pending(s)') = Cardinality(Pending(s)) - 1
        BY <1>1, <3>1, PendingRemove
      <3>3. CASE d = db'
        <4>1. db.latest[s] + Cardinality(Pending(s)) <= served
          BY <1>0 DEF LatestBound
        <4> QED
          BY <1>3, <2>0, <2>1, <3>2, <3>3, <4>1
      <3>4. CASE d \in {snap[g] : g \in Handlers}
        <4>1. PICK g \in Handlers : d = snap[g]
          BY <3>4
        <4>2. snap[g].latest[s] + Cardinality(Pending(s)) <= served
          BY <1>0 DEF LatestBound
        <4>3. snap[g].latest[s] \in Nat
          BY <2>0
        <4> QED
          BY <1>0, <2>0, <3>2, <4>1, <4>2, <4>3
      <3> QED
        BY <2>0, <3>3, <3>4
    <2>2. CASE ~(commit /\ s = sv)
      <3>1. PendingCommit(h, s)' <=> PendingCommit(h, s)
        BY <1>0, <1>1, <2>2 DEF PendingCommit, PutSteps, Request
      <3>2. Pending(s)' = Pending(s)
        BY <1>1, <3>1, PendingFrame
      <3>3. LatMono(s)
        <4> SUFFICES ASSUME NEW e \in {db'} \cup {snap'[g] : g \in Handlers}
                     PROVE  \E f \in {db} \cup {snap[g] : g \in Handlers} : e.latest[s] <= f.latest[s]
          BY DEF LatMono
        <4>1. CASE e = db'
          BY <1>3, <2>0, <2>2, <4>1
        <4>2. CASE e \in {snap[g] : g \in Handlers}
          BY <2>0, <4>2
        <4> QED
          BY <2>0, <4>1, <4>2
      <3>4. Cardinality(Pending(s)') + served <= Cardinality(Pending(s)) + served'
        BY <1>0, <2>0, <3>2
      <3> QED
        BY <1>0, <1>4, <3>3, <3>4, BoundStep
    <2> QED
      BY <2>1, <2>2
  <1> QED
    BY <1>4, <1>5, <1>6 DEF IInv, LatestBound

-----------------------------------------------------------------------------
(* The theorem.                                                             *)

LEMMA InitIInv == Init => IInv
  <1> SUFFICES ASSUME Init PROVE IInv
    OBVIOUS
  <1>1. EmptyDB \in DBw /\ \A s \in Services : EmptyDB.latest[s] = 0
    BY DEF EmptyDB, DBw, EmptyRefs
  <1>2. TypeW
    BY <1>1, IdleReqType, RegistryAssumption DEF Init, TypeW, EmptyRefs
  <1>3. ValidAtInstall
    BY DEF Init, ValidAtInstall, IdleReq
  <1>4. \A s \in Services : Pending(s) = {}
    BY DEF Init, Pending, PendingCommit, IdleReq, PutSteps
  <1>5. LatestBound
    BY <1>1, <1>4, FS_EmptySet DEF Init, LatestBound
  <1> QED
    BY <1>2, <1>3, <1>5 DEF IInv

LEMMA StutterIInv ==
  ASSUME IInv, UNCHANGED vars
  PROVE  IInv'
  BY DEF vars, IInv, TypeW, ValidAtInstall, LatestBound, Pending, PendingCommit

LEMMA NextIInv == IInv /\ [Next]_vars => IInv'
  <1> SUFFICES ASSUME IInv, [Next]_vars PROVE IInv'
    OBVIOUS
  <1>1. ASSUME NEW h \in Handlers,
               \/ \E r \in Repos, t \in Tags, b \in Blobs : ReceivePut(h, r, t, b)
               \/ \E r \in Repos, x \in Refs : ReceiveDelete(h, r, x)
               \/ PutCheck(h) \/ SetManifestsGet(h) \/ SetManifestsSet(h)
               \/ SetManifestGet(h) \/ SetManifestSet(h) \/ SetManifestInstall(h)
               \/ Respond(h)
               \/ DeleteCheck(h) \/ DeleteGet(h) \/ DeleteSet(h)
        PROVE  IInv'
    BY <1>1, ReceivePutIInv, ReceiveDeleteIInv, PutCheckIInv, SetManifestsGetIInv,
       SetManifestsSetIInv, SetManifestGetIInv, SetManifestSetIInv,
       SetManifestInstallIInv, RespondIInv, DeleteCheckIInv, DeleteGetIInv,
       DeleteSetIInv
  <1>2. CASE UNCHANGED vars
    BY <1>2, StutterIInv
  <1> QED
    BY <1>1, <1>2 DEF Next

\* The store and every snapshot a request holds stay well typed, with
\* LatestGeneration of every service at most the number of requests served,
\* for any number of concurrent manifest requests: a "run" PUT commits at
\* most once (the installer of containerRegistry.SetManifest), and only
\* after manifests.handle counted its request.
THEOREM TypeCorrect == Spec => []TypeOK
  <1>1. Init => IInv
    BY InitIInv
  <1>2. IInv /\ [Next]_vars => IInv'
    BY NextIInv
  <1>3. IInv => TypeOK
    BY WFromBound DEF IInv
  <1> QED
    BY <1>1, <1>2, <1>3, PTL DEF Spec

=============================================================================
