------------------------- MODULE RegistrySerialProofs -------------------------
(***************************************************************************)
(* Proof that, when one request runs at a time (the configuration of the   *)
(* registry run), a PUT maps its tag as the specification says             *)
(* (TagMapping).  The inductive invariant SerialInv includes that no ref   *)
(* write is lost (RefsMatchLastWrite), which fails with two concurrent     *)
(* requests (registry_lostref); every proof below uses Handlers = {h}.     *)
(***************************************************************************)
EXTENDS RegistryProofs

\* The refs of repository r as getDB shows them: an absent repository has
\* none.
Cur(r) == IF r \in db.repos THEN db.refs[r] ELSE EmptyRefs

\* SetManifest call k of the PUT of request h has written its refs.
CallDone(h, k) ==
    \/ pc[h].step = "respond"
    \/ pc[h].step = "sm_inst" /\ k <= pc[h].k
    \/ pc[h].step \in {"sm_get", "sm_set"} /\ k < pc[h].k

\* The refs the PUT of request h has written so far.
Written(h) ==
    (IF CallDone(h, 1) THEN {DigestRef[pc[h].blob]} ELSE {})
    \cup (IF CallDone(h, 2) THEN RefsFor(pc[h].tag) ELSE {})

\* A PUT runs its first SetManifest call before it reaches sm_get.
KOne(h) == pc[h].step \in {"put", "sms_get", "sms_set"} => pc[h].k = 1

\* A request about to write back its snapshot got it from the current
\* store (nothing else writes in between).
SnapFresh(h) ==
    pc[h].step \in {"sms_set", "sm_set", "del_set"} =>
        snap[h].repos = db.repos /\ snap[h].refs = db.refs

\* A DELETE past getDB is for an indexed repository.
DelReady(h) == pc[h].step = "del_set" => pc[h].repo \in db.repos

\* A repository not in the store was never written.
UnindexedEmpty == \A r \in Repos \ db.repos : lastWrite[r] = EmptyRefs

\* The refs of a valid PUT's repository are those of pre[h] with what its
\* SetManifest calls have written so far.
PutProgress(h) ==
    LET r == pc[h].repo IN
    (pc[h].step \in PutSteps \cup {"respond"} /\ RepoService[r] \in Services) =>
        /\ Cur(r) = [x \in Refs |-> IF x \in Written(h) THEN pc[h].blob ELSE pre[h][x]]
        /\ CallDone(h, 1) => r \in db.repos

SerialInv(h) ==
    /\ KOne(h) /\ SnapFresh(h) /\ DelReady(h)
    /\ UnindexedEmpty /\ RefsMatchLastWrite /\ PutProgress(h)

RefsFun == [Refs -> Blobs \cup {NoRef}]

LEMMA CurType ==
  ASSUME NEW r \in Repos
  PROVE  /\ TypeW => Cur(r) \in RefsFun
         /\ TypeW' => Cur(r)' \in RefsFun
  BY DEF Cur, TypeW, DBw, EmptyRefs, RefsFun

\* DB.Set of a snapshot d fresh from the store, with refs xs of r set to
\* b (SetDB of SetManifests and SetManifest).
FreshSet(d, r, xs, b) ==
    /\ TypeW /\ d \in DBw /\ r \in Repos /\ xs \in SUBSET Refs /\ b \in Blobs
    /\ d.repos = db.repos /\ d.refs = db.refs
    /\ UnindexedEmpty /\ RefsMatchLastWrite
    /\ db' = WithRefs(d, r, xs, b)
    /\ lastWrite' = [lastWrite EXCEPT ![r] = [x \in Refs |-> IF x \in xs THEN b ELSE @[x]]]

\* What it leaves: r indexed with the refs of Cur(r) and xs, the other
\* repositories as they were, and every ref equal to its last write.
FreshSetResult(r, xs, b) ==
    /\ db'.repos = db.repos \cup {r}
    /\ db'.refs[r] = [x \in Refs |-> IF x \in xs THEN b ELSE Cur(r)[x]]
    /\ \A q \in Repos \ {r} : db'.refs[q] = db.refs[q]
    /\ UnindexedEmpty' /\ RefsMatchLastWrite'

LEMMA SetDBFacts ==
  ASSUME NEW d, NEW r, NEW xs, NEW b, FreshSet(d, r, xs, b)
  PROVE  FreshSetResult(r, xs, b)
  <1> USE DEF FreshSet
  <1> SUFFICES /\ db'.repos = db.repos \cup {r}
               /\ db'.refs[r] = [x \in Refs |-> IF x \in xs THEN b ELSE Cur(r)[x]]
               /\ \A q \in Repos \ {r} : db'.refs[q] = db.refs[q]
               /\ UnindexedEmpty' /\ RefsMatchLastWrite'
    BY DEF FreshSetResult
  <1>1. d \in DBw /\ db \in DBw
    BY DEF TypeW
  <1>2. Cur(r) = lastWrite[r]
    BY DEF Cur, UnindexedEmpty, RefsMatchLastWrite
  <1>3. /\ db'.repos = db.repos \cup {r}
        /\ db'.refs[r] = [x \in Refs |-> IF x \in xs THEN b ELSE Cur(r)[x]]
        /\ \A q \in Repos \ {r} : db'.refs[q] = db.refs[q]
    <2> DEFINE base == IF r \in d.repos THEN d.refs[r] ELSE EmptyRefs
    <2>1. base = Cur(r)
      BY DEF Cur
    <2>2. db' = [d EXCEPT !.repos = @ \cup {r},
                          !.refs[r] = [x \in Refs |-> IF x \in xs THEN b ELSE base[x]]]
      BY DEF WithRefs
    <2>3. d.refs \in [Repos -> [Refs -> Blobs \cup {NoRef}]]
      BY <1>1 DEF DBw
    <2> QED
      BY <1>1, <2>1, <2>2, <2>3 DEF DBw
  <1>4. lastWrite'[r] = [x \in Refs |-> IF x \in xs THEN b ELSE lastWrite[r][x]]
        /\ \A q \in Repos \ {r} : lastWrite'[q] = lastWrite[q]
    BY DEF TypeW
  <1>5. RefsMatchLastWrite'
    <2> SUFFICES ASSUME NEW q \in db'.repos PROVE db'.refs[q] = lastWrite'[q]
      BY DEF RefsMatchLastWrite
    <2>1. CASE q = r
      BY <1>2, <1>3, <1>4, <2>1
    <2>2. CASE q # r
      <3>1. q \in db.repos /\ q \in Repos
        BY <1>1, <1>3, <2>2 DEF DBw
      <3> QED
        BY <1>3, <1>4, <2>2, <3>1 DEF RefsMatchLastWrite
    <2> QED
      BY <2>1, <2>2
  <1>6. UnindexedEmpty'
    <2> SUFFICES ASSUME NEW q \in Repos \ db'.repos PROVE lastWrite'[q] = EmptyRefs
      BY DEF UnindexedEmpty
    <2> QED
      BY <1>3, <1>4 DEF UnindexedEmpty
  <1> QED
    BY <1>3, <1>5, <1>6

-----------------------------------------------------------------------------
(* One step of the only request preserves SerialInv.                        *)

\* The request ends or runs a DELETE step that writes nothing.
LEMMA ParkStep ==
  ASSUME NEW h, SerialInv(h), UNCHANGED <<db, lastWrite>>,
         pc'[h].step \in {"idle", "del_check", "del_get"}
  PROVE  SerialInv(h)'
  BY DEF SerialInv, KOne, SnapFresh, DelReady, UnindexedEmpty, RefsMatchLastWrite,
         PutProgress, PutSteps

\* A step that writes nothing and leaves what the PUT has written as it was.
LEMMA ProgressFrame ==
  ASSUME NEW h, PutProgress(h), db'.repos = db.repos, db'.refs = db.refs, pre' = pre,
         pc'[h].repo = pc[h].repo, pc'[h].blob = pc[h].blob,
         Written(h)' = Written(h), CallDone(h, 1)' => CallDone(h, 1),
         pc'[h].step \in PutSteps \cup {"respond"} => pc[h].step \in PutSteps \cup {"respond"}
  PROVE  PutProgress(h)'
  BY DEF PutProgress, Cur

LEMMA ReceivePutSerial ==
  ASSUME IInv, NEW h \in Handlers, SerialInv(h),
         NEW r \in Repos, NEW t \in Tags, NEW b \in Blobs, ReceivePut(h, r, t, b)
  PROVE  SerialInv(h)'
  <1>1. pc'[h] = [step |-> "put", repo |-> r, tag |-> t, blob |-> b, k |-> 1]
    BY DEF ReceivePut, IInv, TypeW
  <1>2. pre'[h] = Cur(r) /\ Cur(r) \in RefsFun
    BY CurType DEF ReceivePut, IInv, TypeW, Cur
  <1>3. Written(h)' = {} /\ ~CallDone(h, 1)'
    BY <1>1 DEF Written, CallDone
  <1>4. PutProgress(h)'
    BY <1>1, <1>2, <1>3 DEF PutProgress, ReceivePut, Cur, RefsFun
  <1> QED
    BY <1>1, <1>4 DEF ReceivePut, SerialInv, KOne, SnapFresh, DelReady, UnindexedEmpty,
       RefsMatchLastWrite

LEMMA PutCheckSerial ==
  ASSUME IInv, NEW h \in Handlers, SerialInv(h), PutCheck(h)
  PROVE  SerialInv(h)'
  <1>1. /\ pc'[h].step \in {"sm_get", "sms_get"} /\ pc'[h].k = 1
        /\ pc'[h].repo = pc[h].repo /\ pc'[h].blob = pc[h].blob /\ pc'[h].tag = pc[h].tag
    <2> DEFINE st == IF pc[h].repo \in db.repos THEN "sm_get" ELSE "sms_get"
    <2>1. st \in Steps /\ Goto(h, st) /\ pc \in [Handlers -> Request]
      BY DEF PutCheck, Steps, IInv, TypeW
    <2>2. pc[h].k = 1
      BY DEF PutCheck, SerialInv, KOne
    <2> QED
      BY <2>1, <2>2, GotoFields
  <1>2. Written(h)' = {} /\ Written(h) = {} /\ ~CallDone(h, 1)'
    BY <1>1 DEF PutCheck, Written, CallDone
  <1>3. PutProgress(h)'
    BY <1>1, <1>2, ProgressFrame DEF PutCheck, SerialInv, PutSteps
  <1> QED
    BY <1>1, <1>3 DEF PutCheck, SerialInv, KOne, SnapFresh, DelReady, UnindexedEmpty,
       RefsMatchLastWrite

LEMMA SetManifestsGetSerial ==
  ASSUME IInv, NEW h \in Handlers, SerialInv(h), SetManifestsGet(h)
  PROVE  SerialInv(h)'
  <1>1. /\ pc'[h].step = "sms_set" /\ pc'[h].k = pc[h].k
        /\ pc'[h].repo = pc[h].repo /\ pc'[h].blob = pc[h].blob /\ pc'[h].tag = pc[h].tag
    BY GotoFields DEF SetManifestsGet, Steps, IInv, TypeW
  <1>2. snap'[h] = db
    BY DEF SetManifestsGet, IInv, TypeW
  <1>3. Written(h)' = {} /\ Written(h) = {} /\ ~CallDone(h, 1)'
    BY <1>1 DEF SetManifestsGet, Written, CallDone
  <1>4. PutProgress(h)'
    BY <1>1, <1>3, ProgressFrame DEF SetManifestsGet, SerialInv, PutSteps
  <1> QED
    BY <1>1, <1>2, <1>4 DEF SetManifestsGet, SerialInv, KOne, SnapFresh, DelReady,
       UnindexedEmpty, RefsMatchLastWrite

LEMMA SetManifestsSetSerial ==
  ASSUME IInv, NEW h \in Handlers, SerialInv(h), SetManifestsSet(h)
  PROVE  SerialInv(h)'
  <1> DEFINE r == pc[h].repo
  <1>0. TypeW /\ r \in Repos /\ pc[h].blob \in Blobs /\ pc[h].k = 1
        /\ snap[h].repos = db.repos /\ snap[h].refs = db.refs
    BY DEF IInv, TypeW, Request, SetManifestsSet, SerialInv, KOne, SnapFresh
  <1>1. /\ pc'[h].step = "sm_get" /\ pc'[h].k = pc[h].k
        /\ pc'[h].repo = pc[h].repo /\ pc'[h].blob = pc[h].blob /\ pc'[h].tag = pc[h].tag
    BY GotoFields DEF SetManifestsSet, Steps, IInv, TypeW
  <1>2. /\ db'.repos = db.repos \cup {r}
        /\ db'.refs[r] = [x \in Refs |-> IF x \in {} THEN pc[h].blob ELSE Cur(r)[x]]
        /\ UnindexedEmpty' /\ RefsMatchLastWrite'
    <2>1. FreshSet(snap[h], r, {}, pc[h].blob)
      BY <1>0 DEF SetManifestsSet, SetDB, FreshSet, SerialInv, IInv, TypeW
    <2> QED
      BY <2>1, SetDBFacts DEF FreshSetResult
  <1>3. Cur(r)' = Cur(r)
    <2>1. Cur(r)' = db'.refs[r]
      BY <1>1, <1>2 DEF Cur
    <2>2. Cur(r) \in RefsFun
      BY <1>0, CurType
    <2> QED
      BY <1>2, <2>1, <2>2 DEF RefsFun
  <1>4. Written(h)' = {} /\ Written(h) = {} /\ ~CallDone(h, 1)'
    BY <1>0, <1>1 DEF SetManifestsSet, Written, CallDone
  <1>5. PutProgress(h)'
    BY <1>1, <1>3, <1>4 DEF SetManifestsSet, SerialInv, PutProgress, PutSteps
  <1> QED
    BY <1>1, <1>2, <1>5 DEF SerialInv, KOne, SnapFresh, DelReady

LEMMA SetManifestGetSerial ==
  ASSUME IInv, NEW h \in Handlers, SerialInv(h), SetManifestGet(h)
  PROVE  SerialInv(h)'
  <1>0. pc \in [Handlers -> Request] /\ pc[h].repo \in Repos
    BY DEF IInv, TypeW, Request
  <1>1. CASE RepoService[pc[h].repo] = Invalid /\ AfterCall(h) /\ UNCHANGED snap
    \* An invalid path: nothing is written and PutProgress does not apply.
    <2>1. /\ pc'[h].step \in {"sm_get", "respond"}
          /\ pc'[h].repo = pc[h].repo
      BY <1>0, <1>1, AfterCallFields
    <2>2. RepoService[pc'[h].repo] \notin Services
      BY <1>1, <2>1, RegistryAssumption
    <2> QED
      BY <1>1, <2>1, <2>2 DEF SetManifestGet, SerialInv, KOne, SnapFresh, DelReady,
         UnindexedEmpty, RefsMatchLastWrite, PutProgress
  <1>2. CASE RepoService[pc[h].repo] # Invalid /\ snap' = [snap EXCEPT ![h] = db]
             /\ Goto(h, "sm_set")
    <2>1. /\ pc'[h].step = "sm_set" /\ pc'[h].k = pc[h].k
          /\ pc'[h].repo = pc[h].repo /\ pc'[h].blob = pc[h].blob /\ pc'[h].tag = pc[h].tag
      BY <1>0, <1>2, GotoFields DEF Steps
    <2>2. snap'[h] = db
      BY <1>2 DEF IInv, TypeW
    <2>3. Written(h)' = Written(h) /\ CallDone(h, 1)' = CallDone(h, 1)
      BY <2>1 DEF SetManifestGet, Written, CallDone
    <2>4. PutProgress(h)'
      BY <2>1, <2>3, ProgressFrame DEF SetManifestGet, SerialInv, PutSteps
    <2> QED
      BY <2>1, <2>2, <2>4 DEF SetManifestGet, SerialInv, KOne, SnapFresh, DelReady,
         UnindexedEmpty, RefsMatchLastWrite
  <1> QED
    BY <1>1, <1>2 DEF SetManifestGet

LEMMA SetManifestSetSerial ==
  ASSUME IInv, NEW h \in Handlers, SerialInv(h), SetManifestSet(h)
  PROVE  SerialInv(h)'
  <1> DEFINE r == pc[h].repo
             b == pc[h].blob
  <1>0. /\ TypeW /\ r \in Repos /\ b \in Blobs /\ pc[h].k \in 1..2
        /\ CallRefs(h) \in SUBSET Refs
        /\ RepoService[r] \in Services
        /\ snap[h].repos = db.repos /\ snap[h].refs = db.refs
    <2>1. TypeW /\ pc[h] \in Request
      BY DEF IInv, TypeW
    <2>2. r \in Repos /\ b \in Blobs /\ pc[h].k \in 1..2 /\ pc[h].tag \in Refs
      BY <2>1 DEF Request
    <2>3. RefsFor(pc[h].tag) \in SUBSET Refs /\ DigestRef[b] \in Refs
      BY <2>2, RegistryAssumption DEF RefsFor, Refs
    <2>4. CallRefs(h) \in SUBSET Refs
      BY <2>3 DEF CallRefs
    <2>5. RepoService[r] \in Services
      BY DEF SetManifestSet, IInv, ValidAtInstall
    <2>6. snap[h].repos = db.repos /\ snap[h].refs = db.refs
      BY DEF SetManifestSet, SerialInv, SnapFresh
    <2> QED
      BY <2>1, <2>2, <2>4, <2>5, <2>6
  <1>1. /\ pc'[h].step = "sm_inst" /\ pc'[h].k = pc[h].k
        /\ pc'[h].repo = pc[h].repo /\ pc'[h].blob = pc[h].blob /\ pc'[h].tag = pc[h].tag
    BY GotoFields DEF SetManifestSet, Steps, IInv, TypeW
  <1>2. /\ db'.repos = db.repos \cup {r}
        /\ db'.refs[r] = [x \in Refs |-> IF x \in CallRefs(h) THEN b ELSE Cur(r)[x]]
        /\ UnindexedEmpty' /\ RefsMatchLastWrite'
    <2>1. FreshSet(snap[h], r, CallRefs(h), b)
      BY <1>0 DEF SetManifestSet, SetDB, FreshSet, SerialInv, IInv, TypeW
    <2> QED
      BY <2>1, SetDBFacts DEF FreshSetResult
  <1>3. Written(h)' = Written(h) \cup CallRefs(h) /\ CallDone(h, 1)'
    BY <1>0, <1>1 DEF SetManifestSet, Written, CallDone, CallRefs
  <1>4. Cur(r) = [x \in Refs |-> IF x \in Written(h) THEN b ELSE pre[h][x]]
    BY <1>0 DEF SetManifestSet, SerialInv, PutProgress, PutSteps
  <1>5. Cur(r)' = [x \in Refs |-> IF x \in Written(h)' THEN b ELSE pre'[h][x]]
    <2>1. Cur(r)' = db'.refs[r]
      BY <1>1, <1>2 DEF Cur
    <2>2. pre' = pre
      BY DEF SetManifestSet
    <2> QED
      BY <1>2, <1>3, <1>4, <2>1, <2>2
  <1>6. PutProgress(h)'
    BY <1>1, <1>2, <1>5 DEF PutProgress
  <1> QED
    BY <1>1, <1>2, <1>6 DEF SerialInv, KOne, SnapFresh, DelReady

LEMMA SetManifestInstallSerial ==
  ASSUME IInv, NEW h \in Handlers, SerialInv(h), SetManifestInstall(h)
  PROVE  SerialInv(h)'
  <1>0. pc \in [Handlers -> Request] /\ pc[h].k \in 1..2 /\ db \in DBw
    BY DEF IInv, TypeW, Request
  <1>1. /\ pc'[h].step = IF pc[h].k = 1 THEN "sm_get" ELSE "respond"
        /\ pc'[h].repo = pc[h].repo /\ pc'[h].tag = pc[h].tag
    BY <1>0, AfterCallFields DEF SetManifestInstall
  <1>2. pc'[h].blob = pc[h].blob /\ pc'[h].k = 2
    <2>1. pc[h] \in Request
      BY <1>0
    <2>2. CASE pc[h].k = 1
      <3>1. pc' = [pc EXCEPT ![h].step = "sm_get", ![h].k = 2]
        BY <2>2 DEF SetManifestInstall, AfterCall
      <3> QED
        BY <1>0, <2>1, <3>1 DEF Request
    <2>3. CASE pc[h].k # 1
      <3>1. pc' = [pc EXCEPT ![h].step = "respond"]
        BY <2>3 DEF SetManifestInstall, AfterCall, Goto
      <3> QED
        BY <1>0, <2>1, <2>3, <3>1 DEF Request
    <2> QED
      BY <2>2, <2>3
  <1>3. db'.repos = db.repos /\ db'.refs = db.refs
    BY <1>0 DEF SetManifestInstall, DBw
  <1>4. Written(h)' = Written(h) /\ CallDone(h, 1)' /\ CallDone(h, 1)
    BY <1>0, <1>1, <1>2 DEF SetManifestInstall, Written, CallDone
  <1>5. PutProgress(h)'
    BY <1>1, <1>2, <1>3, <1>4, ProgressFrame DEF SetManifestInstall, SerialInv, PutSteps
  <1>6. UnindexedEmpty' /\ RefsMatchLastWrite'
    BY <1>3 DEF SetManifestInstall, SerialInv, UnindexedEmpty, RefsMatchLastWrite
  <1> QED
    BY <1>1, <1>5, <1>6 DEF SerialInv, KOne, SnapFresh, DelReady

LEMMA RespondSerial ==
  ASSUME IInv, NEW h \in Handlers, SerialInv(h), Respond(h)
  PROVE  SerialInv(h)'
  BY ParkStep DEF Respond, IdleReq, IInv, TypeW

LEMMA ReceiveDeleteSerial ==
  ASSUME IInv, NEW h \in Handlers, SerialInv(h), NEW r \in Repos, NEW x \in Refs,
         ReceiveDelete(h, r, x)
  PROVE  SerialInv(h)'
  BY ParkStep DEF ReceiveDelete, IInv, TypeW

LEMMA DeleteCheckSerial ==
  ASSUME IInv, NEW h \in Handlers, SerialInv(h), DeleteCheck(h)
  PROVE  SerialInv(h)'
  <1>1. pc'[h].step \in {"del_get", "del_set", "idle"} /\ pc'[h].step # "del_set"
    BY GotoFields DEF DeleteCheck, Goto, IdleReq, IInv, TypeW, Steps
  <1> QED
    BY <1>1, ParkStep DEF DeleteCheck

LEMMA DeleteGetSerial ==
  ASSUME IInv, NEW h \in Handlers, SerialInv(h), DeleteGet(h)
  PROVE  SerialInv(h)'
  <1>1. CASE pc[h].repo \in db.repos
    <2>1. pc'[h].step = "del_set" /\ pc'[h].repo = pc[h].repo
      BY <1>1, GotoFields DEF DeleteGet, IInv, TypeW, Steps
    <2>2. snap'[h] = db
      BY DEF DeleteGet, IInv, TypeW
    <2> QED
      BY <1>1, <2>1, <2>2 DEF DeleteGet, SerialInv, KOne, SnapFresh, DelReady,
         UnindexedEmpty, RefsMatchLastWrite, PutProgress, PutSteps
  <1>2. CASE pc[h].repo \notin db.repos
    BY <1>2, ParkStep DEF DeleteGet, IdleReq, IInv, TypeW
  <1> QED
    BY <1>1, <1>2

\* DeleteManifest writes back the fresh snapshot with one ref cleared.
LEMMA DeleteSetSerial ==
  ASSUME IInv, NEW h \in Handlers, SerialInv(h), DeleteSet(h)
  PROVE  SerialInv(h)'
  <1> DEFINE r == pc[h].repo
             t == pc[h].tag
  <1>0. /\ TypeW /\ r \in db.repos /\ r \in Repos /\ t \in Refs
        /\ snap[h].repos = db.repos /\ snap[h].refs = db.refs /\ snap[h] \in DBw
    BY DEF IInv, TypeW, Request, DeleteSet, SerialInv, DelReady, SnapFresh
  <1>1. /\ db'.repos = db.repos
        /\ db'.refs[r] = [db.refs[r] EXCEPT ![t] = NoRef]
        /\ \A q \in Repos \ {r} : db'.refs[q] = db.refs[q]
    BY <1>0 DEF DeleteSet, DBw
  <1>2. /\ lastWrite'[r] = [lastWrite[r] EXCEPT ![t] = NoRef]
        /\ \A q \in Repos \ {r} : lastWrite'[q] = lastWrite[q]
    BY <1>0 DEF DeleteSet, TypeW
  <1>3. RefsMatchLastWrite'
    <2> SUFFICES ASSUME NEW q \in db'.repos PROVE db'.refs[q] = lastWrite'[q]
      BY DEF RefsMatchLastWrite
    <2>1. q \in db.repos /\ q \in Repos
      BY <1>0, <1>1 DEF TypeW, DBw
    <2>2. db.refs[q] = lastWrite[q]
      BY <2>1 DEF SerialInv, RefsMatchLastWrite
    <2> QED
      BY <1>1, <1>2, <2>1, <2>2
  <1>4. UnindexedEmpty'
    BY <1>0, <1>1, <1>2 DEF SerialInv, UnindexedEmpty
  <1>5. pc'[h].step = "idle"
    BY DEF DeleteSet, IdleReq, IInv, TypeW
  <1> QED
    BY <1>3, <1>4, <1>5 DEF SerialInv, KOne, SnapFresh, DelReady, PutProgress, PutSteps

-----------------------------------------------------------------------------
(* The theorems.                                                            *)

LEMMA InitSerial ==
  ASSUME NEW h \in Handlers, Init
  PROVE  SerialInv(h)
  BY DEF Init, SerialInv, KOne, SnapFresh, DelReady, UnindexedEmpty, RefsMatchLastWrite,
         PutProgress, IdleReq, EmptyDB, PutSteps

LEMMA NextSerial ==
  ASSUME NEW h, Handlers = {h}, IInv, SerialInv(h), [Next]_vars
  PROVE  SerialInv(h)'
  <1>0. h \in Handlers
    OBVIOUS
  <1>1. ASSUME NEW g \in Handlers,
               \/ \E r \in Repos, t \in Tags, b \in Blobs : ReceivePut(g, r, t, b)
               \/ \E r \in Repos, x \in Refs : ReceiveDelete(g, r, x)
               \/ PutCheck(g) \/ SetManifestsGet(g) \/ SetManifestsSet(g)
               \/ SetManifestGet(g) \/ SetManifestSet(g) \/ SetManifestInstall(g)
               \/ Respond(g)
               \/ DeleteCheck(g) \/ DeleteGet(g) \/ DeleteSet(g)
        PROVE  SerialInv(h)'
    <2>1. g = h
      OBVIOUS
    <2> QED
      BY <1>0, <1>1, <2>1, ReceivePutSerial, ReceiveDeleteSerial, PutCheckSerial,
         SetManifestsGetSerial, SetManifestsSetSerial, SetManifestGetSerial,
         SetManifestSetSerial, SetManifestInstallSerial, RespondSerial,
         DeleteCheckSerial, DeleteGetSerial, DeleteSetSerial
  <1>2. CASE UNCHANGED vars
    BY <1>2 DEF vars, SerialInv, KOne, SnapFresh, DelReady, UnindexedEmpty,
       RefsMatchLastWrite, PutProgress, Cur, Written, CallDone
  <1> QED
    BY <1>1, <1>2 DEF Next

\* SetManifest's tag mapping (RefsFor) is the one of the specification.
LEMMA RefsForIsSpec ==
  ASSUME NEW tag
  PROVE  RefsFor(tag) = SpecTagRefs(tag)
  BY DEF RefsFor, SpecTagRefs

\* With one request at a time, a PUT to a "service/container" path is
\* answered with the refs of its repository those it had before plus the
\* digest ref and the refs its tag maps to (spec property 7), after the two
\* SetManifest calls of manifests.handle.
THEOREM TagMappingHolds ==
  ASSUME NEW h, Handlers = {h}
  PROVE  Spec => []TagMapping
  <1>1. Init => IInv /\ SerialInv(h)
    BY InitIInv, InitSerial
  <1>2. IInv /\ SerialInv(h) /\ [Next]_vars => (IInv /\ SerialInv(h))'
    BY NextIInv, NextSerial
  <1>3. IInv /\ SerialInv(h) => TagMapping
    <2> SUFFICES ASSUME IInv, SerialInv(h), NEW g \in Handlers,
                        pc[g].step = "respond", RepoService[pc[g].repo] # Invalid
                 PROVE  db.refs[pc[g].repo] =
                           [x \in Refs |->
                              IF x \in SpecTagRefs(pc[g].tag) \cup {DigestRef[pc[g].blob]}
                              THEN pc[g].blob ELSE pre[g][x]]
      BY DEF TagMapping
    <2>1. g = h /\ pc[h].repo \in Repos
      BY DEF IInv, TypeW, Request
    <2>2. RepoService[pc[h].repo] \in Services
      BY <2>1, RegistryAssumption
    <2>3. /\ Cur(pc[h].repo) = [x \in Refs |-> IF x \in Written(h) THEN pc[h].blob ELSE pre[h][x]]
          /\ pc[h].repo \in db.repos
      BY <2>1, <2>2 DEF SerialInv, PutProgress, PutSteps, CallDone
    <2>4. Written(h) = SpecTagRefs(pc[h].tag) \cup {DigestRef[pc[h].blob]}
      BY <2>1, RefsForIsSpec DEF Written, CallDone
    <2> QED
      BY <2>1, <2>3, <2>4 DEF Cur
  <1> QED
    BY <1>1, <1>2, <1>3, PTL DEF Spec

=============================================================================
