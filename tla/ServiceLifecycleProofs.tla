----------------------- MODULE ServiceLifecycleProofs -----------------------
(***************************************************************************)
(* Proofs about ServiceLifecycle for every value of the constants: type   *)
(* correctness of every command of every session, the failing calls of    *)
(* RemoveService and the edit --config write-back included.              *)
(***************************************************************************)
EXTENDS ServiceLifecycle, TLAPS

PCType == [op : Ops, svc : Services, g : GenOrNone]
FileMaps == [Gens -> Payloads \cup {NoFile}]

USE DEF ConstantsAssumption

\* Idle, the value a session's pc returns to, is a well-typed pc.
LEMMA IdleType ==
    ASSUME ConstantsAssumption
    PROVE  Idle \in PCType
BY DEF ConstantsAssumption, Idle, Ops, GenOrNone, PCType

\* RetainLast keeps a generation map a generation map.
LEMMA RetainLastType ==
    ASSUME ConstantsAssumption, NEW fs \in FileMaps, NEW g \in Int
    PROVE  RetainLast(fs, g) \in FileMaps
BY DEF RetainLast, FileMaps

\* A promotion of generation g in Gens from a well-typed file map keeps
\* the store and the supervisor state well typed.
LEMMA PromoteType ==
    ASSUME ConstantsAssumption, TypeOK, NEW s \in Services, NEW g \in Gens, NEW fs \in FileMaps,
           Promote(s, g, fs)
    PROVE  /\ latest' \in [Services -> GenOrNone]
           /\ gen' \in [Services -> GenOrNone]
           /\ files' \in [Services -> FileMaps]
           /\ unit' \in [Services -> GenOrNone]
           /\ active' \in [Services -> BOOLEAN]
<1>1. g \in GenOrNone
  BY DEF Gens, GenOrNone
<1>2. RetainLast(fs, g) \in FileMaps
  BY RetainLastType DEF Gens
<1> QED
  BY <1>1, <1>2 DEF Promote, TypeOK, FileMaps

\* Install keeps the variables in their types.
LEMMA InstallType ==
    ASSUME ConstantsAssumption, TypeOK, NEW c \in Clients, NEW s \in Services, NEW p \in Payloads, Install(c, s, p)
    PROVE  TypeOK'
<1> DEFINE g == latest[s] + 1
<1>1. g \in Gens
  BY DEF Install, TypeOK, Gens, GenOrNone
<1>2. [files[s] EXCEPT ![g] = p] \in FileMaps
  BY <1>1 DEF TypeOK, FileMaps
<1>3. Promote(s, g, [files[s] EXCEPT ![g] = p])
  BY DEF Install
<1>4. staged' \in [Services -> GenOrNone]
  BY <1>1 DEF Install, TypeOK, Gens, GenOrNone
<1> QED
  BY <1>1, <1>2, <1>3, <1>4, PromoteType DEF Install, TypeOK, FileMaps

\* Stage keeps the variables in their types.
LEMMA StageType ==
    ASSUME ConstantsAssumption, TypeOK, NEW c \in Clients, NEW s \in Services, NEW p \in Payloads, Stage(c, s, p)
    PROVE  TypeOK'
<1> DEFINE g == latest[s] + 1
<1>1. g \in Gens
  BY DEF Stage, TypeOK, Gens, GenOrNone
<1>2. files' \in [Services -> FileMaps]
  BY <1>1 DEF Stage, TypeOK, FileMaps
<1>3. staged' \in [Services -> GenOrNone]
  BY <1>1 DEF Stage, TypeOK, Gens, GenOrNone
<1> QED
  BY <1>2, <1>3 DEF Stage, TypeOK, FileMaps

\* CommitStaged keeps the variables in their types.
LEMMA CommitStagedType ==
    ASSUME ConstantsAssumption, TypeOK, NEW c \in Clients, NEW s \in Services, CommitStaged(c, s)
    PROVE  TypeOK'
<1>1. staged[s] \in Gens
  BY DEF CommitStaged, TypeOK, Gens, GenOrNone
<1>2. Promote(s, staged[s], files[s])
  BY DEF CommitStaged
<1>3. files[s] \in FileMaps
  BY DEF TypeOK, FileMaps
<1> QED
  BY <1>1, <1>2, <1>3, PromoteType DEF CommitStaged, TypeOK, FileMaps

\* RollbackMutate keeps the variables in their types.
LEMMA RollbackMutateType ==
    ASSUME ConstantsAssumption, TypeOK, NEW c \in Clients, NEW s \in Services, RollbackMutate(c, s)
    PROVE  TypeOK'
<1>0. gen[s] \in 0..MaxGen /\ gen[s] # 0
  BY DEF RollbackMutate, TypeOK, GenOrNone
<1>1. gen[s] - 1 \in GenOrNone
  BY <1>0 DEF GenOrNone
<1>2. gen' \in [Services -> GenOrNone]
  BY <1>1 DEF RollbackMutate, TypeOK
<1>3. pc' \in [Clients -> PCType]
  BY <1>1 DEF RollbackMutate, TypeOK, Ops, PCType
<1> QED
  <2>1. UNCHANGED <<present, latest, staged, files, unit, active, snap>>
    BY DEF RollbackMutate
  <2> QED
    BY <1>2, <1>3, <2>1 DEF TypeOK, PCType

\* InstallGen keeps the variables in their types.
LEMMA InstallGenType ==
    ASSUME ConstantsAssumption, TypeOK, NEW c \in Clients, InstallGen(c)
    PROVE  TypeOK'
<1>1. pc[c].g \in GenOrNone /\ pc[c].svc \in Services
  BY DEF TypeOK
<1>2. unit' \in [Services -> GenOrNone] /\ active' \in [Services -> BOOLEAN]
  BY <1>1 DEF InstallGen, TypeOK
<1>3. pc' \in [Clients -> PCType]
  BY IdleType DEF InstallGen, TypeOK, PCType
<1> QED
  BY <1>2, <1>3 DEF InstallGen, TypeOK, PCType

\* Start and Stop keeps the variables in their types.
LEMMA StartStopType ==
    ASSUME ConstantsAssumption, TypeOK, NEW c \in Clients, NEW s \in Services, Start(c, s) \/ Stop(c, s)
    PROVE  TypeOK'
BY DEF Start, Stop, TypeOK

\* RemoveRunner keeps the variables in their types.
LEMMA RemoveRunnerType ==
    ASSUME ConstantsAssumption, TypeOK, NEW c \in Clients, NEW s \in Services, RemoveRunner(c, s)
    PROVE  TypeOK'
<1>1. pc' \in [Clients -> PCType]
  BY DEF RemoveRunner, TypeOK, Ops, PCType, GenOrNone
<1>2. unit' \in [Services -> GenOrNone]
  BY DEF RemoveRunner, TypeOK, GenOrNone
<1> QED
  BY <1>1, <1>2 DEF RemoveRunner, TypeOK, PCType

\* RemoveCheck keeps the variables in their types.
LEMMA RemoveCheckType ==
    ASSUME ConstantsAssumption, TypeOK, NEW c \in Clients, RemoveCheck(c)
    PROVE  TypeOK'
<1>1. pc' \in [Clients -> PCType]
  <2>1. pc[c] \in PCType
    BY DEF TypeOK, PCType
  <2>2. [pc[c] EXCEPT !.op = "rmdirs"] \in PCType
    BY <2>1 DEF PCType, Ops
  <2>3. pc' = [pc EXCEPT ![c] = Idle] \/ pc' = [pc EXCEPT ![c] = [pc[c] EXCEPT !.op = "rmdirs"]]
    BY DEF RemoveCheck
  <2> QED
    BY <2>2, <2>3, IdleType DEF TypeOK, PCType
<1> QED
  <2>1. UNCHANGED <<present, gen, latest, staged, files, unit, active, snap>>
    BY DEF RemoveCheck
  <2> QED
    BY <1>1, <2>1 DEF TypeOK, PCType

\* RemoveDirs keeps the variables in their types, whether every RemoveAll
\* succeeds or one fails part-way.
LEMMA RemoveDirsType ==
    ASSUME ConstantsAssumption, TypeOK, NEW c \in Clients, RemoveDirs(c)
    PROVE  TypeOK'
<1>1. pc' \in [Clients -> PCType]
  <2>1. [pc[c] EXCEPT !.op = "rmentry"] \in PCType
    BY DEF TypeOK, PCType, Ops
  <2> QED
    BY <2>1, IdleType DEF RemoveDirs, TypeOK, PCType
<1>2. files' \in [Services -> FileMaps]
  <2>1. CASE files' = [t \in Services |->
                         IF t = pc[c].svc \/ pc[c].svc = RootName
                         THEN [g \in Gens |-> NoFile] ELSE files[t]]
    BY <2>1 DEF TypeOK, FileMaps
  <2>2. CASE \E kept \in SUBSET (Services \X Gens) :
                files' = [t \in Services |-> [g \in Gens |->
                            IF (t = pc[c].svc \/ pc[c].svc = RootName) /\ <<t, g>> \notin kept
                            THEN NoFile ELSE files[t][g]]]
    <3>1. PICK kept \in SUBSET (Services \X Gens) :
                files' = [t \in Services |-> [g \in Gens |->
                            IF (t = pc[c].svc \/ pc[c].svc = RootName) /\ <<t, g>> \notin kept
                            THEN NoFile ELSE files[t][g]]]
      BY <2>2
    <3> QED
      BY <3>1 DEF TypeOK, FileMaps
  <2> QED
    BY <2>1, <2>2 DEF RemoveDirs
<1>3. UNCHANGED <<present, gen, latest, staged, unit, active, snap>>
  BY DEF RemoveDirs
<1> QED
  BY <1>1, <1>2, <1>3 DEF TypeOK, PCType, FileMaps

\* RemoveEntry keeps the variables in their types, whether the entry is
\* deleted or a call fails.
LEMMA RemoveEntryType ==
    ASSUME ConstantsAssumption, TypeOK, NEW c \in Clients, RemoveEntry(c)
    PROVE  TypeOK'
<1>1. pc' \in [Clients -> PCType]
  BY IdleType DEF RemoveEntry, TypeOK, PCType
<1>2. /\ present' \subseteq Services
      /\ gen' \in [Services -> GenOrNone]
      /\ latest' \in [Services -> GenOrNone]
      /\ staged' \in [Services -> GenOrNone]
  <2>1. CASE UNCHANGED <<present, gen, latest, staged>>
    BY <2>1 DEF TypeOK
  <2>2. CASE /\ present' = present \ {pc[c].svc}
             /\ gen' = [gen EXCEPT ![pc[c].svc] = 0]
             /\ latest' = [latest EXCEPT ![pc[c].svc] = 0]
             /\ staged' = [staged EXCEPT ![pc[c].svc] = 0]
    BY <2>2 DEF TypeOK, GenOrNone
  <2> QED
    BY <2>1, <2>2 DEF RemoveEntry
<1>3. UNCHANGED <<files, unit, active, snap>>
  BY DEF RemoveEntry
<1> QED
  BY <1>1, <1>2, <1>3 DEF TypeOK, PCType

\* EditOpen keeps the variables in their types.
LEMMA EditOpenType ==
    ASSUME ConstantsAssumption, TypeOK, NEW c \in Clients, NEW s \in Services, EditOpen(c, s)
    PROVE  TypeOK'
<1>1. pc' \in [Clients -> PCType]
  BY DEF EditOpen, TypeOK, PCType, Ops, GenOrNone
<1>2. snap' \in [Clients -> Snaps]
  BY DEF EditOpen, TypeOK, Snaps
<1> QED
  BY <1>1, <1>2 DEF EditOpen, TypeOK, PCType

\* EditSave keeps the variables in their types: the record it writes back
\* holds generation numbers read from a well-typed store.
LEMMA EditSaveType ==
    ASSUME ConstantsAssumption, TypeOK, NEW c \in Clients, EditSave(c)
    PROVE  TypeOK'
<1>1. snap[c] \in Snaps /\ pc[c].svc \in Services
  BY DEF TypeOK
<1>2. CASE /\ pc' = [pc EXCEPT ![c] = Idle]
           /\ UNCHANGED <<present, gen, latest, staged>>
  BY <1>2, IdleType DEF EditSave, TypeOK, PCType
<1>3. CASE /\ present' = present \cup {pc[c].svc}
           /\ gen' = [gen EXCEPT ![pc[c].svc] = snap[c].gen]
           /\ latest' = [latest EXCEPT ![pc[c].svc] = snap[c].latest]
           /\ staged' = [staged EXCEPT ![pc[c].svc] = snap[c].staged]
           /\ pc' = [pc EXCEPT ![c] = [op |-> "installgen", svc |-> pc[c].svc, g |-> snap[c].gen]]
  <2>1. pc' \in [Clients -> PCType]
    BY <1>1, <1>3 DEF TypeOK, PCType, Ops, Snaps
  <2>2. /\ present' \subseteq Services
        /\ gen' \in [Services -> GenOrNone]
        /\ latest' \in [Services -> GenOrNone]
        /\ staged' \in [Services -> GenOrNone]
    BY <1>1, <1>3 DEF TypeOK, Snaps
  <2>3. UNCHANGED <<files, unit, active, snap>>
    BY DEF EditSave
  <2> QED
    BY <2>1, <2>2, <2>3 DEF TypeOK, PCType
<1> QED
  BY <1>2, <1>3 DEF EditSave

\* Type correctness: every step keeps every variable in its type.
THEOREM TypeCorrect ==
    ASSUME ConstantsAssumption
    PROVE  Spec => []TypeOK
<1>1. Init => TypeOK
  BY IdleType DEF Init, TypeOK, GenOrNone, Gens, PCType, Snaps, NoSnap
<1>2. TypeOK /\ [Next]_vars => TypeOK'
  BY InstallType, StageType, CommitStagedType, RollbackMutateType,
     InstallGenType, StartStopType, RemoveRunnerType, RemoveCheckType,
     RemoveDirsType, RemoveEntryType, EditOpenType, EditSaveType
  DEF Next, SessionNext, vars, TypeOK
<1> QED
  BY <1>1, <1>2, PTL DEF Spec

=============================================================================
