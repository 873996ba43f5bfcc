--------------------------- MODULE ClassifierProofs ---------------------------
(***************************************************************************)
(* Proofs of the classifier's properties that hold (BinaryForHostOS and   *)
(* ScriptsRecognised) for every set of systems, architectures and CPUs.    *)
(***************************************************************************)
EXTENDS Classifier, TLAPS

\* The executable format of the host system.
HostFormat == IF goos = "darwin" THEN "macho" ELSE "elf"

\* Both properties speak of the returned result only; CInv says what each
\* step of detect() has established: isSameArch runs only on a binary in
\* the host's format, only isSameArch returns Binary, and a script of four
\* bytes or more is still on the path detectBinary -> detectZstd ->
\* detectScript, or has been returned as a Script.
CInv ==
    /\ step = "arch" => file.magic = HostFormat
    /\ result = "Binary" => file.magic = HostFormat
    /\ (file.magic = "shebang" /\ file.len = 4) =>
          \/ step \in {"binary", "zstd", "script"}
          \/ step = "done" /\ result = "Script"

LEMMA InitCInv == Init => CInv
  BY DEF Init, CInv

LEMMA DetectBinaryCInv ==
  ASSUME CInv, DetectBinary
  PROVE  CInv'
  <1>1. CASE file.len < 4
    BY <1>1 DEF DetectBinary, Return, CInv, HostFormat
  <1>2. CASE ~(file.len < 4) /\ file.magic = "elf"
    BY <1>2 DEF DetectBinary, Return, Continue, CInv, HostFormat
  <1>3. CASE ~(file.len < 4) /\ file.magic = "macho"
    BY <1>3 DEF DetectBinary, Return, Continue, CInv, HostFormat
  <1>4. CASE ~(file.len < 4) /\ file.magic \notin {"elf", "macho"}
    BY <1>4 DEF DetectBinary, Continue, CInv, HostFormat
  <1> QED
    BY <1>1, <1>2, <1>3, <1>4

LEMMA IsSameArchCInv ==
  ASSUME CInv, IsSameArch
  PROVE  CInv'
  BY DEF IsSameArch, Return, CInv, HostFormat

\* The detectors after detectBinary leave file, goos and result alone or
\* return something other than Binary.
LEMMA LaterCInv ==
  ASSUME CInv, DetectZstd \/ DetectScript \/ DetectDockerCompose \/ DetectTypeScript
  PROVE  CInv'
  BY DEF DetectZstd, DetectScript, DetectDockerCompose, DetectTypeScript,
         Return, Continue, CInv, HostFormat

LEMMA NextCInv == CInv /\ [Next]_vars => CInv'
  BY DetectBinaryCInv, IsSameArchCInv, LaterCInv DEF Next, vars, CInv, HostFormat

\* A native binary is accepted only in the host's executable format, for
\* every system and architecture a catch may report: detectBinary returns
\* an error for an ELF on darwin and a Mach-O elsewhere before isSameArch
\* can accept it (ftdetect.go detectBinary).
THEOREM BinaryForHostOSHolds == Spec => []BinaryForHostOS
  <1>1. CInv => BinaryForHostOS
    BY DEF CInv, BinaryForHostOS, HostFormat
  <1> QED
    BY InitCInv, NextCInv, <1>1, PTL DEF Spec

\* A script of four bytes or more is always classified as a script: the
\* shebang check comes before the YAML and TypeScript parsers in detect(),
\* and detectBinary and detectZstd let it through.
THEOREM ScriptsRecognisedHolds == Spec => []ScriptsRecognised
  <1>1. CInv => ScriptsRecognised
    BY DEF CInv, ScriptsRecognised, Done
  <1> QED
    BY InitCInv, NextCInv, <1>1, PTL DEF Spec

=============================================================================
