----------------------------- MODULE Classifier -----------------------------
(***************************************************************************)
(* The payload classifier (pkg/ftdetect DetectFile), which the yeet client *)
(* runs on a file before it stages it (yeet.go tryRunFile), with the       *)
(* remote catch's GOOS and GOARCH.                                         *)
(*                                                                         *)
(* detect() tries the detectors in a fixed order, each from offset 0, and *)
(* returns at the first that errs or succeeds.  A file is abstracted to    *)
(* the facts the detectors tell apart: its length (4 stands for "four     *)
(* bytes or more"), the kind of its first bytes, the CPU of a native       *)
(* binary, whether its ELF header parses, what yaml.Unmarshal makes of it  *)
(* and whether esbuild parses it as TypeScript.                            *)
(***************************************************************************)
EXTENDS Naturals

CONSTANTS
    GOOS,      \* systems a catch may report
    GOARCH,    \* architectures a catch may report
    Machines   \* CPUs a native binary may be built for, as GOARCH names

\* Magic-number classes of a file's first bytes.
Magics == {"elf", "macho", "zstd", "shebang", "other"}

\* What yaml.Unmarshal into struct{Services map[string]any} meets: a
\* mapping with a top-level services key, a mapping without one (both
\* unmarshal without error), a scalar document, or text that is not YAML.
YamlForms == {"services", "mapping", "scalar", "invalid"}

\* The files a user can hand to "yeet run".  The magic numbers need four
\* bytes and a shebang two; binary content is neither YAML nor TypeScript.
Files ==
    { f \in [len : 0..4, magic : Magics, cpu : Machines, elfOk : BOOLEAN,
             yaml : YamlForms, ts : BOOLEAN] :
        /\ f.magic \in {"elf", "macho", "zstd"} => f.len = 4
        /\ f.magic = "shebang" => f.len >= 2
        /\ f.magic \in {"elf", "macho", "zstd"} => f.yaml = "invalid" /\ ~f.ts
        /\ f.magic # "elf" => ~f.elfOk
        /\ f.magic \notin {"elf", "macho"} => f.cpu = CHOOSE m \in Machines : TRUE }

\* detectArchitectureElf: the name the code gives an ELF e_machine.
ElfArch(cpu) ==
    CASE cpu = "amd64" -> "x86_64"
      [] cpu = "386"   -> "x86"
      [] cpu = "arm"   -> "ARM"
      [] cpu = "arm64" -> "ARM64"
      [] OTHER         -> "unknown"

\* hostArchitecture: the name the code gives the host's GOARCH.
HostArch(goarch) ==
    CASE goarch = "amd64" -> "x86_64"
      [] goarch = "386"   -> "x86"
      [] goarch = "arm"   -> "ARM"
      [] goarch = "arm64" -> "ARM64"
      [] OTHER            -> "unknown"

VARIABLES
    file,     \* the file being classified
    goos,     \* the goos argument
    goarch,   \* the goarch argument
    step,     \* the detector detect() runs next, or "done"
    result,   \* the FileType returned
    failed    \* whether an error was returned with it

vars == <<file, goos, goarch, step, result, failed>>

\* detect() returns t with or without an error.
Return(t, e) == step' = "done" /\ result' = t /\ failed' = e

Continue(s) == step' = s /\ UNCHANGED <<result, failed>>

\* DetectFile opened the file: classification starts with detectBinary.
Init ==
    /\ file \in Files
    /\ goos \in GOOS
    /\ goarch \in GOARCH
    /\ step = "binary"
    /\ result = "Unknown"
    /\ failed = FALSE

\* Mutant: the goos check of detectBinary is missing.
DetectBinary_NoOSCheck ==
    /\ step = "binary"
    /\ IF file.len < 4 THEN Return("Unknown", TRUE)
       ELSE IF file.magic \in {"elf", "macho"} THEN Continue("arch")
       ELSE Continue("zstd")
    /\ UNCHANGED <<file, goos, goarch>>

\* detectBinary: io.ReadFull of a four-byte magic fails on a shorter file;
\* an ELF on darwin or a Mach-O elsewhere is an error, either magic on the
\* matching system goes on to isSameArch.
DetectBinary ==
    /\ step = "binary"
    /\ IF file.len < 4 THEN Return("Unknown", TRUE)
       ELSE IF file.magic = "elf"
            THEN IF goos = "darwin" THEN Return("Unknown", TRUE) ELSE Continue("arch")
       ELSE IF file.magic = "macho"
            THEN IF goos # "darwin" THEN Return("Unknown", TRUE) ELSE Continue("arch")
       ELSE Continue("zstd")
    /\ UNCHANGED <<file, goos, goarch>>

\* isSameArch: elf.NewFile must parse the binary (a Mach-O never does);
\* the binary is accepted when the two architecture names are equal, and
\* a mismatch is returned as an error.
IsSameArch ==
    /\ step = "arch"
    /\ IF file.elfOk /\ ElfArch(file.cpu) = HostArch(goarch)
       THEN Return("Binary", FALSE)
       ELSE Return("Unknown", TRUE)
    /\ UNCHANGED <<file, goos, goarch>>

\* Mutant: the shebang check is skipped.
DetectZstd_SkipScript ==
    /\ step = "zstd"
    /\ IF file.magic = "zstd" THEN Return("Zstd", FALSE) ELSE Continue("compose")
    /\ UNCHANGED <<file, goos, goarch>>

\* detectZstd: the four-byte zstd frame magic.
DetectZstd ==
    /\ step = "zstd"
    /\ IF file.magic = "zstd" THEN Return("Zstd", FALSE) ELSE Continue("script")
    /\ UNCHANGED <<file, goos, goarch>>

\* detectScript: "#!" in the first two bytes.
DetectScript ==
    /\ step = "script"
    /\ IF file.magic = "shebang" THEN Return("Script", FALSE) ELSE Continue("compose")
    /\ UNCHANGED <<file, goos, goarch>>

\* detectDockerCompose: any document yaml.Unmarshal accepts into the
\* struct, whether or not it has a services key.
DetectDockerCompose ==
    /\ step = "compose"
    /\ IF file.yaml \in {"services", "mapping"}
       THEN Return("DockerCompose", FALSE)
       ELSE Continue("ts")
    /\ UNCHANGED <<file, goos, goarch>>

\* detectTypeScript: esbuild's errors are returned as an error, so the
\* final "unable to detect file type" return of detect() is never reached.
DetectTypeScript ==
    /\ step = "ts"
    /\ IF file.ts THEN Return("TypeScript", FALSE) ELSE Return("Unknown", TRUE)
    /\ UNCHANGED <<file, goos, goarch>>

Next ==
    \/ DetectBinary \/ IsSameArch \/ DetectZstd \/ DetectScript
    \/ DetectDockerCompose \/ DetectTypeScript

Spec == Init /\ [][Next]_vars

-----------------------------------------------------------------------------
(* Properties, against section 4.B of the specification.                   *)

Done == step = "done"

\* A native binary is accepted only in the executable format of the host
\* system: ELF for a Linux catch, Mach-O for a darwin one.
BinaryForHostOS ==
    Done /\ result = "Binary" =>
        file.magic = IF goos = "darwin" THEN "macho" ELSE "elf"

\* Every script of four bytes or more is classified as a script, even when
\* its text after the shebang line is also valid YAML or TypeScript (the
\* order of the detectors in detect()).
ScriptsRecognised ==
    Done /\ file.magic = "shebang" /\ file.len = 4 => result = "Script"

\* A binary is accepted only when it was built for the host's GOARCH.
BinaryForHostArch ==
    Done /\ result = "Binary" => file.cpu = goarch

\* A file is classified as a compose file only when it has a top-level
\* services key.
ComposeHasServices ==
    Done /\ result = "DockerCompose" => file.yaml = "services"

\* A native binary built for the host, in the host's format, is accepted.
HostBinaryAccepted ==
    /\ Done
    /\ file.magic = (IF goos = "darwin" THEN "macho" ELSE "elf")
    /\ file.elfOk \/ file.magic = "macho"
    /\ file.cpu = goarch
    => result = "Binary"

=============================================================================
