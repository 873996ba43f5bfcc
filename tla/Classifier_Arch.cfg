\* Classification of every abstract file for every host a catch may
\* report; a classification ends, so a final state is not a deadlock.
SPECIFICATION Spec
CONSTANTS
    GOOS = {"linux", "darwin"}
    GOARCH = {"amd64", "arm64", "riscv64"}
    Machines = {"amd64", "arm64", "ppc64le"}
INVARIANT
    BinaryForHostArch
CHECK_DEADLOCK FALSE
