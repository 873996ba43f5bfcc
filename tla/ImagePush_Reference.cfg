\* Every reference of up to three components over a host-like name, a
\* service name and a container name, for each service and staging state.
\* A run ends, so a final state is not a deadlock.
SPECIFICATION Spec
CONSTANTS
    Names = {"localhost", "myapp", "web"}
    Services = {"myapp", "web"}
INVARIANT
    PushedRepoIsReferencePath
CHECK_DEADLOCK FALSE
