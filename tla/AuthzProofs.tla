----------------------------- MODULE AuthzProofs -----------------------------
(***************************************************************************)
(* Proof that the front ends' access control (Authz!AccessControl) holds  *)
(* for all tags, users and SSH user names.                                 *)
(***************************************************************************)
EXTENDS Authz, TLAPS

\* What each step of a request has established so far: a request still at
\* the gate or at verifyCaller has no verdict and no outcome, the registry
\* sends only parsable non-loopback callers to verifyCaller, and an SSH
\* session runs only after verifyCaller accepted it.
IInv ==
    /\ step \in {"gate", "verify", "session", "done"}
    /\ transport \in Transports
    /\ step \in {"gate", "verify"} => verdict = "none"
    /\ step # "done" => outcome = "none"
    /\ step = "verify" /\ transport = "registry" => caller.addrOk /\ ~caller.loopback
    /\ step = "session" => verdict = "allow" /\ transport = "ssh"
    /\ AccessControl

LEMMA InitIInv == Init => IInv
  BY DEF Init, IInv, AccessControl, Done, Transports

LEMMA RegistryGateIInv == IInv /\ RegistryGate => IInv'
  <1> SUFFICES ASSUME IInv, RegistryGate PROVE IInv'
    OBVIOUS
  <1>1. CASE ~caller.addrOk
    BY <1>1 DEF IInv, RegistryGate, Finish, AccessControl, Done
  <1>2. CASE caller.addrOk /\ caller.loopback
    BY <1>2 DEF IInv, RegistryGate, Finish, AccessControl, Done
  <1>3. CASE caller.addrOk /\ ~caller.loopback
    BY <1>3 DEF IInv, RegistryGate, Finish, AccessControl, Done
  <1> QED
    BY <1>1, <1>2, <1>3

LEMMA ApiGateIInv == IInv /\ ApiGate => IInv'
  BY DEF IInv, ApiGate, AccessControl, Done

LEMMA WebGateIInv == IInv /\ WebGate => IInv'
  BY DEF IInv, WebGate, Finish, AccessControl, Done

LEMMA SshGateIInv == IInv /\ SshGate => IInv'
  BY DEF IInv, SshGate, AccessControl, Done

LEMMA VerifyCallerIInv == IInv /\ VerifyCaller => IInv'
  <1> SUFFICES ASSUME IInv, VerifyCaller PROVE IInv'
    OBVIOUS
  <1> DEFINE v == IF ~caller.statusOk \/ ~caller.whoisOk THEN "error"
                  ELSE VerifyCallerDecision(self, caller.node)
  <1>1. CASE v = "allow" /\ transport = "ssh"
    BY <1>1 DEF IInv, VerifyCaller, Finish, AccessControl, Done
  <1>2. CASE v = "allow" /\ transport # "ssh"
    BY <1>2 DEF IInv, VerifyCaller, Finish, AccessControl, Done
  <1>3. CASE v # "allow"
    BY <1>3 DEF IInv, VerifyCaller, Finish, AccessControl, Done
  <1> QED
    BY <1>1, <1>2, <1>3

LEMMA HandleSessionIInv == IInv /\ HandleSession => IInv'
  BY DEF IInv, HandleSession, Finish, AccessControl, Done

LEMMA StutterIInv == IInv /\ UNCHANGED vars => IInv'
  BY DEF IInv, vars, AccessControl, Done

\* On all four front ends, the web UI's static files included, a request
\* reaches a state-bearing handler without a passed verifyCaller only as a
\* loopback read of the registry, a loopback write of the registry is
\* refused with 405, and the only thing served unchecked otherwise is an
\* embedded web UI file, for every configuration of nodes, tags and SSH
\* users.
THEOREM AccessControlHolds == Spec => []AccessControl
  <1>1. Init => IInv
    BY InitIInv
  <1>2. IInv /\ [Next]_vars => IInv'
    BY RegistryGateIInv, ApiGateIInv, WebGateIInv, SshGateIInv, VerifyCallerIInv, HandleSessionIInv,
       StutterIInv DEF Next
  <1>3. IInv => AccessControl
    BY DEF IInv
  <1> QED
    BY <1>1, <1>2, <1>3, PTL DEF Spec

=============================================================================
