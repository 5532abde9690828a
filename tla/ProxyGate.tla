------------------------------ MODULE ProxyGate ------------------------------
(***************************************************************************)
(* The proxy implements AdmissionGate for the requests it takes for        *)
(* registrations and plans (Guarded).  Others are mapped to requests that  *)
(* never move.                                                             *)
(***************************************************************************)
EXTENDS Proxy

gate == [r \in Requests |->
    IF ~Guarded(r) THEN "shut"
    ELSE IF pc[r] = "done" /\ wire[r] = "none" THEN "refused"
    ELSE IF pc[r] \in {"ready", "roundtrip"} \/ wire[r] # "none" THEN "open"
    ELSE "shut"]

offer == [r \in Requests |-> IF Guarded(r) THEN job[r] ELSE NoJob]

accepted == [r \in Requests |->
    IF Guarded(r) THEN {v \in Validators : verdict[r][v].vote = "accepts"} ELSE {}]

passed == [r \in Requests |-> IF Guarded(r) THEN nomad[r] ELSE NotSent]

Gate == INSTANCE AdmissionGate WITH
    Offers <- JobOrNone, NoOffer <- NoJob, NotPassed <- NotSent

\* Every behaviour of the proxy is one of the gate for the requests it takes
\* for registrations and plans: between the first vote and
\* the moment Nomad has the job nothing is rewritten, nothing passes without
\* all votes, and a refused request stays refused.
ImplementsGate == Gate!Spec
=============================================================================
