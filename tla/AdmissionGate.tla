---------------------------- MODULE AdmissionGate ----------------------------
(***************************************************************************)
(* What NACP promises of a job on its way to Nomad, without goroutines,    *)
(* answers or failures: the job on offer may be rewritten until the first  *)
(* validator has accepted it; the gate opens only when all have accepted;  *)
(* what passes is the job they accepted; a refused request never passes.   *)
(***************************************************************************)
CONSTANTS
    Requests,    \* requests that want to pass
    Offers,      \* what may be on offer, NoOffer among it
    NoOffer,
    Validators,
    NotPassed    \* nothing has passed yet

VARIABLES
    gate,        \* gate[r]: "shut", "open" or "refused"
    offer,       \* offer[r]: the job as it is rendered so far
    accepted,    \* accepted[r]: the validators that accepted the offer
    passed       \* passed[r]: what went through

gateVars == <<gate, offer, accepted, passed>>

Init ==
    /\ gate = [r \in Requests |-> "shut"]
    /\ offer = [r \in Requests |-> NoOffer]
    /\ accepted = [r \in Requests |-> {}]
    /\ passed = [r \in Requests |-> NotPassed]

Render(r) ==
    /\ gate[r] = "shut" /\ accepted[r] = {}
    /\ \E j \in Offers : offer' = [offer EXCEPT ![r] = j]
    /\ UNCHANGED <<gate, accepted, passed>>

Accept(r) ==
    /\ gate[r] = "shut" /\ offer[r] # NoOffer
    /\ \E v \in Validators : accepted' = [accepted EXCEPT ![r] = @ \cup {v}]
    /\ UNCHANGED <<gate, offer, passed>>

Open(r) ==
    /\ gate[r] = "shut" /\ offer[r] # NoOffer /\ accepted[r] = Validators
    /\ gate' = [gate EXCEPT ![r] = "open"]
    /\ UNCHANGED <<offer, accepted, passed>>

\* Before anything has passed, an open gate may be closed again.
Refuse(r) ==
    /\ gate[r] \in {"shut", "open"} /\ passed[r] = NotPassed
    /\ gate' = [gate EXCEPT ![r] = "refused"]
    /\ UNCHANGED <<offer, accepted, passed>>

Pass(r) ==
    /\ gate[r] = "open" /\ passed[r] = NotPassed
    /\ passed' = [passed EXCEPT ![r] = offer[r]]
    /\ UNCHANGED <<gate, offer, accepted>>

Next == \E r \in Requests : Render(r) \/ Accept(r) \/ Open(r) \/ Refuse(r) \/ Pass(r)

Spec == Init /\ [][Next]_gateVars
=============================================================================
