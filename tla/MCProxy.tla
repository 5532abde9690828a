------------------------------- MODULE MCProxy -------------------------------
(* Small instances of Proxy and ProxyGate for TLC. *)
EXTENDS ProxyGate

\* A job ID without and one with a slash.
Plain   == <<"a">>
Slashed == <<"a", "b">>
IDs     == {Plain, Slashed}
PathSegments == {"v1", "job", "jobs", "plan", "validate", "evaluate", "nomad", "a", "b"}

SendLine(method, path) == [method |-> method, path |-> path]

\* Both methods, every path NACP looks for, a path it does not recognise, and
\* requests that only look alike.
AllLines ==
    {SendLine("PUT", JobsPath), SendLine("POST", JobPath(Plain)), SendLine("PUT", PlanPath(Plain)),
     SendLine("POST", ValidatePath), SendLine("PUT", JobPath(Slashed)),
     SendLine("GET", JobPath(Plain)), SendLine("PUT", JobPath(Plain) \o <<"evaluate">>)}

\* One line of each route.
RouteLines ==
    {SendLine("POST", JobPath(Plain)), SendLine("PUT", PlanPath(Plain)),
     SendLine("PUT", ValidatePath), SendLine("GET", JobsPath)}

RegisterLines == {SendLine("PUT", JobsPath)}
ValidateLines == {SendLine("PUT", ValidatePath)}
SlashedLines  == {SendLine("PUT", JobPath(Slashed)), SendLine("PUT", PlanPath(Slashed))}

NoPath     == <<>>
PathPrefix == <<"nomad">>
=============================================================================
