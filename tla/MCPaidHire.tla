------------------------------ MODULE MCPaidHire ------------------------------
(* Instances of PaidHire for TLC. *)
EXTENDS PaidHire, TLC

CONSTANTS p1, a1, a2

OnePayload == [a \in Hires |-> p1]

\* Calls of the hire route that present the same payload are interchangeable.
SameCalls == Permutations(Hires)

AllOutcomes  == ForwardOutcomes
\* Forwarding succeeds or fails; a bare record and an exception are left to the other runs.
MostOutcomes == ForwardOutcomes \ {"recorded", "throws"}
FaultOutcomes == {"completed", "unverified", "ackTimeout"}
FewOutcomes  == {"completed", "ackTimeout"}

MixedLateReturns ==
    {<<"route", "completed">>, <<"relay", "invalid">>, <<"reconcile", "failed">>}
TwoLateReturns == {<<"route", "completed">>, <<"relay", "invalid">>}
RouteReturns == {"route"} \X LateOutcomes

BothHashes == {{"seller", "protocolFee"}}
SomeHashes == {{}, {"seller", "protocolFee"}}
PaidHashes == {{"seller"}, {"seller", "protocolFee"}}
=============================================================================
