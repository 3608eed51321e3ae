--------------------------- MODULE MCExecutionIntents ---------------------------
(* Instances of ExecutionIntents for TLC.  BothSpec checks two of them in one run: *)
(* in one every call overlaps every other, in the other changes take turns.        *)
EXTENDS ExecutionIntents, TLC

CONSTANT Held       \* operators that call only where changes take turns

VARIABLE serial
bothVars == <<vars, serial>>

Turns == INSTANCE ExecutionIntents WITH Exclusive <- TRUE

BothInit == serial \in BOOLEAN /\ Init

BothNext ==
    /\ UNCHANGED serial
    /\ \/ serial /\ Turns!Next
       \/ ~serial /\ \E t \in Calls \ Held : Start(t) \/ Proceed(t)

BothSpec == BothInit /\ [][BothNext]_bothVars

\* Only the first of the two; a call that has begun goes on.
OverlapSpec ==
    Init /\ serial = FALSE /\ [][BothNext]_bothVars /\ \A t \in Calls : WF_vars(Proceed(t))

\* Intent ids are random, and calls of one route are alike.
Symmetry == Permutations(Intents) \union Permutations(Operators) \union Permutations(Payers)
              \union Permutations(Accepts)

\* Where changes take turns, every transition ends up anchored (enqueueExecution-
\* IntentTransitionAnchor).
TurnsAreAnchored == serial => Turns!EveryStepIsAnchored

TurnsLifecycle == INSTANCE IntentLifecycle
                    WITH status <- [i \in Intents |-> IF serial THEN file[i].status ELSE "absent"]

\* Where changes take turns, the file implements the lifecycle
\* (assertExecutionIntentTransitionAllowed).
TurnsMoveForward == TurnsLifecycle!Spec
=============================================================================
