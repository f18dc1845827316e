------------------------------ MODULE MCDebate ------------------------------
EXTENDS Debate

\* Nothing, or two work items, the second after the first.
MCPlans == {{}, {1, 2}}
MCDependsOn == [i \in {1, 2} |-> IF i = 2 THEN {1} ELSE {}]
=============================================================================
