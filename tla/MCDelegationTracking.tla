------------------------ MODULE MCDelegationTracking ------------------------
EXTENDS DelegationTracking

\* Who waits and how the steps are executed are independent: parallel steps
\* for a caller that waits, and sequential ones, with a fallback, for one that
\* does not.
MCCalls ==
  {[wait |-> TRUE, parallel |-> TRUE, targets |-> 1],
   [wait |-> FALSE, parallel |-> FALSE, targets |-> 2]}
=============================================================================
