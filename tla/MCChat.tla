------------------------------- MODULE MCChat -------------------------------
EXTENDS Chat

CONSTANTS a1, a2

Pair == {a1, a2}

Session(t, n, stops, interrupts, results) ==
  [threads |-> t, prompts |-> n, stops |-> stops, interrupts |-> interrupts,
   results |-> results]

Any == {"answer", "silent", "error", "limited", "fatal"}

\* The queue needs a prompt more than threads, and with one thread two more;
\* the tracker needs two runs at once and every result; a cancellation needs
\* an agent that fails, for what it must not do then.
MCSettings ==
  {Session(1, 3, 1, 0, {"answer"}), Session(1, 3, 0, 1, {"answer"}),
   Session(2, 3, 1, 0, {"answer"}), Session(2, 2, 0, 0, Any),
   Session(1, 2, 1, 0, {"answer", "silent"}), Session(2, 2, 1, 0, {"answer", "silent"}),
   Session(1, 2, 1, 1, {"answer"}), Session(2, 2, 0, 1, {"answer"})}
=============================================================================
