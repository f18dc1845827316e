--------------------------- MODULE MCToolApproval ---------------------------
EXTENDS ToolApproval

\* Two patches of the same two files, named in opposite order, and the tools
\* that hold no lock.
MCTool == {"ask_user", "tasks_delegate", "patch_ab", "patch_ba"}
MCKeysOf ==
    [t \in MCTool |->
        CASE t = "patch_ab" -> <<1, 2>> [] t = "patch_ba" -> <<2, 1>>
          [] OTHER -> <<>>]

CONSTANTS first, second

\* Pairs of calls that meet: in one manager on locks, prompts, the scope and
\* the budget, and from two managers in the broker.
Job(tool, manager) == [tool |-> tool, manager |-> manager]
Pair(j, k) == [r \in {first, second} |-> IF r = first THEN j ELSE k]
MCJobs ==
    {Pair(Job("patch_ab", m), Job("patch_ba", "chat")) : m \in {"chat", "fork"}}
    \cup {Pair(Job(t, "chat"), Job(u, "chat")) :
         <<t, u>> \in {<<"patch_ab", "ask_user">>,
                       <<"tasks_delegate", "tasks_delegate">>}}
=============================================================================
