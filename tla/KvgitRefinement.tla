--------------------------- MODULE KvgitRefinement ---------------------------
(* KvgitProvider implements SessionLog: a session's log is the first-parent *)
(* line of its branch head, which is what history() walks.                  *)
EXTENDS KvgitProvider

\* _history_iter: the first parent of each commit, oldest first here.
Lines ==
    LET line[c \in Ids] == IF commits[c].first = 0 THEN <<TreeOf(c)>>
                           ELSE Append(line[commits[c].first], TreeOf(c))
    IN  line

Log == INSTANCE SessionLog WITH
    Empty <- EmptyTree,
    log   <- [s \in Sessions |-> IF branch[s] = 0 THEN <<>> ELSE Lines[branch[s]]],
    saved <- {Lines[c] : c \in Ids}

\* Every verb of the provider, races and retries included, is at most one
\* new entry on one session's log: "the branch head only ever moves forward
\* and every commit made since the target stays in history()".
ImplementsSessionLog == Log!Spec
==============================================================================
