------------------------------ MODULE MCKvgit ------------------------------
(* Small instances of KvgitProvider for TLC: each next-state relation below *)
(* is a part of Next, so every run stays small enough to be exhaustive.     *)
EXTENDS KvgitRefinement, TLC

CONSTANTS f, g, ca, cv, bk, cw

\* Handles, sessions and contents are interchangeable.
Symmetry == Permutations(Handles) \cup Permutations(Sessions) \cup Permutations(Values)

Edits(h) == \E k \in Keys, v \in Values \cup {Absent} : Write(h, k, v)
Opens(h) == \E s \in Sessions : Open(h, s)

\* Two handles on one session: commits, refreshes, checkouts and lands racing
\* for its head.
OneSessionNext ==
    \E h \in Handles :
        \/ Opens(h) \/ Edits(h) \/ Commit(h) \/ Discard(h) \/ Refresh(h)
        \/ \E k \in Keys : CommitKeys(h, {k})
        \/ \E c \in Ids : CheckoutBegin(h, c)
        \/ \E base, theirs \in Ids, expect \in Ids \cup {0} :
              base # theirs /\ LandBegin(h, base, theirs, expect)
        \/ Continue(h)

OneSessionSpec == Init /\ [][OneSessionNext]_vars

\* Every verb, with at most one tag held at a time and one key staged by hand
\* (a verb stages as many as it must; two staged keys are in OneSessionNext).
\* Past the bound a merge was the last step that changes the store.
OneTagOneEdit ==
    /\ \A h \in Handles : wt[h].staged # {} /\ wt'[h].staged # wt[h].staged => wt'[h].staged = {}
    /\ Cardinality({x \in Scopes : tags'[x] # 0}) <= 1
    /\ Len(commits) > MaxCommits => UNCHANGED <<commits, branch, tags, swept>>
============================================================================
