---------------------------- MODULE MCWorkspace ----------------------------
(* A small instance of Workspace for TLC. *)
EXTENDS Workspace, TLC

CONSTANTS a, h

Appends(p) == [do |-> "append", path |-> p, verb |-> "none"]
Removes(p) == [do |-> "remove", path |-> p, verb |-> "none"]
Caches == [do |-> "cache", path |-> a, verb |-> "none"]
Runs(v, p) == [do |-> "verb", path |-> p, verb |-> v]

Terminal(steps) == [tool |-> "terminal", steps |-> steps, ui |-> FALSE]
Python(steps, ui) == [tool |-> "run_python", steps |-> steps, ui |-> ui]

\* A write beside a cache entry and an artifact; a write the session may be
\* refused, alone with a cache entry or beside one it is not; a write before a
\* verb, or after one.
MCScripts ==
    {Python(<<Appends(a), Caches>>, TRUE),
     Python(<<Appends(h), Caches>>, FALSE),
     Terminal(<<Appends(a), Appends(h)>>),
     Terminal(<<Appends(h), Runs("read", a), Appends(a)>>),
     Terminal(<<Appends(a), Runs("read", a), Appends(h)>>),
     Terminal(<<Removes(a), Runs("commit", a)>>),
     Terminal(<<Appends(a), Runs("rewrite", h)>>)}

Opened(frozen, auto, narrow, pooled) ==
    [frozen |-> frozen, auto |-> auto, narrow |-> narrow, pooled |-> pooled]

MCOpenedAs ==
    {Opened(FALSE, TRUE, TRUE, TRUE), Opened(FALSE, TRUE, TRUE, FALSE),
     Opened(FALSE, FALSE, FALSE, TRUE), Opened(TRUE, FALSE, TRUE, FALSE)}
=============================================================================
