----------------------------- MODULE MCDedupCache -----------------------------
(***************************************************************************)
(* Small instances of DedupCache: more keys than entries, so that round-   *)
(* robin replacement evicts runs that are still open, and a repeat counter *)
(* that wraps within the bound on findings.                                *)
(***************************************************************************)
EXTENDS DedupCache, TLC

\* Keys are interchangeable.
KeySymmetry == Permutations(Keys)
===============================================================================
