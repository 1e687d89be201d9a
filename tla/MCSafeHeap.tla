----------------------------- MODULE MCSafeHeap -----------------------------
(***************************************************************************)
(* The library with the one policy row its lookup ever returns, and what   *)
(* the repository says of it that the code does not keep.                  *)
(***************************************************************************)
EXTENDS SafeHeap, TLC

LookedUp == { sh_get_protection_policy(g) : g \in Grades }
AddrSymmetry == Permutations(TabAddr) \union Permutations(EntryAddr)

(* DOCUMENTATION line 69: every variable is divided into segments of its   *)
(* own; allocating another one takes none away.                            *)
VariablesKeepSegments == pc = "idle" => \A v \in DOMAIN issued : SegmentsIntact(v)
=============================================================================
