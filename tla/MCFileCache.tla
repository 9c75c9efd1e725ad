---------------------------- MODULE MCFileCache ----------------------------
(* Instances of FileCache for TLC: two requests, of locations that agree   *)
(* or differ in proxy_cache_min_uses.                                      *)
EXTENDS FileCache, TLC

CONSTANTS r1, r2

TwoRequests == {r1, r2}
OneEach  == r1 :> 1 @@ r2 :> 1
OneOrTwo == r1 :> 1 @@ r2 :> 2

(* Entries, keys and, if they agree, requests are told apart by nothing.   *)
Symmetry ==
  Permutations(Keys) \cup Permutations(Nodes) \cup Permutations(Requests)

=============================================================================
