------------------------- MODULE MCMessageRequests -------------------------
(***************************************************************************)
(* MessageRequests for TLC.  Requests, keys, handlers, channels and        *)
(* contents are only compared for equality, so they may be permuted.       *)
(***************************************************************************)
EXTENDS MessageRequests, TLC

Symmetry ==
    Permutations(Requests) \union Permutations(IdemKeys) \union Permutations(Handlers)
        \union Permutations(Channels) \union Permutations(Contents)
=============================================================================
