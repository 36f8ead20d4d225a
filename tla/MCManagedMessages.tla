------------------------- MODULE MCManagedMessages -------------------------
(***************************************************************************)
(* ManagedMessages for TLC.  Owners, channels and contents are only        *)
(* compared for equality, so they may be permuted where no temporal        *)
(* property other than an action property is checked.                      *)
(***************************************************************************)
EXTENDS ManagedMessagesProps, TLC

Symmetry ==
    Permutations(Owners) \union Permutations(Channels) \union Permutations(Contents)
=============================================================================
