------------------------------- MODULE MCPool -------------------------------
(***************************************************************************)
(* Small instances of Pool for TLC.                                        *)
(***************************************************************************)
EXTENDS Pool, TLC

\* Keys of one kind and nullifier values are interchangeable.
Symmetry == Permutations(Authorities) \cup Permutations(Wallets \ Relayers)
            \cup Permutations(Nullifiers)
=============================================================================
