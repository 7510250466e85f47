---------------------------- MODULE MCPostChit ----------------------------
(***************************************************************************)
(* Small instances of PostChit for TLC.                                    *)
(***************************************************************************)
EXTENDS PostChit, TLC

\* Accounts, texts, photos, places and chains are only compared for equality.
PostChitSymmetry ==
    Permutations(Texts) \cup Permutations(Images) \cup Permutations(Places)
        \cup Permutations(Posts) \cup Permutations(Positions)
        \cup Permutations(Accounts)
=============================================================================
