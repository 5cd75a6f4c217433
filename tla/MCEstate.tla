------------------------------ MODULE MCEstate ------------------------------
(***************************************************************************)
(* Small instances of Estate for TLC.                                      *)
(***************************************************************************)
EXTENDS Estate, MCVault

\* Whoever is listed first, and the owner among their own heirs: an heir who
\* never claims is listed before and after one who does.
MCTablesEstate ==
    {<<Heir(ben, 5000), Heir(ana, 5000)>>,
     <<Heir(owner, 2500), Heir(ana, 7500)>>}

\* One mint; the owner can fund a SOL vault or an SPL one, an heir has a
\* lamport and a token to give away.
MCGrantsEstate ==
    [w \in {owner, ana, ben} |->
        noMint :> (CASE w = owner -> 6 [] w = ana -> 1 [] OTHER -> 0)
        @@ gold :> (CASE w = owner -> 4 [] w = ana -> 1 [] OTHER -> 0)]

=============================================================================
