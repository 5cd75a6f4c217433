------------------------------ MODULE MCVault ------------------------------
(***************************************************************************)
(* Small instances of Vault for TLC.                                       *)
(***************************************************************************)
EXTENDS Vault, FiniteSetsExt, TLC

CONSTANTS owner, ana, ben, nobody, noMint, gold, silver, spare

Heir(key, bps) == [address |-> key, share_bps |-> bps]

\* Tables an owner may restate: uneven shares, the owner as their own heir, a
\* single heir; and tables to refuse: one whose u16 sum wraps around to
\* exactly 10000, a duplicate, the default key, an empty one.
Wrapping == <<Heir(ana, 40000), Heir(ben, 35536)>>
TwoHeirs == <<Heir(ana, 3333), Heir(ben, 6667)>>
MCTables ==
    {TwoHeirs,
     <<Heir(owner, 2500), Heir(ana, 2500), Heir(ben, 5000)>>,
     Wrapping,
     <<Heir(ana, 5000), Heir(ana, 5000)>>,
     <<Heir(nobody, 10000)>>,
     << >>}

MCTablesSpl ==
    {TwoHeirs, <<Heir(owner, 2500), Heir(ana, 2500), Heir(ben, 5000)>>}

\* The owner can pay the rent and fund the vault; an heir can send a gift.
MCGrantsSol ==
    [w \in {owner, ana, ben} |->
        (noMint :> CASE w = owner -> 12 [] w = ana -> 2 [] OTHER -> 0)]

\* One mint, of which there are two indivisible tokens.
MCGrantsGold ==
    [w \in {owner, ana, ben} |->
        [a \in {noMint, gold} |-> IF w = owner THEN 2 ELSE 0]]

=============================================================================
