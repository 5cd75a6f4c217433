------------------------------ MODULE MCBlink -------------------------------
(***************************************************************************)
(* Small instances of Blink for TLC.                                       *)
(***************************************************************************)
EXTENDS Blink

CONSTANTS owner, ana, ben, nobody, noMint, gold

\* Two heirs, whose shares of three lamports differ; the owner as an heir.
Heir(key, bps) == [address |-> key, share_bps |-> bps]
MCTables ==
    {<<Heir(ana, 5000), Heir(ben, 5000)>>, <<Heir(owner, 4000), Heir(ana, 6000)>>}

\* The owner can open the vault and put three lamports in it.
MCGrants ==
    [w \in {owner, ana, ben} |->
        [a \in {noMint, gold} |-> IF w = owner /\ a = noMint THEN 4 ELSE 0]]

\* The owner can open the vault and put three tokens in it.
MCGrantsSpl ==
    [w \in {owner, ana, ben} |->
        [a \in {noMint, gold} |->
            IF w # owner THEN 0 ELSE IF a = noMint THEN 1 ELSE 3]]
=============================================================================
