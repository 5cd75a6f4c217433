----------------------------- MODULE MCAnswers -----------------------------
(***************************************************************************)
(* Small instances of Answers for TLC.                                     *)
(***************************************************************************)
EXTENDS MCVault, Answers

\* A table for every way of being refused, besides those of MCTables: six
\* heirs, a heir without a share, and shares that make too little.
MCTablesAll ==
    MCTables \cup
    {[i \in 1..6 |-> Heir(ana, 1000)],
     <<Heir(ana, 0), Heir(ben, 10000)>>,
     <<Heir(ana, 4000), Heir(ben, 4000)>>}

\* The owner can pay the rent and fund a vault of either asset; an heir has a
\* token to give away.
MCGrantsBoth ==
    [w \in {owner, ana, ben} |->
        [a \in {noMint, gold, silver} |->
            CASE w = owner /\ a = noMint -> 6
              [] w = owner /\ a = gold -> 3
              [] w = ana /\ a = gold -> 1
              [] OTHER -> 0]]
=============================================================================
