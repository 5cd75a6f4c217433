------------------------------- MODULE Estate -------------------------------
(***************************************************************************)
(* The switch with its purpose in view: the owner of a vault may fall      *)
(* silent for good at any moment, nobody else can sign for them, the clock *)
(* goes on, and some of the heirs keep trying to claim.                    *)
(***************************************************************************)
EXTENDS Vault

CONSTANT Diligent   \* the heirs who do claim once they can

ASSUME DiligentAssumption == Diligent \subseteq Wallets \ {Owner}

VARIABLE alive      \* whether the owner can still sign

estateVars == <<vars, alive>>

EstateInit == Init /\ alive = TRUE

CanSign(w) == w = Owner => alive

Die ==
    /\ alive
    /\ alive' = FALSE
    /\ UNCHANGED vars

EstateNext ==
    \/ Die
    \/ Tick /\ UNCHANGED alive
    \/ \E w \in Wallets :
        /\ CanSign(w)
        /\ OwnerInstruction(w) \/ Claim(w) \/ Gift(w)
        /\ UNCHANGED alive

\* Time passes, and a diligent heir does not leave a claim that would go
\* through untried for ever.  Nothing is asked of the owner, of the other heirs
\* or of the keeper.
EstateSpec ==
    /\ EstateInit
    /\ [][EstateNext]_estateVars
    /\ WF_estateVars(Tick /\ UNCHANGED alive)
    /\ \A w \in Diligent : WF_estateVars(Claim(w) /\ UNCHANGED alive)

-----------------------------------------------------------------------------

\* What the heir at slot i would be paid, before rounding leaves the last one
\* more, if the vault tripped now or has tripped already.
Entitlement(i) ==
    ShareOf(PoolAt(vault, Holding), vault.beneficiaries[i].share_bps)

\* The owner is dead, and a diligent heir is still to be paid their share.
Awaited(i) ==
    /\ ~alive /\ open
    /\ i \in Unclaimed(vault)
    /\ vault.beneficiaries[i].address \in Diligent
    /\ Entitlement(i) > 0

\* A diligent heir of a dead owner is paid, whatever the other heirs do or
\* fail to do, provided their share is at least one unit.  (Without that
\* condition it is not so: see NothingStalls.)
HeirGetsPaid ==
    \A i \in Slots : Awaited(i) ~> (open /\ vault.beneficiaries[i].claimed)

\* What the heir at slot i is entitled to stays theirs and does not shrink, or
\* is paid to them.
KeptOrPaid(i) ==
    LET heir == vault.beneficiaries[i].address
    IN  \/ Awaited(i)' /\ Entitlement(i)' >= Entitlement(i)
        \/ /\ Paid(i)
           /\ purse'[heir][vault.mint] - purse[heir][vault.mint] >= Entitlement(i)

\* An heir of a dead owner loses nothing by waiting: whatever others claim or
\* send and in whatever order, what they are entitled to only grows until they
\* claim, and then they are paid no less.
NothingLostByWaiting ==
    [][\A i \in Slots : Awaited(i) => KeptOrPaid(i)]_estateVars

\* When the owner is gone nobody can take their place: the vault stays open,
\* its timer is not moved, its table is not rewritten, and nothing leaves it
\* but what an heir is paid.
NobodyReplacesTheOwner ==
    [][~alive /\ open =>
        /\ open'
        /\ Deadline(vault') = Deadline(vault)
        /\ \A i \in Slots :
            /\ vault'.beneficiaries[i].address = vault.beneficiaries[i].address
            /\ vault'.beneficiaries[i].share_bps = vault.beneficiaries[i].share_bps
        /\ Holding' < Holding => \E i \in Slots : Paid(i)]_estateVars

=============================================================================
