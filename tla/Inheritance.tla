---------------------------- MODULE Inheritance ----------------------------
(***************************************************************************)
(* What the program promises about money: an estate, a will that divides   *)
(* it, and heirs who take their parts one by one.  There are no accounts,  *)
(* token programs, signatures or clocks here (the timer is that of         *)
(* Switch), and of the trip only that it fixes the whole that the parts    *)
(* are taken of.  Vault implements it.                                     *)
(***************************************************************************)
EXTENDS Integers

CONSTANTS
    Wills,  \* sets of bequests [heir, share], none of them empty
    WHOLE   \* what the shares of a will make together

VARIABLES
    will,   \* the bequests; none while there is no vault
    paid,   \* those that have been taken
    whole,  \* what the estate was when the first one was taken
    estate  \* what is in the vault

vars == <<will, paid, whole, estate>>

Init == will = {} /\ paid = {} /\ whole = 0 /\ estate = 0

\* A will is made, of an estate that may be there already.
Make ==
    /\ will = {}
    /\ will' \in Wills
    /\ estate' \in Nat
    /\ UNCHANGED <<paid, whole>>

\* The owner may do everything until the first bequest is taken.
InOwnersHands == will # {} /\ paid = {}

Restate == InOwnersHands /\ will' \in Wills /\ UNCHANGED <<paid, whole, estate>>

Spend == InOwnersHands /\ estate' \in Nat /\ UNCHANGED <<will, paid, whole>>

\* From then on an estate grows by gifts only.
Receive ==
    /\ paid # {}
    /\ estate' \in Nat
    /\ estate' >= estate
    /\ UNCHANGED <<will, paid, whole>>

\* What the bequest b comes to: a part of the whole, rounded down, and for the
\* last heir everything that is left.
Part(b) ==
    IF will = paid \cup {b} THEN estate ELSE (whole' * b.share) \div WHOLE

\* An heir takes their bequest: once, in full, and never nothing.
Inherit(b) ==
    /\ b \in will \ paid
    /\ whole' = IF paid = {} THEN estate ELSE whole
    /\ Part(b) \in 1..estate
    /\ estate' = estate - Part(b)
    /\ paid' = paid \cup {b}
    /\ UNCHANGED will

\* The vault is closed when nothing is left.
Settle == will # {} /\ estate = 0 /\ will' = {} /\ paid' = {} /\ whole' = 0 /\ estate' = 0

Next ==
    \/ Make \/ Restate \/ Spend \/ Receive \/ Settle
    \/ \E b \in will : Inherit(b)

Spec == Init /\ [][Next]_vars

=============================================================================
