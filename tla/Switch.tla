------------------------------- MODULE Switch -------------------------------
(***************************************************************************)
(* What the program promises to everybody who watches one vault: the       *)
(* dead-man switch itself, without tables, balances and accounts.  Vault   *)
(* implements it; Keeper watches several of them.                          *)
(***************************************************************************)
EXTENDS Account

VARIABLES
    now,        \* the clock of the cluster
    account     \* what can be read at the address of the vault

Init == now = 0 /\ account = NoAccount

Tick == now' = now + 1 /\ UNCHANGED account

Instruction == account' \in Successors(account, now) /\ UNCHANGED now

Next == Tick \/ Instruction

Spec == Init /\ [][Next]_<<now, account>>

=============================================================================
