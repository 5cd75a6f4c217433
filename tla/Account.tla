------------------------------ MODULE Account ------------------------------
(***************************************************************************)
(* A vault as those see it who only read it: when the owner last checked   *)
(* in, the timeout, and whether an heir has claimed.  The keeper decides   *)
(* everything it does from these fields.                                   *)
(***************************************************************************)
EXTENDS Integers

CONSTANT Timeouts   \* the timeouts a vault may be opened with

ASSUME TimeoutsAssumption == Timeouts \subseteq Nat \ {0}

Accounts ==
    [open : BOOLEAN, last_checkin : Nat, timeout : Nat, is_claimed : BOOLEAN]

\* There is no account at the address.
NoAccount ==
    [open |-> FALSE, last_checkin |-> 0, timeout |-> 0, is_claimed |-> FALSE]

\* The moment heirs may start claiming.
Deadline(v) == v.last_checkin + v.timeout

Opened(t) ==
    {[open |-> TRUE, last_checkin |-> t, timeout |-> s, is_claimed |-> FALSE]
        : s \in Timeouts}

\* What one instruction at time t may turn the account into: the owner opens
\* it, closes it, or checks in as long as nobody has claimed; an heir claims
\* once the deadline has come.  No other instruction writes what is seen here.
Successors(v, t) ==
    IF ~v.open
    THEN Opened(t)
    ELSE {NoAccount}
         \cup (IF v.is_claimed THEN {} ELSE {[v EXCEPT !.last_checkin = t]})
         \cup (IF t < Deadline(v) THEN {} ELSE {[v EXCEPT !.is_claimed = TRUE]})

=============================================================================
