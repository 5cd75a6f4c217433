------------------------------ MODULE Reminder ------------------------------
(***************************************************************************)
(* The reminder tracker (watch/reminder.go) and the status of a vault      *)
(* (dms/status.go), as functions of what was read and of the time.         *)
(*                                                                         *)
(* An operator named X_Bug... is a deliberately wrong variant of X: the    *)
(* properties of the project are tested by checking that they fail with    *)
(* it.                                                                     *)
(***************************************************************************)
EXTENDS Account, FiniteSetsExt

CONSTANT Thresholds     \* how far ahead of a deadline to warn

\* thresholds() of config.go: none is zero or negative, and of the finite list,
\* which is not empty, one is the widest.
ASSUME ThresholdAssumption ==
    /\ Thresholds \subseteq Nat \ {0}
    /\ \E w \in Thresholds : \A d \in Thresholds : d <= w

\* The sentinel threshold for "the deadline is already behind us".
expired == 0

TimeLeft(v, t) == Deadline(v) - t

-----------------------------------------------------------------------------
(* Status. *)

\* Wrong: the narrowest threshold, as if the list were sorted upwards.
DueSoon_BugAscending == Min(Thresholds)

\* cfg.Thresholds[0], the list being sorted downwards.
DueSoon == Max(Thresholds)

Status(v, t) ==
    LET left == TimeLeft(v, t) IN
    CASE v.is_claimed                           -> "triggered"
      [] ~v.is_claimed /\ left <= 0             -> "expired"
      [] ~v.is_claimed /\ left \in 1..DueSoon   -> "due_soon"
      [] ~v.is_claimed /\ left > DueSoon        -> "active"

NeedsAttention(s) == s \in {"due_soon", "expired"}

-----------------------------------------------------------------------------
(* What the tracker remembers of a vault. *)

Entries ==
    [tracked : BOOLEAN, deadline : Nat, fired : SUBSET (Thresholds \cup {expired})]

Untracked == [tracked |-> FALSE, deadline |-> 0, fired |-> {}]

Armed(v) == [tracked |-> TRUE, deadline |-> Deadline(v), fired |-> {}]

\* Wrong: a moved deadline does not start the cycle over.
Recall_BugNoReset(e, v) ==
    IF e.tracked THEN [e EXCEPT !.deadline = Deadline(v)] ELSE Armed(v)

\* The entry the fired set belongs to: a deadline that moved arms it again.
Recall(e, v) == IF e.tracked /\ e.deadline = Deadline(v) THEN e ELSE Armed(v)

\* Wrong: what is remembered is the time left, not the thresholds.
Reached_BugTimeLeft(left) ==
    {IF left <= 0 THEN expired ELSE left}

\* Every threshold that has been reached; past the deadline only "expired"
\* counts.
Reached(left) ==
    IF left <= 0 THEN {expired} ELSE {d \in Thresholds : left <= d}

\* The threshold to remind of, if any: the most urgent one reached, unless it
\* has fired before.
News(e, left) ==
    {d \in Reached(left) \ e.fired : \A c \in Reached(left) : d <= c}

\* Wrong: having reported the expiry is not remembered.
Fire_BugExpiryForgotten(e, left) ==
    [e EXCEPT !.fired = @ \cup (Reached(left) \ {expired})]

\* What Due leaves behind of an entry.
Fire(e, left) ==
    IF News(e, left) = {} THEN e ELSE [e EXCEPT !.fired = @ \cup Reached(left)]

=============================================================================
