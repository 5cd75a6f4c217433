------------------------------- MODULE Client -------------------------------
(***************************************************************************)
(* dmsctl: an operator gives a command, its transaction is sent and then   *)
(* polled for (keeper/internal/client/client.go, send and confirm), and    *)
(* the command ends with an answer, after which the operator may repeat    *)
(* it.  The cluster goes on by itself: it lands a transaction, perhaps on  *)
(* a fork that it abandons later, or never.                                *)
(*                                                                         *)
(* Every command is one transaction of one instruction, so what the        *)
(* instruction is makes no difference here; whether it succeeds is up to   *)
(* the vault it finds.  Time is not counted: the limits of 90 seconds and  *)
(* of two minutes may be reached after any number of polls.                *)
(***************************************************************************)
EXTENDS Naturals

CONSTANT MAX_TRIES  \* bound of the model: how often the command is given

ASSUME TriesAssumption == MAX_TRIES \in Nat \ {0}

VARIABLES
    try,        \* the number of the present command
    tx,         \* the transaction of each command, as the cluster has it
    phase,      \* what the command is doing
    polled,     \* confirm has asked once at least
    lostPoll,   \* lastErr # nil
    answer      \* what each command told the operator

vars == <<try, tx, phase, polled, lostPoll, answer>>

Tries == 1..MAX_TRIES

\* In a block of a fork that has not been voted on, or for good.
Processed == {"processed ok", "processed failed"}
Confirmed == {"ok", "failed"}

TxStates == {"unsent", "pending", "expired"} \cup Processed \cup Confirmed

\* The answers of send and of confirm, in the order of the code.
Errors ==
    {"no blockhash", "sending", "failed on-chain", "context ended",
     "could not confirm", "not confirmed in time"}

Init ==
    /\ try = 0
    /\ tx = [i \in Tries |-> "unsent"]
    /\ phase = "over"
    /\ polled = FALSE
    /\ lostPoll = FALSE
    /\ answer = [i \in Tries |-> "none"]

-----------------------------------------------------------------------------
(* The cluster. *)

Becomes(i, from, to) ==
    /\ tx[i] \in from
    /\ tx' = [tx EXCEPT ![i] = to]
    /\ UNCHANGED <<try, phase, polled, lostPoll, answer>>

\* A block of some fork takes the transaction, and the program accepts it or
\* not: on one fork it may find what it needs, on another one not.
Process(i) == \E to \in Processed : Becomes(i, {"pending"}, to)

\* The fork is abandoned; the transaction can land on another one.
Abandon(i) == Becomes(i, Processed, "pending")

Confirm(i) ==
    \/ Becomes(i, {"processed ok"}, "ok")
    \/ Becomes(i, {"processed failed"}, "failed")

\* The blockhash is too old: nobody takes the transaction any more.
Expire(i) == Becomes(i, {"pending"}, "expired")

-----------------------------------------------------------------------------
(* The command. *)

\* The operator gives the command, again if it did not end well.
Begin ==
    /\ phase = "over"
    /\ try < MAX_TRIES
    /\ try > 0 => answer[try] # "ok"
    /\ try' = try + 1
    /\ phase' = "send"
    /\ polled' = FALSE /\ lostPoll' = FALSE
    /\ UNCHANGED <<tx, answer>>

End(what) ==
    /\ phase' = "over"
    /\ answer' = [answer EXCEPT ![try] = what]

\* send, up to the call that sends: no blockhash.
NoBlockhash ==
    /\ phase = "send"
    /\ End("no blockhash")
    /\ UNCHANGED <<try, tx, polled, lostPoll>>

\* The call that sends.  When it fails the node may have refused the
\* transaction, or have passed it on while the answer was lost.
Send ==
    /\ phase = "send"
    /\ \/ /\ phase' = "confirm"
          /\ tx' = [tx EXCEPT ![try] = "pending"]
          /\ UNCHANGED answer
       \/ /\ End("sending")
          /\ \E to \in {"unsent", "pending"} : tx' = [tx EXCEPT ![try] = to]
    /\ UNCHANGED <<try, polled, lostPoll>>

\* Wrong: a transaction is taken for good as soon as some block has it.
Succeeded_BugProcessed(state) == state \in {"processed ok", "ok"}

\* err = nil, and ConfirmationStatus is confirmed or finalized.
Succeeded(state) == state = "ok"

\* status.Err # nil, at whatever confirmation.
Failed(state) == state \in {"processed failed", "failed"}

Poll ==
    /\ phase = "confirm"
    /\ polled' = TRUE
    /\ \/ /\ lostPoll' = TRUE
          /\ UNCHANGED <<phase, answer>>
       \/ /\ UNCHANGED lostPoll
          /\ IF Failed(tx[try]) THEN End("failed on-chain")
             ELSE IF Succeeded(tx[try]) THEN End("ok")
             ELSE UNCHANGED <<phase, answer>>
    /\ UNCHANGED <<try, tx>>

\* Wrong: without an error there is nothing to give up for.
GiveUp_BugOnlyOnError ==
    /\ phase = "confirm"
    /\ polled /\ lostPoll
    /\ End("could not confirm")
    /\ UNCHANGED <<try, tx, polled, lostPoll>>

\* The two minutes of the context are over, or the 90 seconds of confirm.
GiveUp ==
    /\ phase = "confirm"
    /\ polled
    /\ \/ End("context ended")
       \/ lostPoll /\ End("could not confirm")
       \/ ~lostPoll /\ End("not confirmed in time")
    /\ UNCHANGED <<try, tx, polled, lostPoll>>

-----------------------------------------------------------------------------

Cluster == \E i \in Tries : Process(i) \/ Abandon(i) \/ Confirm(i) \/ Expire(i)

Command == NoBlockhash \/ Send \/ Poll \/ GiveUp

Next == Cluster \/ Begin \/ Command

Spec == Init /\ [][Next]_vars

FirstPoll == ~polled /\ Poll

\* A call to the node ends, with an answer or with the context, and so does the
\* loop of confirm.  Nothing is asked of the cluster, nor of the operator, nor
\* of the polls that follow the first.
Fairness ==
    /\ WF_vars(NoBlockhash \/ Send)
    /\ WF_vars(FirstPoll)
    /\ WF_vars(GiveUp)

LiveSpec == Spec /\ Fairness

-----------------------------------------------------------------------------
(* Properties. *)

TypeOK ==
    /\ try \in 0..MAX_TRIES
    /\ tx \in [Tries -> TxStates]
    /\ phase \in {"over", "send", "confirm"}
    /\ polled \in BOOLEAN
    /\ lostPoll \in BOOLEAN
    /\ answer \in [Tries -> {"none", "ok"} \cup Errors]

\* A command that says that it is done is done, for good: its instruction has
\* taken effect on the chain that everybody will agree on, however many blocks
\* that had it were abandoned before.
DoneIsDone == \A i \in Tries : answer[i] = "ok" => tx[i] = "ok"

\* Every command ends with an answer, whatever the node and the cluster do: also
\* when no poll is ever answered, or when the transaction never lands.
Running(i) == try = i /\ phase # "over"
Over(i)    == answer[i] # "none"

CommandEnds == \A i \in Tries : Running(i) ~> Over(i)

=============================================================================
