---------------------------- MODULE ClientProofs ----------------------------
(***************************************************************************)
(* What a command that ends well means, however often it is repeated: the  *)
(* runs of Client repeat it a few times only.                              *)
(***************************************************************************)
EXTENDS Client, TLAPS

\* A command that has not ended has told nothing yet, nor has one to come: so
\* that a repeated command never rests on what an earlier one was told.
Unanswered ==
    /\ phase # "over" => try \in Tries /\ answer[try] = "none"
    /\ \A i \in Tries : i > try => answer[i] = "none"

ClientInv == TypeOK /\ Unanswered /\ DoneIsDone

\* Nothing has been asked or told at the start.
LEMMA ClientInit == Init => ClientInv
<1> SUFFICES ASSUME Init PROVE ClientInv
  OBVIOUS
<1>1. 0 \in 0..MAX_TRIES
  BY TriesAssumption
<1>2. "unsent" \in TxStates
  BY DEF TxStates
<1>3. TypeOK
  BY <1>1, <1>2 DEF Init, TypeOK
<1>4. Unanswered /\ DoneIsDone
  BY DEF Init, Unanswered, DoneIsDone
<1> QED
  BY <1>3, <1>4 DEF ClientInv

\* The cluster changes what is not for good, and no answer.
LEMMA BecomesKeeps ==
    ASSUME ClientInv, NEW i \in Tries, NEW from, NEW to \in TxStates,
           "ok" \notin from, Becomes(i, from, to)
    PROVE  ClientInv'
<1>1. /\ tx' = [tx EXCEPT ![i] = to] /\ tx[i] # "ok"
      /\ tx \in [Tries -> TxStates]
      /\ UNCHANGED <<try, phase, polled, lostPoll, answer>>
  BY DEF Becomes, ClientInv, TypeOK
<1>2. TypeOK'
  BY <1>1 DEF ClientInv, TypeOK
<1>3. Unanswered'
  BY <1>1 DEF ClientInv, Unanswered
<1>4. \A j \in Tries : tx[j] = "ok" => tx'[j] = "ok"
  BY <1>1
<1>5. DoneIsDone'
  BY <1>1, <1>4 DEF ClientInv, DoneIsDone
<1> QED
  BY <1>2, <1>3, <1>5 DEF ClientInv

\* No step of the cluster takes back what is confirmed.
LEMMA ClusterKeeps ==
    ASSUME ClientInv, NEW i \in Tries,
           Process(i) \/ Abandon(i) \/ Confirm(i) \/ Expire(i)
    PROVE  ClientInv'
<1>1. CASE Process(i)
  <2>1. PICK to \in Processed : Becomes(i, {"pending"}, to)
    BY <1>1 DEF Process
  <2> QED
    BY <2>1, BecomesKeeps DEF TxStates
<1>2. CASE Abandon(i)
  BY <1>2, BecomesKeeps DEF Abandon, Processed, TxStates
<1>3. CASE Confirm(i)
  BY <1>3, BecomesKeeps DEF Confirm, Confirmed, TxStates
<1>4. CASE Expire(i)
  BY <1>4, BecomesKeeps DEF Expire, TxStates
<1> QED
  BY <1>1, <1>2, <1>3, <1>4

\* What a command may tell when it ends, with its transaction as it then is.
LEMMA EndKeeps ==
    ASSUME ClientInv, phase # "over", NEW what \in {"ok"} \cup Errors, End(what),
           tx' \in [Tries -> TxStates],
           \A i \in Tries : i # try => tx'[i] = tx[i],
           what = "ok" => tx'[try] = "ok",
           try' = try, polled' \in BOOLEAN, lostPoll' \in BOOLEAN
    PROVE  ClientInv'
<1>1. /\ try \in Tries /\ try \in Nat /\ Tries \subseteq Nat
      /\ phase' = "over" /\ answer' = [answer EXCEPT ![try] = what]
      /\ answer \in [Tries -> {"none", "ok"} \cup Errors]
  BY DEF End, ClientInv, Unanswered, TypeOK, Tries
<1>2. /\ answer'[try] = what
      /\ \A i \in Tries : i # try => answer'[i] = answer[i]
  BY <1>1
<1>3. TypeOK'
  BY <1>1 DEF ClientInv, TypeOK
<1>4. Unanswered'
  BY <1>1, <1>2 DEF ClientInv, Unanswered
<1>5. DoneIsDone'
  BY <1>1, <1>2 DEF ClientInv, DoneIsDone
<1> QED
  BY <1>3, <1>4, <1>5 DEF ClientInv

\* Sending ends the command or leaves it to be confirmed, with the transaction
\* on its way or not.
LEMMA SendKeeps ==
    ASSUME ClientInv, Send
    PROVE  ClientInv'
<1>1. /\ try \in Tries /\ answer[try] = "none"
      /\ tx \in [Tries -> TxStates]
      /\ polled \in BOOLEAN /\ lostPoll \in BOOLEAN
      /\ UNCHANGED <<try, polled, lostPoll>>
  BY DEF Send, ClientInv, Unanswered, TypeOK
<1>2. CASE /\ phase' = "confirm"
           /\ tx' = [tx EXCEPT ![try] = "pending"]
           /\ UNCHANGED answer
  <2>1. TypeOK'
    BY <1>1, <1>2 DEF ClientInv, TypeOK, TxStates
  <2>2. Unanswered'
    BY <1>1, <1>2 DEF ClientInv, Unanswered
  <2>3. \A i \in Tries : i # try => tx'[i] = tx[i]
    BY <1>1, <1>2
  <2>4. DoneIsDone'
    BY <1>1, <1>2, <2>3 DEF ClientInv, DoneIsDone
  <2> QED
    BY <2>1, <2>2, <2>4 DEF ClientInv
<1>3. CASE /\ End("sending")
           /\ \E to \in {"unsent", "pending"} : tx' = [tx EXCEPT ![try] = to]
  <2>1. PICK to \in {"unsent", "pending"} : tx' = [tx EXCEPT ![try] = to]
    BY <1>3
  <2>2. tx' \in [Tries -> TxStates]
    BY <1>1, <2>1 DEF TxStates
  <2>3. \A i \in Tries : i # try => tx'[i] = tx[i]
    BY <1>1, <2>1
  <2>4. phase # "over" /\ polled' \in BOOLEAN /\ lostPoll' \in BOOLEAN /\ try' = try
    BY <1>1 DEF Send
  <2> QED
    BY <1>3, <2>2, <2>3, <2>4, EndKeeps DEF Errors
<1> QED
  BY <1>2, <1>3 DEF Send

\* A poll ends the command with what it reads, or changes nothing that counts.
LEMMA PollKeeps ==
    ASSUME ClientInv, Poll
    PROVE  ClientInv'
<1>1. /\ phase = "confirm" /\ phase # "over"
      /\ tx \in [Tries -> TxStates] /\ tx' = tx /\ try' = try
      /\ polled' \in BOOLEAN /\ lostPoll' \in BOOLEAN
  BY DEF Poll, ClientInv, TypeOK
<1>2. CASE UNCHANGED <<phase, answer>>
  BY <1>1, <1>2 DEF ClientInv, TypeOK, Unanswered, DoneIsDone
<1>3. CASE End("failed on-chain")
  BY <1>1, <1>3, EndKeeps DEF Errors
<1>4. CASE End("ok") /\ Succeeded(tx[try])
  <2>1. tx'[try] = "ok"
    BY <1>1, <1>4 DEF Succeeded
  <2> QED
    BY <1>1, <1>4, <2>1, EndKeeps
<1> QED
  BY <1>2, <1>3, <1>4 DEF Poll

\* Giving up and finding no blockhash never say that all is well.
LEMMA FailureKeeps ==
    ASSUME ClientInv, NoBlockhash \/ GiveUp
    PROVE  ClientInv'
<1>1. /\ phase # "over" /\ UNCHANGED <<try, tx, polled, lostPoll>>
      /\ tx \in [Tries -> TxStates]
      /\ polled \in BOOLEAN /\ lostPoll \in BOOLEAN
  BY DEF NoBlockhash, GiveUp, ClientInv, TypeOK
<1>2. PICK what \in Errors : End(what)
  BY DEF NoBlockhash, GiveUp, Errors
<1>3. what # "ok"
  BY DEF Errors
<1> QED
  BY <1>1, <1>2, <1>3, EndKeeps

\* A new command starts with nothing told.
LEMMA BeginKeeps ==
    ASSUME ClientInv, Begin
    PROVE  ClientInv'
<1>1. /\ try \in 0..MAX_TRIES /\ try < MAX_TRIES /\ try' = try + 1
      /\ phase' = "send" /\ polled' = FALSE /\ lostPoll' = FALSE
      /\ tx' = tx /\ answer' = answer
  BY DEF Begin, ClientInv, TypeOK
<1>2. try \in Nat /\ try' \in Tries /\ try' \in 0..MAX_TRIES /\ Tries \subseteq Nat
  BY <1>1, TriesAssumption DEF Tries
<1>3. TypeOK'
  BY <1>1, <1>2 DEF ClientInv, TypeOK
<1>4. Unanswered'
  BY <1>1, <1>2 DEF ClientInv, Unanswered
<1>5. DoneIsDone'
  BY <1>1 DEF ClientInv, DoneIsDone
<1> QED
  BY <1>3, <1>4, <1>5 DEF ClientInv

\* Every step keeps the invariant.
LEMMA ClientStep == ClientInv /\ [Next]_vars => ClientInv'
<1> SUFFICES ASSUME ClientInv, [Next]_vars
             PROVE  ClientInv'
  OBVIOUS
<1>1. CASE Cluster
  BY <1>1, ClusterKeeps DEF Cluster
<1>2. CASE Begin
  BY <1>2, BeginKeeps
<1>3. CASE Command
  BY <1>3, SendKeeps, PollKeeps, FailureKeeps DEF Command
<1>4. CASE UNCHANGED vars
  BY <1>4 DEF vars, ClientInv, TypeOK, Unanswered, DoneIsDone
<1> QED
  BY <1>1, <1>2, <1>3, <1>4 DEF Next

\* A command that told its operator that it is done is done for good, however
\* often commands are repeated and forks abandoned (client.go, confirm).
THEOREM DoneIsForGood == Spec => []DoneIsDone
<1>1. ClientInv => DoneIsDone
  BY DEF ClientInv
<1> QED
  BY <1>1, ClientInit, ClientStep, PTL DEF Spec

=============================================================================
