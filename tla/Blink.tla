------------------------------- MODULE Blink --------------------------------
(***************************************************************************)
(* The Action server (keeper/internal/blink/server.go) and a wallet that   *)
(* uses it.  The server reads the vault, looks at its clock, and answers   *)
(* with a card, a refusal or a transaction to sign; the vault goes on      *)
(* between the reading and the answer, and between the answer and the      *)
(* moment the signed transaction lands, if it ever does.                   *)
(*                                                                         *)
(* The server's clock is taken to be the cluster's.  A request that cannot *)
(* be parsed, an address without a vault and a node that gives no          *)
(* blockhash end a request without a statement about the vault: they are   *)
(* requests that are never answered.                                       *)
(***************************************************************************)
EXTENDS Answers

VARIABLE session    \* the request, then the answer to it, and its fate

blinkVars == <<vars, session>>

Kinds == {"check_in", "claim"}

NoSession == [said |-> "nothing"]

\* A request that load has read the vault for: a GET wants a card, a POST a
\* transaction.  same: the vault was not closed since.
Reading(get, kind, account) ==
    [get |-> get, kind |-> kind, account |-> account, vault |-> vault,
     same |-> TRUE, said |-> "asked", until |-> 0]

BlinkInit == Init /\ session = NoSession

-----------------------------------------------------------------------------
(* The chain. *)

\* Anybody does anything with the vault, this wallet through another client
\* included.  A reading of a vault that is closed is one of an earlier vault.
Elsewhere ==
    /\ Next
    /\ session' = IF session = NoSession THEN session
                  ELSE [session EXCEPT !.same = @ /\ open']

-----------------------------------------------------------------------------
(* The server. *)

\* TimeLeft, of a vault the server has read.
TimeLeft(v, t) == Deadline(v) - t

Load(get, kind, account) ==
    /\ session = NoSession
    /\ open
    /\ session' = Reading(get, kind, account)
    /\ UNCHANGED vars

Working(get, kind) ==
    session.said = "asked" /\ session.get = get /\ session.kind = kind

\* What the answer says, and the time that it names.
Respond(said, until) ==
    /\ session' = [session EXCEPT !.said = said, !.until = until]
    /\ UNCHANGED vars

\* The cards are disabled with a reason, or live.
GetCheckIn ==
    /\ Working(TRUE, "check_in")
    /\ Respond(IF session.vault.is_claimed THEN "claimed" ELSE "live", 0)

GetClaim ==
    /\ Working(TRUE, "claim")
    /\ IF TimeLeft(session.vault, now) > 0
       THEN Respond("early", Deadline(session.vault))
       ELSE Respond("live", 0)

\* Wrong: the timer is announced as if it were extended, not started over.
LockedUntil_BugExtended(v) == Deadline(v) + v.timeout_seconds

\* "your heirs stay locked out until".
LockedUntil(v) == now + v.timeout_seconds

PostCheckIn ==
    /\ Working(FALSE, "check_in")
    /\ IF session.account # Owner THEN Respond("owner", 0)
       ELSE IF session.vault.is_claimed THEN Respond("claimed", 0)
       ELSE Respond("sign", LockedUntil(session.vault))

\* Index and the heir's flag.
HasClaimed(v, account) ==
    \E i \in Active(v) : HeirAt(v, account, i) /\ v.beneficiaries[i].claimed

Named(v, account) == \E i \in Active(v) : v.beneficiaries[i].address = account

\* Wrong: one heir's claim is taken for everybody's.
PostClaim_BugAnyClaimed ==
    LET v == session.vault IN
    /\ Working(FALSE, "claim")
    /\ IF ~Named(v, session.account) THEN Respond("nobody", 0)
       ELSE IF v.is_claimed THEN Respond("paid", 0)
       ELSE IF TimeLeft(v, now) > 0 THEN Respond("early", Deadline(v))
       ELSE Respond("sign", 0)

\* Wrong: who has claimed already is not noticed.
PostClaim_BugTwice ==
    LET v == session.vault IN
    /\ Working(FALSE, "claim")
    /\ IF ~Named(v, session.account) THEN Respond("nobody", 0)
       ELSE IF TimeLeft(v, now) > 0 THEN Respond("early", Deadline(v))
       ELSE Respond("sign", 0)

PostClaim ==
    LET v == session.vault IN
    /\ Working(FALSE, "claim")
    /\ IF ~Named(v, session.account) THEN Respond("nobody", 0)
       ELSE IF HasClaimed(v, session.account) THEN Respond("paid", 0)
       ELSE IF TimeLeft(v, now) > 0 THEN Respond("early", Deadline(v))
       ELSE Respond("sign", 0)

-----------------------------------------------------------------------------
(* The wallet. *)

\* The instruction in the transaction; a claim is always one of SOL.
Instruction(kind, account) ==
    \/ kind = "check_in" /\ CheckIn(account)
    \/ kind = "claim" /\ ClaimSol(account)

\* The wallet has signed, and the transaction goes through.  One that fails
\* changes nothing.
Land ==
    /\ session.said = "sign"
    /\ Instruction(session.kind, session.account)
    /\ session' = [session EXCEPT !.said = "landed"]

\* The wallet goes away, or asks anew.  A transaction it was handed may land
\* later all the same, then as one of those elsewhere.
Leave ==
    /\ session # NoSession
    /\ session' = NoSession
    /\ UNCHANGED vars

BlinkNext ==
    \/ Elsewhere
    \/ \E get \in BOOLEAN, kind \in Kinds, account \in Wallets : Load(get, kind, account)
    \/ GetCheckIn \/ GetClaim \/ PostCheckIn \/ PostClaim
    \/ Land \/ Leave

BlinkSpec == BlinkInit /\ [][BlinkNext]_blinkVars

-----------------------------------------------------------------------------
(* Properties. *)

\* "Checking in resets the timer; your heirs stay locked out until ...": however
\* old the reading was and however late the check-in landed, no heir claims
\* before the time that the owner was told.
LockedOutAsTold ==
    session.said = "landed" /\ session.kind = "check_in" /\ session.same =>
        IF vault.is_claimed THEN now >= session.until
        ELSE Deadline(vault) >= session.until

AnyClaim(account) == ClaimSol(account) \/ \E m \in Mints : ClaimSpl(account, m)

\* Nobody is turned away from what they could do: what a refusal, decided on a
\* reading of the vault that may be old, says cannot be done is not done while it
\* stands: no check-in and no claim of their own for those told "already been
\* claimed" and "already claimed your share", ever; no claim of anybody's for
\* those told "too early", until the time named.
RefusalStep ==
    session # NoSession /\ session.same =>
        CASE session.said \in {"owner", "claimed"} -> ~CheckIn(session.account)
          [] session.said = "paid" -> ~AnyClaim(session.account)
          [] session.said = "early" /\ now < session.until ->
                \A w \in Wallets : ~AnyClaim(w)
          [] OTHER -> TRUE

RefusalStands == [][RefusalStep]_blinkVars

\* The answer is about the vault as it is.
Current == session.same /\ session.vault = vault

\* What is left of a SOL vault for the account, when it claims now.
Payable(account) ==
    \E i \in Active(vault) :
        HeirAt(vault, account, i) /\ ClaimAmount(vault, i, Withdrawable) > 0

\* The program's answer to the transaction.
LandingAnswer(kind, account) ==
    IF kind = "check_in" THEN CheckInAnswer(account) ELSE ClaimSolAnswer(account)

\* The server's checks say the same as the program's: a transaction it hands
\* out is answered Ok whenever the vault is still as it was read, if it starts a
\* timer that fits the clock, or claims from a vault of SOL that owes the heir
\* something.
HandedOutIsAccepted ==
    /\ session.said = "sign"
    /\ Current
    /\ IF session.kind = "check_in" THEN DeadlineFits([vault EXCEPT !.last_checkin = now])
       ELSE IsSol(vault) /\ Payable(session.account)
    => LandingAnswer(session.kind, session.account) = "Ok"

-----------------------------------------------------------------------------
(* What the documentation says and the code does not do. *)

\* Comment in postCheckIn (blink/server.go): the checks exist "so the user is told
\* why before they sign, instead of watching a transaction fail in their
\* wallet".  So an heir who could claim now is not handed a claim that fails.
ToldBeforeSigning ==
    session.said = "sign" /\ session.kind = "claim" /\ ENABLED AnyClaim(session.account)
        => ENABLED Instruction(session.kind, session.account)

=============================================================================
