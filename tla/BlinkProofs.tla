---------------------------- MODULE BlinkProofs ----------------------------
(***************************************************************************)
(* What comes with an answer of the Action server, for every value of the  *)
(* constants: the promise of a check-in, refusals that stand, transactions *)
(* that the program takes.  A session is related to the vault as of each   *)
(* state: what the server read of it is a past of the vault that there is, *)
(* as long as that one stays open.                                         *)
(***************************************************************************)
EXTENDS Blink, AnswersProofs

Saids == {"asked", "live", "early", "claimed", "owner", "nobody", "paid", "sign", "landed"}

Sessions ==
    [get : BOOLEAN, kind : Kinds, account : Wallets, vault : VaultData,
     same : BOOLEAN, said : Saids, until : Nat]

\* The promise has been kept by the vault v at the time t.
PromiseKept(v, t, until) ==
    IF v.is_claimed THEN t >= until ELSE Deadline(v) >= until

\* The vault v is what became of the reading r while it stayed open: its timer
\* was started again or not, and who had claimed then has claimed now.
Became(r, v) ==
    /\ r.timeout_seconds = v.timeout_seconds
    /\ Deadline(r) <= Deadline(v)
    /\ r.is_claimed => v.is_claimed
    /\ \A a \in Wallets : HasClaimed(r, a) => HasClaimed(v, a)

\* What is said is so of the vault that was read, at the time t and later.
Meant(s, t) ==
    /\ s.said = "owner" => s.account # Owner
    /\ s.said = "claimed" => s.vault.is_claimed
    /\ s.said = "paid" => HasClaimed(s.vault, s.account)
    /\ s.said = "early" => s.until = Deadline(s.vault)
    /\ s.said = "sign" /\ s.kind = "check_in" => s.account = Owner /\ ~s.vault.is_claimed
    /\ s.said = "sign" /\ s.kind = "claim" =>
          ~HasClaimed(s.vault, s.account) /\ Deadline(s.vault) <= t

\* What is known of a session s when the vault is v, is open or not, and the
\* time is t.  A promise that was made lies within a timeout from now, so that
\* a check-in that is yet to land will cover it.
Sound(s, o, v, t) ==
    /\ s \in Sessions
    /\ Meant(s, t)
    /\ s.same => o /\ Became(s.vault, v)
    /\ s.kind = "check_in" /\ s.said \in {"sign", "landed"}
        => s.until <= t + s.vault.timeout_seconds
    /\ s.kind = "check_in" /\ s.said = "landed" /\ s.same => PromiseKept(v, t, s.until)

SessionInv == session = NoSession \/ Sound(session, open, vault, now)

\* No timer was started in the future.
StartedBefore == open => vault.last_checkin <= now

BlinkInv == VaultInv /\ StartedBefore /\ SessionInv

-----------------------------------------------------------------------------
(* Lemmas. *)

\* A session is told from none by what it said.
LEMMA SessionIsNot == \A s \in Sessions : s # NoSession /\ s.said # "nothing"
BY DEF Sessions, Saids, NoSession

\* Landing changes what is said, and leaves the time named as it was.
LEMMA Landing ==
    ASSUME NEW s \in Sessions
    PROVE  LET r == [s EXCEPT !.said = "landed"]
           IN  /\ r \in Sessions
               /\ r.said = "landed" /\ r.until = s.until
               /\ r.kind = s.kind /\ r.same = s.same
               /\ r.vault = s.vault /\ r.account = s.account
BY DEF Sessions, Saids

\* When the vault moves on, only whether it is the same is written.
LEMMA Aging ==
    ASSUME NEW s \in Sessions, NEW b \in BOOLEAN
    PROVE  LET r == [s EXCEPT !.same = b]
           IN  /\ r \in Sessions
               /\ r.same = b
               /\ r.said = s.said /\ r.until = s.until
               /\ r.kind = s.kind /\ r.vault = s.vault /\ r.account = s.account
BY DEF Sessions

\* The clock does not go back.
LEMMA ClockAdvances ==
    ASSUME TypeOK, [Next]_vars
    PROVE  now \in Nat /\ now' \in Nat /\ now <= now'
<1>1. now \in Nat
  BY ClockAssumption DEF TypeOK, Times
<1>2. now' = now \/ now' = now + 1
  BY PublicStep DEF Public!Next, Public!Tick, Public!Instruction
<1> QED
  BY <1>1, <1>2

\* What a step does to the timer of a vault that is open before and after it:
\* nothing, or a check-in that starts it again, or a claim after its end.
LEMMA TimerStep ==
    ASSUME TypeOK, [Next]_vars, open, open'
    PROVE  /\ vault'.timeout_seconds = vault.timeout_seconds
           /\ \/ /\ vault'.last_checkin = vault.last_checkin
                 /\ vault'.is_claimed = vault.is_claimed
              \/ /\ vault'.last_checkin = now
                 /\ ~vault.is_claimed /\ ~vault'.is_claimed
              \/ /\ vault'.last_checkin = vault.last_checkin
                 /\ vault'.is_claimed
                 /\ now >= Deadline(vault)
<1>0. /\ vault \in VaultData /\ now \in Nat
      /\ vault' \in VaultData
  BY TypeStep, ClockAdvances DEF TypeOK
<1>1. /\ Readable.open = open /\ Readable'.open = open'
      /\ Readable.last_checkin = vault.last_checkin
      /\ Readable'.last_checkin = vault'.last_checkin
      /\ Readable.timeout = vault.timeout_seconds
      /\ Readable'.timeout = vault'.timeout_seconds
      /\ Readable.is_claimed = vault.is_claimed
      /\ Readable'.is_claimed = vault'.is_claimed
  BY DEF Readable
<1>r. Readable \in Public!Accounts
  BY <1>0 DEF Readable, Public!Accounts, VaultData, Times, TypeOK
<1>2. CASE Readable' = Readable
  BY <1>1, <1>2
<1>3. CASE Readable' \in Public!Successors(Readable, now)
  <2>1. Readable' # Public!NoAccount
    <3>1. open' = TRUE
      BY TypeStep DEF TypeOK
    <3>2. Public!NoAccount.open = FALSE
      BY DEF Public!NoAccount
    <3> QED
      BY <1>1, <3>1, <3>2
  <2>2. CASE /\ ~Readable.is_claimed
             /\ Readable' = [Readable EXCEPT !.last_checkin = now]
    <3>1. /\ Readable'.last_checkin = now
          /\ Readable'.timeout = Readable.timeout
          /\ Readable'.is_claimed = Readable.is_claimed
      BY <1>r, <2>2 DEF Public!Accounts
    <3> QED
      BY <1>1, <2>2, <3>1
  <2>3. CASE /\ ~(now < Public!Deadline(Readable))
             /\ Readable' = [Readable EXCEPT !.is_claimed = TRUE]
    <3>1. /\ Readable'.last_checkin = Readable.last_checkin
          /\ Readable'.timeout = Readable.timeout
          /\ Readable'.is_claimed = TRUE
      BY <1>r, <2>3, ReadableExcept
    <3>2. now >= Deadline(vault)
      BY <1>0, <1>1, <2>3 DEF Deadline, Public!Deadline, VaultData, Times
    <3> QED
      BY <1>1, <3>1, <3>2
  <2> QED
    BY <1>1, <1>3, <2>1, <2>2, <2>3 DEF Public!Successors
<1> QED
  BY PublicStep, <1>2, <1>3 DEF Public!Next, Public!Tick, Public!Instruction

\* Nor is a timer ever started in the future.
LEMMA StartedStep ==
    ASSUME VaultInv, StartedBefore, [Next]_vars
    PROVE  StartedBefore'
<1> SUFFICES ASSUME open'
             PROVE  vault'.last_checkin <= now'
  BY DEF StartedBefore
<1>0. /\ TypeOK /\ vault \in VaultData /\ vault.last_checkin \in Nat
      /\ now \in Nat /\ now' \in Nat /\ now <= now'
  BY ClockAdvances DEF VaultInv, TypeOK, VaultData, Times
<1>1. CASE open
  <2>1. vault.last_checkin <= now
    BY <1>1 DEF StartedBefore
  <2> QED
    BY <1>0, <1>1, <2>1, TimerStep
<1>2. CASE ~open
  <2>1. ASSUME NEW w \in Wallets, NEW m \in Assets, NEW timeout \in Timeouts,
               NEW inputs \in Tables, InitializeVault(w, m, timeout, inputs)
        PROVE  vault'.last_checkin = now
    BY <2>1 DEF InitializeVault
  <2>2. ~QuietStep
    BY <1>2 DEF QuietStep
  <2>3. \A w \in Wallets : ~CheckIn(w)
    BY <1>2 DEF CheckIn, HasOne
  <2>4. \A w \in Wallets, inputs \in Tables : ~SetBeneficiaries(w, inputs)
    BY <1>2 DEF SetBeneficiaries, HasOne
  <2>5. \A w \in Wallets, place \in Places : ~CloseVault(w, place)
    BY <1>2 DEF CloseVault, HasOne
  <2>6. \A w \in Wallets, i \in Slots : ~ClaimStep(w, i)
    BY <1>2 DEF ClaimStep
  <2> QED
    BY <1>0, <2>1, <2>2, <2>3, <2>4, <2>5, <2>6, StepShape
<1> QED
  BY <1>1, <1>2

\* Who has claimed has claimed, as long as the vault is open.
LEMMA HasClaimedStep ==
    ASSUME VaultInv, [Next]_vars, open, open', NEW a \in Wallets, HasClaimed(vault, a)
    PROVE  HasClaimed(vault', a)
<1>0. vault \in VaultData /\ vault.beneficiaries \in [Slots -> Beneficiary]
  BY DEF VaultInv, TypeOK, VaultData
<1>1. PICK i \in Active(vault) : HeirAt(vault, a, i) /\ vault.beneficiaries[i].claimed
  BY DEF HasClaimed
<1>2. i \in Slots /\ Active(vault) \subseteq Slots
  BY <1>0, ActiveInSlots
<1>3. vault.is_claimed
  BY <1>1, <1>2 DEF VaultInv, TripConsistent
<1>4. /\ vault' = [vault EXCEPT !.beneficiaries = vault'.beneficiaries]
      /\ \A j \in Slots :
           \/ vault'.beneficiaries[j] = vault.beneficiaries[j]
           \/ vault'.beneficiaries[j] = [vault.beneficiaries[j] EXCEPT !.claimed = TRUE]
  BY <1>3, FrozenOfSteps DEF FrozenStep
<1>5. vault'.beneficiary_count = vault.beneficiary_count
  BY <1>0, <1>4 DEF VaultData
<1>6. ASSUME NEW j \in Slots
      PROVE  /\ vault'.beneficiaries[j].address = vault.beneficiaries[j].address
             /\ vault.beneficiaries[j].claimed => vault'.beneficiaries[j].claimed
  <2>1. vault.beneficiaries[j] \in Beneficiary
    BY <1>0
  <2> QED
    BY <1>4, <2>1 DEF Beneficiary
<1>7. i \in Active(vault') /\ 1..(i - 1) \subseteq Slots
  <2>1. Slots = 1..5
    BY DEF Slots, MAX_BENEFICIARIES
  <2> QED
    BY <1>1, <1>2, <1>5, <2>1 DEF Active
<1>8. HeirAt(vault', a, i)
  BY <1>1, <1>2, <1>6, <1>7 DEF HeirAt
<1> QED
  BY <1>1, <1>2, <1>6, <1>7, <1>8 DEF HasClaimed

\* What the vault becomes in a step, it has become of the reading.
LEMMA BecameStep ==
    ASSUME VaultInv, StartedBefore, [Next]_vars, open, open',
           NEW r \in VaultData, Became(r, vault)
    PROVE  Became(r, vault')
<1>0. /\ vault.last_checkin \in Nat /\ vault.timeout_seconds \in Nat
      /\ vault'.timeout_seconds = vault.timeout_seconds
      /\ now \in Nat /\ vault.last_checkin <= now /\ TypeOK
      /\ Deadline(r) \in Nat
  <2>1. vault \in VaultData /\ TypeOK /\ vault.last_checkin <= now
    BY DEF VaultInv, TypeOK, StartedBefore
  <2> QED
    BY <2>1, ClockAdvances, TimerStep DEF VaultData, Times, Deadline
<1>1. Deadline(vault) <= Deadline(vault') /\ Deadline(vault) \in Nat /\ Deadline(vault') \in Nat
  BY <1>0, TimerStep DEF Deadline
<1>2. vault.is_claimed => vault'.is_claimed
  BY <1>0, TimerStep
<1>3. Deadline(r) <= Deadline(vault')
  BY <1>0, <1>1 DEF Became
<1> QED
  BY <1>0, <1>2, <1>3, HasClaimedStep DEF Became

\* A promise that the vault keeps is kept by what becomes of the vault, as long
\* as it stays open.
LEMMA PromiseStep ==
    ASSUME TypeOK, [Next]_vars, open, open', NEW until \in Nat,
           until <= now + vault.timeout_seconds, PromiseKept(vault, now, until)
    PROVE  PromiseKept(vault', now', until)
<1>1. /\ now \in Nat /\ now' \in Nat /\ now <= now'
      /\ vault.last_checkin \in Nat /\ vault.timeout_seconds \in Nat
  <2>1. vault \in VaultData
    BY DEF TypeOK
  <2> QED
    BY <2>1, ClockAdvances DEF VaultData, Times
<1>2. CASE vault'.last_checkin = vault.last_checkin /\ vault'.is_claimed = vault.is_claimed
  BY <1>1, <1>2, TimerStep DEF PromiseKept, Deadline
<1>3. CASE /\ vault'.last_checkin = now
           /\ ~vault.is_claimed /\ ~vault'.is_claimed
  BY <1>1, <1>3, TimerStep DEF PromiseKept, Deadline
<1>4. CASE /\ vault'.last_checkin = vault.last_checkin
           /\ vault'.is_claimed
           /\ now >= Deadline(vault)
  BY <1>1, <1>4, TimerStep DEF PromiseKept, Deadline
<1> QED
  BY <1>2, <1>3, <1>4, TimerStep

\* What is known of a session stays true when the vault moves on.
LEMMA SoundStep ==
    ASSUME VaultInv, StartedBefore, [Next]_vars, NEW s, Sound(s, open, vault, now),
           NEW r \in Sessions, r.same => s.same /\ open',
           r.said = s.said, r.until = s.until, r.kind = s.kind, r.vault = s.vault,
           r.account = s.account
    PROVE  Sound(r, open', vault', now')
<1>1. /\ s \in Sessions /\ s.vault \in VaultData /\ TypeOK
      /\ s.until \in Nat /\ s.vault.timeout_seconds \in Nat
      /\ Deadline(s.vault) \in Nat
  BY DEF Sound, Sessions, VaultData, VaultInv, Deadline, Times
<1>2. now \in Nat /\ now' \in Nat /\ now <= now'
  BY <1>1, ClockAdvances
<1>3. r.same => open' /\ Became(r.vault, vault')
  BY <1>1, BecameStep DEF Sound
<1>4. r.kind = "check_in" /\ r.said \in {"sign", "landed"}
        => r.until <= now' + r.vault.timeout_seconds
  BY <1>1, <1>2 DEF Sound
<1>5. ASSUME r.kind = "check_in", r.said = "landed", r.same
      PROVE  PromiseKept(vault', now', r.until)
  <2>1. /\ open /\ open' /\ s.until <= now + vault.timeout_seconds
        /\ PromiseKept(vault, now, s.until)
    BY <1>5 DEF Sound, Became
  <2> QED
    BY <1>1, <2>1, PromiseStep
<1>6. Meant(r, now')
  BY <1>1, <1>2 DEF Sound, Meant
<1> QED
  BY <1>3, <1>4, <1>5, <1>6 DEF Sound

-----------------------------------------------------------------------------
(* The invariant. *)

\* An instruction in a transaction is one of the vault's steps.
LEMMA InstructionIsStep ==
    ASSUME NEW kind, NEW w \in Wallets, Instruction(kind, w)
    PROVE  Next
BY DEF Instruction, Next, OwnerInstruction, Claim

\* An answer that means what it says, and promises no more than a timeout from
\* now if it is a check-in to sign.
LEMMA AnswerIsSound ==
    ASSUME BlinkInv, Sound(session, open, vault, now),
           NEW said \in Saids \ {"landed"}, NEW until \in Nat,
           session.kind = "check_in" /\ said = "sign"
               => until <= now + session.vault.timeout_seconds,
           Meant([session EXCEPT !.said = said, !.until = until], now),
           Respond(said, until)
    PROVE  BlinkInv'
<1>1. session \in Sessions
  BY DEF Sound
<1>2. /\ UNCHANGED vars /\ VaultInv' /\ StartedBefore'
  <2>1. UNCHANGED vars
    BY DEF Respond
  <2> QED
    BY <2>1, InvStep, StartedStep DEF BlinkInv
<1>s. said # "landed" /\ session' = [session EXCEPT !.said = said, !.until = until]
  BY DEF Respond
<1>r. /\ session' \in Sessions
      /\ session'.said = said /\ session'.until = until
      /\ session'.kind = session.kind /\ session'.same = session.same
      /\ session'.vault = session.vault
  <2>1. said \in Saids
    OBVIOUS
  <2>2. session' \in Sessions
    BY <1>1, <1>s, <2>1 DEF Sessions
  <2>3. session'.said = said /\ session'.until = until
    BY <1>1, <1>s, <2>1 DEF Sessions
  <2>4. session'.kind = session.kind /\ session'.vault = session.vault
    BY <1>1, <1>s DEF Sessions
  <2>5. session'.same = session.same
    BY <1>1, <1>s DEF Sessions
  <2> QED
    BY <2>2, <2>3, <2>4, <2>5
<1>u. session.same => open /\ Became(session.vault, vault)
  BY DEF Sound
<1>m. Meant(session', now)
  BY <1>s
<1>t. session'.kind = "check_in" /\ session'.said \in {"sign", "landed"}
        => session'.until <= now + session'.vault.timeout_seconds
  BY <1>s, <1>r
<1>3. Sound(session', open, vault, now)
  BY <1>s, <1>r, <1>u, <1>m, <1>t DEF Sound
<1> QED
  BY <1>2, <1>3 DEF BlinkInv, SessionInv, vars

\* At the start nobody has asked.
LEMMA BlinkInvInit == BlinkInit => BlinkInv
BY InvInit DEF BlinkInit, BlinkInv, SessionInv, Init, StartedBefore

\* Whoever watches the vault and whatever they are told, the vault makes the
\* steps that it can make in Vault.
LEMMA BlinkStep == SessionInv /\ [BlinkNext]_blinkVars => [Next]_vars
<1> SUFFICES ASSUME SessionInv, [BlinkNext]_blinkVars
             PROVE  [Next]_vars
  OBVIOUS
<1>1. CASE Land
  <2>1. session.account \in Wallets
    BY <1>1 DEF Land, SessionInv, Sound, Sessions, NoSession
  <2> QED
    BY <1>1, <2>1, InstructionIsStep DEF Land
<1> QED
  BY <1>1 DEF BlinkNext, blinkVars, Elsewhere, Load, GetCheckIn, GetClaim, PostCheckIn,
              PostClaim, Respond, Leave

\* What an answer says and until when; the request is what it was.
LEMMA Answered ==
    ASSUME NEW s \in Sessions, NEW said \in Saids, NEW until \in Nat
    PROVE  LET r == [s EXCEPT !.said = said, !.until = until]
           IN  /\ r.said = said /\ r.until = until
               /\ r.kind = s.kind /\ r.vault = s.vault /\ r.account = s.account
BY DEF Sessions

\* A card means what it says.
LEMMA CardIsSound ==
    ASSUME BlinkInv, GetCheckIn \/ GetClaim
    PROVE  BlinkInv'
<1>1. /\ session.said = "asked" /\ Sound(session, open, vault, now) /\ session \in Sessions
      /\ session.vault \in VaultData /\ Deadline(session.vault) \in Nat
  BY DEF BlinkInv, SessionInv, Sound, Sessions, NoSession, GetCheckIn, GetClaim, Working,
         VaultData, Deadline, Times
<1>2. 0 \in Nat /\ {"claimed", "live", "early"} \subseteq Saids \ {"landed"}
  BY DEF Saids
<1> DEFINE r(said, until) == [session EXCEPT !.said = said, !.until = until]
<1>3. ASSUME session.vault.is_claimed
      PROVE  Meant(r("claimed", 0), now)
  BY <1>1, <1>2, <1>3, Answered DEF Meant
<1>4. Meant(r("live", 0), now)
  BY <1>1, <1>2, Answered DEF Meant
<1>5. Meant(r("early", Deadline(session.vault)), now)
  BY <1>1, <1>2, Answered DEF Meant
<1> QED
  BY <1>1, <1>2, <1>3, <1>4, <1>5, AnswerIsSound DEF GetCheckIn, GetClaim

\* What an owner is told, and asked to sign, is so.
LEMMA CheckInAnswerIsSound ==
    ASSUME BlinkInv, PostCheckIn
    PROVE  BlinkInv'
<1> DEFINE until == LockedUntil(session.vault)
           r(said, t) == [session EXCEPT !.said = said, !.until = t]
<1>1. /\ session.said = "asked" /\ Sound(session, open, vault, now) /\ session \in Sessions
      /\ session.kind = "check_in"
  BY DEF BlinkInv, SessionInv, Sound, Sessions, NoSession, PostCheckIn, Working
<1>2. 0 \in Nat /\ {"claimed", "owner", "sign"} \subseteq Saids \ {"landed"}
  BY DEF Saids
<1>3. until \in Nat /\ until <= now + session.vault.timeout_seconds
  <2>1. now \in Nat /\ session.vault.timeout_seconds \in Nat
    BY <1>1, ClockAssumption DEF BlinkInv, VaultInv, TypeOK, Sessions, VaultData, Times
  <2> QED
    BY <2>1 DEF LockedUntil
<1> HIDE DEF until
<1>4. ASSUME session.account # Owner
      PROVE  Meant(r("owner", 0), now)
  BY <1>1, <1>2, <1>4, Answered DEF Meant
<1>5. ASSUME session.vault.is_claimed
      PROVE  Meant(r("claimed", 0), now)
  BY <1>1, <1>2, <1>5, Answered DEF Meant
<1>6. ASSUME session.account = Owner, ~session.vault.is_claimed
      PROVE  Meant(r("sign", until), now)
  BY <1>1, <1>2, <1>3, <1>6, Answered DEF Meant
<1> QED
  BY <1>1, <1>2, <1>3, <1>4, <1>5, <1>6, AnswerIsSound DEF PostCheckIn, until

\* What an heir is told, and asked to sign, is so.
LEMMA ClaimAnswerIsSound ==
    ASSUME BlinkInv, PostClaim
    PROVE  BlinkInv'
<1> DEFINE until == Deadline(session.vault)
           r(said, t) == [session EXCEPT !.said = said, !.until = t]
<1>1. /\ session.said = "asked" /\ Sound(session, open, vault, now) /\ session \in Sessions
      /\ session.kind = "claim"
  BY DEF BlinkInv, SessionInv, Sound, Sessions, NoSession, PostClaim, Working
<1>2. 0 \in Nat /\ {"nobody", "paid", "early", "sign"} \subseteq Saids \ {"landed"}
  BY DEF Saids
<1>3. until \in Nat /\ now \in Nat
  BY <1>1, ClockAssumption
     DEF BlinkInv, VaultInv, TypeOK, Sessions, VaultData, Times, Deadline
<1>4. Meant(r("nobody", 0), now)
  BY <1>1, <1>2, Answered DEF Meant
<1>5. ASSUME HasClaimed(session.vault, session.account)
      PROVE  Meant(r("paid", 0), now)
  BY <1>1, <1>2, <1>5, Answered DEF Meant
<1>6. Meant(r("early", until), now)
  BY <1>1, <1>2, <1>3, Answered DEF Meant
<1>7. ASSUME ~HasClaimed(session.vault, session.account), ~(TimeLeft(session.vault, now) > 0)
      PROVE  Meant(r("sign", 0), now)
  <2>1. until <= now
    BY <1>3, <1>7 DEF TimeLeft
  <2> QED
    BY <1>1, <1>2, <1>7, <2>1, Answered DEF Meant
<1> QED
  BY <1>1, <1>2, <1>3, <1>4, <1>5, <1>6, <1>7, AnswerIsSound DEF PostClaim

\* A transaction that lands does what was promised of it.
LEMMA LandingIsSound ==
    ASSUME BlinkInv, Land
    PROVE  BlinkInv'
<1>1. /\ session.said = "sign" /\ session \in Sessions
      /\ Sound(session, open, vault, now)
      /\ VaultInv /\ TypeOK /\ StartedBefore /\ vault \in VaultData /\ now \in Nat
  BY ClockAssumption
     DEF Land, BlinkInv, SessionInv, Sound, NoSession, VaultInv, TypeOK, Times
<1>2. [Next]_vars /\ VaultInv' /\ StartedBefore'
  <2>1. [Next]_vars
    BY <1>1, InstructionIsStep DEF Land, Sessions
  <2> QED
    BY <1>1, <2>1, InvStep, StartedStep
<1>3. /\ session' \in Sessions
      /\ session'.said = "landed" /\ session'.until = session.until
      /\ session'.kind = session.kind /\ session'.same = session.same
      /\ session'.vault = session.vault /\ session'.account = session.account
  BY <1>1, Landing DEF Land
<1>4. Meant(session', now')
  BY <1>3 DEF Meant
<1>5. open' = open /\ now' = now
  BY <1>1 DEF Land, Instruction, ClaimSol, CheckIn
<1>6. session'.same => open' /\ Became(session'.vault, vault')
  <2>1. session.vault \in VaultData
    BY <1>1 DEF Sessions
  <2> QED
    BY <1>1, <1>2, <1>3, <1>5, <2>1, BecameStep DEF Sound
<1>7. session'.kind = "check_in" => session'.until <= now' + session'.vault.timeout_seconds
  BY <1>1, <1>3, <1>5 DEF Sound
<1>8. ASSUME session'.kind = "check_in", session'.same
      PROVE  PromiseKept(vault', now', session'.until)
  <2>1. /\ vault'.last_checkin = now
        /\ vault'.timeout_seconds = vault.timeout_seconds
        /\ ~vault'.is_claimed
    BY <1>1, <1>3, <1>8 DEF Land, Instruction, CheckIn, HasOne, Untripped, VaultData
  <2>2. session.until \in Nat /\ session.vault.timeout_seconds = vault.timeout_seconds
    BY <1>1, <1>3, <1>8 DEF Sessions, Sound, Became
  <2> QED
    BY <1>3, <1>5, <1>7, <1>8, <2>1, <2>2 DEF PromiseKept, Deadline
<1>9. Sound(session', open', vault', now')
  BY <1>3, <1>4, <1>6, <1>7, <1>8 DEF Sound
<1> QED
  BY <1>2, <1>9 DEF BlinkInv, SessionInv

\* What happens elsewhere leaves what was said as true as it was.
LEMMA ElsewhereIsSound ==
    ASSUME BlinkInv, Elsewhere
    PROVE  BlinkInv'
<1>1. VaultInv /\ StartedBefore /\ SessionInv /\ [Next]_vars /\ VaultInv' /\ StartedBefore'
  BY InvStep, StartedStep DEF Elsewhere, BlinkInv
<1>2. CASE session = NoSession
  BY <1>1, <1>2 DEF Elsewhere, BlinkInv, SessionInv
<1>3. CASE Sound(session, open, vault, now)
  <2> DEFINE b == session.same /\ open'
             r == [session EXCEPT !.same = b]
  <2>1. session \in Sessions /\ session # NoSession
    BY <1>3, SessionIsNot DEF Sound
  <2>2. session' = r /\ b \in BOOLEAN
    <3>1. session' = [session EXCEPT !.same = @ /\ open']
      BY <2>1 DEF Elsewhere
    <3>2. [session EXCEPT !.same = @ /\ open'] = r
      OBVIOUS
    <3>3. b \in BOOLEAN
      BY <1>1, <2>1 DEF Sessions, VaultInv, TypeOK
    <3> QED
      BY <3>1, <3>2, <3>3
  <2>3. /\ r \in Sessions /\ r.same = b
        /\ r.said = session.said /\ r.until = session.until
        /\ r.kind = session.kind /\ r.vault = session.vault
        /\ r.account = session.account
    BY <2>1, <2>2, Aging
  <2> HIDE DEF r
  <2>4. Sound(r, open', vault', now')
    BY <1>1, <1>3, <2>3, SoundStep
  <2> QED
    BY <1>1, <2>2, <2>4 DEF BlinkInv, SessionInv
<1> QED
  BY <1>1, <1>2, <1>3 DEF SessionInv

\* Each step of the server, the wallet and the vault keeps the invariant.
LEMMA BlinkInvStep == BlinkInv /\ [BlinkNext]_blinkVars => BlinkInv'
<1> SUFFICES ASSUME BlinkInv, [BlinkNext]_blinkVars
             PROVE  BlinkInv'
  OBVIOUS
<1>1. VaultInv' /\ StartedBefore'
  BY BlinkStep, InvStep, StartedStep DEF BlinkInv
<1>2. ASSUME NEW get \in BOOLEAN, NEW kind \in Kinds, NEW w \in Wallets, Load(get, kind, w)
      PROVE  BlinkInv'
  <2>1. vault \in VaultData /\ Deadline(vault) \in Nat /\ vault.timeout_seconds \in Nat
    BY DEF BlinkInv, VaultInv, TypeOK, VaultData, Deadline, Times
  <2>2. Reading(get, kind, w) \in Sessions
    BY <2>1 DEF Reading, Sessions, Saids
  <2>3. Became(vault, vault)
    BY <2>1 DEF Became
  <2>4. Sound(Reading(get, kind, w), open, vault, now)
    BY <1>2, <2>2, <2>3 DEF Sound, Reading, Meant, Load
  <2>5. session' = Reading(get, kind, w) /\ UNCHANGED vars
    BY <1>2 DEF Load
  <2> QED
    BY <1>1, <2>4, <2>5 DEF BlinkInv, SessionInv, vars
<1>3. CASE Leave
  BY <1>1, <1>3 DEF Leave, BlinkInv, SessionInv
<1>4. CASE UNCHANGED blinkVars
  BY <1>1, <1>4 DEF blinkVars, vars, BlinkInv, SessionInv
<1> QED
  BY <1>2, <1>3, <1>4, ElsewhereIsSound, CardIsSound, CheckInAnswerIsSound,
     ClaimAnswerIsSound, LandingIsSound DEF BlinkNext

\* Every state of a session with the server is one of BlinkInv.
LEMMA BlinkInvariant == BlinkSpec => []BlinkInv
BY BlinkInvInit, BlinkInvStep, PTL DEF BlinkSpec

\* A behaviour with an Action server is one of the vault.
LEMMA BlinkIsVault == BlinkSpec => Spec
<1>1. BlinkInit => Init
  BY DEF BlinkInit
<1>2. BlinkInv /\ [BlinkNext]_blinkVars => [Next]_vars
  BY BlinkStep DEF BlinkInv
<1> QED
  BY <1>1, <1>2, BlinkInvariant, PTL DEF BlinkSpec, Spec

-----------------------------------------------------------------------------
(* Refusals, and transactions handed out. *)

\* An heir who has claimed does not claim again.
LEMMA ClaimedOnce ==
    ASSUME VaultInv, NEW a \in Wallets, HasClaimed(vault, a)
    PROVE  ~AnyClaim(a)
<1>1. PICK i \in Active(vault) : HeirAt(vault, a, i) /\ vault.beneficiaries[i].claimed
  BY DEF HasClaimed
<1>2. Active(vault) \subseteq Slots /\ Slots \subseteq Nat /\ \A k \in Slots : 1 <= k
  <2>1. vault \in VaultData
    BY DEF VaultInv, TypeOK
  <2> QED
    BY <2>1, ActiveInSlots DEF Slots, MAX_BENEFICIARIES
<1>3. ASSUME NEW j \in Slots, MayClaim(vault, a, j, now)
      PROVE  FALSE
  <2>1. HeirAt(vault, a, j) /\ ~vault.beneficiaries[j].claimed /\ j \in Active(vault)
    BY <1>3 DEF MayClaim, HeirAt
  <2>2. i \in Nat /\ j \in Nat /\ 1 <= i /\ 1 <= j
    BY <1>1, <1>2
  <2>3. ~(i < j) /\ ~(j < i)
    BY <1>1, <2>1, <2>2 DEF HeirAt
  <2>4. i = j
    BY <2>2, <2>3
  <2> QED
    BY <1>1, <2>1, <2>4
<1> QED
  BY <1>3 DEF AnyClaim, ClaimSol, ClaimSpl

\* Nobody claims before the deadline.
LEMMA NoneBefore ==
    ASSUME TypeOK, open => Deadline(vault) \in Nat, now < Deadline(vault), NEW a \in Wallets
    PROVE  ~AnyClaim(a)
<1>1. now \in Nat
  BY ClockAssumption DEF TypeOK, Times
<1>2. open => ~IsExpired(vault, now)
  BY <1>1 DEF IsExpired
<1> QED
  BY <1>2 DEF AnyClaim, ClaimSol, ClaimSpl, MayClaim

\* A refusal is about what the vault has become since, too.
LEMMA RefusalSteps == BlinkInv => RefusalStep
<1> SUFFICES ASSUME BlinkInv, session # NoSession, session.same
             PROVE  /\ session.said \in {"owner", "claimed"} => ~CheckIn(session.account)
                    /\ session.said = "paid" => ~AnyClaim(session.account)
                    /\ session.said = "early" /\ now < session.until =>
                          \A w \in Wallets : ~AnyClaim(w)
  BY DEF RefusalStep
<1>1. /\ session \in Sessions /\ session.account \in Wallets
      /\ Meant(session, now) /\ open /\ Became(session.vault, vault)
      /\ VaultInv /\ TypeOK
  BY DEF BlinkInv, SessionInv, Sound, Sessions, VaultInv
<1>2. ASSUME session.said \in {"owner", "claimed"}
      PROVE  ~CheckIn(session.account)
  <2>1. session.account # Owner \/ vault.is_claimed
    BY <1>1, <1>2 DEF Meant, Became
  <2>2. ~HasOne(session.account) \/ ~Untripped
    BY <2>1 DEF HasOne, Untripped
  <2> QED
    BY <2>2 DEF CheckIn
<1>3. ASSUME session.said = "paid"
      PROVE  ~AnyClaim(session.account)
  BY <1>1, <1>3, ClaimedOnce DEF Meant, Became
<1>4. ASSUME session.said = "early", now < session.until, NEW w \in Wallets
      PROVE  ~AnyClaim(w)
  <2>1. /\ session.until = Deadline(session.vault)
        /\ Deadline(session.vault) <= Deadline(vault)
    BY <1>1, <1>4 DEF Meant, Became
  <2>2. /\ now \in Nat /\ Deadline(vault) \in Nat /\ Deadline(session.vault) \in Nat
    BY <1>1, ClockAssumption
       DEF TypeOK, VaultInv, VaultData, Deadline, Times, Sessions
  <2>3. now < Deadline(vault)
    BY <1>4, <2>1, <2>2
  <2> QED
    BY <1>1, <2>2, <2>3, NoneBefore
<1> QED
  BY <1>2, <1>3, <1>4

\* What is handed out for a vault that is as it was read is let through.
LEMMA HandedOutPasses == BlinkInv /\ Conserved => HandedOutIsAccepted
<1> SUFFICES ASSUME BlinkInv, Conserved, session.said = "sign", Current,
                    IF session.kind = "check_in"
                    THEN DeadlineFits([vault EXCEPT !.last_checkin = now])
                    ELSE IsSol(vault) /\ Payable(session.account)
             PROVE  LandingAnswer(session.kind, session.account) = "Ok"
  BY DEF HandedOutIsAccepted
<1>1. /\ session \in Sessions /\ session.account \in Wallets
      /\ Meant(session, now) /\ open /\ session.vault = vault
      /\ VaultInv /\ TypeOK
  BY DEF BlinkInv, SessionInv, Sound, Sessions, VaultInv, NoSession, Current
<1>2. CASE session.kind = "check_in"
  <2>1. session.account = Owner /\ ~vault.is_claimed
    BY <1>1, <1>2 DEF Meant
  <2>2. HasOne(Owner) /\ Untripped
    BY <1>1, <1>2, <2>1 DEF HasOne, Untripped
  <2> QED
    BY <1>1, <1>2, <2>1, <2>2, CheckInIsOk DEF LandingAnswer
<1>3. CASE session.kind # "check_in"
  <2>1. session.kind = "claim"
    BY <1>1, <1>3 DEF Sessions, Kinds
  <2>2. /\ ~HasClaimed(vault, session.account) /\ Deadline(vault) <= now
        /\ IsSol(vault) /\ Payable(session.account)
    BY <1>1, <1>3, <2>1 DEF Meant
  <2>3. PICK i \in Active(vault) :
          HeirAt(vault, session.account, i) /\ ClaimAmount(vault, i, Withdrawable) > 0
    BY <2>2 DEF Payable
  <2>4. Holding = Withdrawable
    BY <2>2 DEF Holding
  <2>5. i \in Unclaimed(vault) /\ vault.beneficiaries[i].address = session.account
    BY <2>2, <2>3 DEF HasClaimed, Unclaimed, HeirAt
  <2>6. now >= Deadline(vault)
    <3>1. now \in Nat /\ Deadline(vault) \in Nat
      BY <1>1, ClockAssumption DEF TypeOK, VaultInv, VaultData, Deadline, Times
    <3> QED
      BY <2>2, <3>1
  <2>7. ClaimAnswer(session.account) = "Ok"
    BY <1>1, <2>3, <2>4, <2>5, <2>6, EligibleIsServed DEF EligibleHeirIsServed
  <2> QED
    BY <1>3, <2>2, <2>7 DEF ClaimAnswer, LandingAnswer
<1> QED
  BY <1>2, <1>3

-----------------------------------------------------------------------------
(* The theorems. *)

\* A check-in that a link was used for locks the heirs out for as long as the
\* owner was told (postCheckIn), for any timeouts, however old the server's
\* reading was and however late the transaction landed.
THEOREM PromiseHolds == BlinkSpec => []LockedOutAsTold
<1>1. BlinkInv => LockedOutAsTold
  <2> SUFFICES ASSUME BlinkInv, session.said = "landed",
                      session.kind = "check_in", session.same
               PROVE  PromiseKept(vault, now, session.until)
    BY DEF LockedOutAsTold, PromiseKept
  <2> QED
    BY DEF BlinkInv, SessionInv, Sound, NoSession
<1> QED
  BY <1>1, BlinkInvariant, PTL

\* A refusal stands for as long as it says (the checks of getClaim, postCheckIn
\* and postClaim), although it was decided on a reading of the vault that may be
\* old: check-ins only make the deadline later, and who has claimed has claimed.
THEOREM RefusalsStand == BlinkSpec => RefusalStands
<1>1. BlinkInv => RefusalStep
  BY RefusalSteps
<1> QED
  BY <1>1, BlinkInvariant, PTL DEF BlinkSpec, RefusalStands

\* A transaction that was handed out for a vault that is still as it was read
\* is answered Ok by the program: the checks of postCheckIn and postClaim leave
\* out none that the program makes of a vault of SOL that owes the heir.
THEOREM HandedOutPassesAlways == BlinkSpec => []HandedOutIsAccepted
<1>1. BlinkInv /\ Conserved => HandedOutIsAccepted
  BY HandedOutPasses
<1>2. BlinkSpec => []Conserved
  BY BlinkIsVault, AlwaysConserved, PTL
<1> QED
  BY <1>1, <1>2, BlinkInvariant, PTL

=============================================================================
