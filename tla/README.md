# dead-man-switch: a verification of the vault program and its keeper

The repository is an inheritance switch for Solana. An owner locks SOL or SPL
tokens in a vault, a program-derived account, and checks in from time to time.
After a full timeout of silence the listed heirs take their shares, each on their
own. A Go service, the keeper, watches the vaults and reminds owners; it is not
needed for the protocol to work.

This directory models the program in TLA+, checks small instances with TLC and
proves the main results for every value of the constants with TLAPS.

## 1. The system

| Part | State it keeps | Operations | Talks to |
|---|---|---|---|
| Vault rules, `state.rs` | the `Vault` struct: mint, last check-in, timeout, five heir slots, count, `is_claimed`, `claim_pool` | `validate_slots`, `deadline`, `is_expired`, `index_of`, `share_of`, `authorize_claim` | called by the instructions |
| Vault program, `instructions/*.rs`, `utils.rs` | lamports of the PDA, its token accounts | ten instructions (`initialize_vault` ... `close_vault`) | system and token programs, clock, rent |
| Reminder tracker, `watch/reminder.go` | per vault: deadline and thresholds already fired | `Due`, `Forget` | called by the watcher |
| Watcher, `watch/watcher.go` | none of its own | `Run`, `Scan`: fetch, cache, forget, remind | RPC node, store, tracker, notifier |
| Store, `store/*.go` | the vaults of the last scan (memory or Postgres) | `Replace`, `List`, `Get`, `ByOwner` | watcher writes, API reads, concurrently |
| Keeper API, `api/api.go` | none | health, list, one vault, by owner | store |
| Configuration, status, `config.go`, `status.go` | thresholds, `DueSoon` | `Load`, `Status` | tracker and API |
| Decoder and reader, `dms/vault.go`, `dms/client.go` | none | `DecodeVault`, `Vaults`, `Vault` | RPC node |
| Notification channels, `notify/*.go` | none | `Multi.Notify` | log, Telegram |
| Program errors, `error.rs` | none | the answer to an instruction that is refused | every caller |
| Signing client, `client/*.go`, `cmd/dmsctl` | the command that is running | `send`, `confirm`, one method per instruction | RPC node, then the program |
| Blink server, `blink/*.go` | the request that is served | `getCheckIn`, `postCheckIn`, `getClaim`, `postClaim` | RPC node; the reader signs |

The program is the only part that decides anything. The keeper, the client and
the blink server look at a copy of its state that may already be old.

### What is hard here

* **Order of instructions.** Owner, heirs and strangers send transactions in any
  order. After the deadline the owner and the heirs race until the first claim
  (`withdraw_sol.rs:7`).
* **A split spread over many transactions.** The shares are divided over a snapshot
  taken at the first claim (`state.rs:193`); the balance shrinks with each claim and
  can grow by gifts; the last heir takes the rest.
* **Integer edges.** A `u16` share total, a `u64` balance, an `i64` deadline, rounding.
* **Lives of one address.** The PDA may be funded before it is opened, closed, and
  opened again; it may own token accounts that the program does not know.
* **Liveness without the owner.** Nobody may be able to block an heir.
* **The answers.** A wallet only sees the first check that an instruction runs into; a heir
  who repeats a claim because its answer was lost meets a vault that may be empty.
* **The keeper.** It looks at a chain that moves between the steps of a scan, through nodes
  of which one may be behind; a scan can fail in its middle; a commit can go through and its
  answer be lost; a restart loses the tracker but, with Postgres, not the cache; a
  message is marked as said before it is delivered.
* **The client.** A transaction lands after the client has given up, or in a block that is
  abandoned; the operator repeats the command.
* **The blink server.** It checks one reading of a vault; the answer is read later, and the
  transaction it hands out runs later still, on another state.
* **Two languages, one layout.** The program's `Vault` is written by a derived serializer and
  read by hand in Go; the optional mint shifts everything behind it.

`PROJECT.json` lists them one by one, each at its line, with the property that
covers it.

### What makes each part correct

* Rules: an accepted table is exactly 100% between distinct real keys; a deadline
  never overflows; shares of a pool fit in it.
* Program: a tripped vault always holds what it owes; every claim pays the share of
  the snapshot, the last one the rest; from the first claim on the owner is out; the
  reserve stays; closing loses nothing, and is possible once everybody was paid; only the
  vault's own mint moves.
* Whole: if the owner is gone, every heir who keeps trying is paid.
* Keeper: while the process lives, reminders about one deadline only become more urgent
  (so none is repeated); an overdue vault is reported in the end, whatever fails on the
  way; API and reminders agree; nothing closed is remembered.
* Answers: nothing is refused that should pass, and the error names something that is true; a
  paid heir is told so for good, one who is due is paid, a late owner can take all back.
* Client: an operator is told "done" only of what stays done, and is told something in the end.
* Blink: what the owner was told about the lock-out is kept, a refusal is true for as long as
  it says, and what is handed out for an unchanged vault is accepted.
* Codec: a vault is read as it was written, or not at all.

## 2. The modules

| Module | What it is |
|---|---|
| `VaultRules` | `state.rs` as operators on a vault record: no variables |
| `Vault` | the program on one PDA: state, one action per instruction, properties |
| `Estate` | `Vault` with an owner who may die and heirs of whom some are diligent; liveness |
| `Account` | the fields of a vault that a watcher decides by, and how they may change |
| `Switch` | the abstract specification of one vault for watchers; `Vault` implements it |
| `Inheritance` | the abstract specification of the money: an estate, a will, heirs who take their parts; `Vault` implements it |
| `Reminder` | `reminder.go` and `status.go` as operators on what was read: no variables |
| `Keeper` | the keeper next to a chain of several switches: scans, failures, restarts |
| `Answers` | `Vault` with what each instruction answers: Ok, or the first error met |
| `Blink` | `Answers` with the Action server and a wallet that uses it |
| `Client` | `dmsctl`: send and confirm, next to a cluster with forks |
| `VaultCodec` | the bytes of a vault account, as written and as read |
| `MCVault`, `MCEstate`, `MCKeeper`, `MCAnswers`, `MCBlink`, `MCVaultCodec` | the instances TLC checks (`Client` is small enough without) |
| `RulesProofs` | lemmas about `VaultRules`, and about sums over finite sets |
| `VaultProofs` | the inductive invariant and the theorems about `Vault` |
| `AnswersProofs` | how lists of checks are answered, that every answer agrees with the guards, who is served and who is told what |
| `EstateProofs` | that `Vault` implements `Inheritance`, and what the heirs of a dead owner can rely on |
| `KeeperProofs` | the inductive invariants and the theorems about `Keeper` |
| `BlinkProofs`, `ClientProofs`, `VaultCodecProofs` | the theorems about `Blink`, `Client` and `VaultCodec` |

The two halves meet in `Account`: `Switch` says that a step of the program takes the
readable part of a vault to one of its `Successors`; `Vault` is shown to implement `Switch`
(`ImplementsSwitch`, checked and proved), and the chain that `Keeper` watches takes exactly
these steps (`ChainStep`). So the keeper is not checked against a chain made up for it.

`Inheritance` is the other abstract specification, for the heirs. It has no accounts, assets,
clock or flags: a *will* is a set of bequests, what `paid` holds of it has been taken, the
*estate* is what the open vault holds, and the *whole* is what it held when the first bequest was
taken. The refinement (`ImplementsInheritance`) reads the will off the active slots and `paid` off
those that are marked; `is_claimed` becomes "somebody has been paid", and `is_last`, which the code
decides by counting slots, becomes "this bequest completes the will". SOL and SPL vaults look the same.

### State and actions of `Vault`

| Variable | In the code |
|---|---|
| `now` | `Clock::get()?.unix_timestamp`, read inside each instruction |
| `open`, `vault` | whether the PDA is an account of the program, and its data |
| `lamports` | `vault_info.lamports()`; the address can hold lamports while closed |
| `accounts`, `tokens` | the token accounts of the PDA that exist (`<<mint, place>>`; the place is the ATA or another), and their balances |
| `purse` | what each wallet holds, of lamports (`None`) and of each mint |

A transaction is atomic and has exclusive access to what it writes, so an instruction
is one action, and an instruction that fails is no step. The guards of an action are
its account constraints (`HasOne`, `Untripped`, `MintMatches`, `IsSol`), its
`require!`s, the checked arithmetic of what it calls, and what the system and token
programs demand. `InitializeVault` and `CheckIn` contain `DeadlineFits` because the
`deadline()?` in their log lines is evaluated. `ClaimSol` and `ClaimSpl` share
`MayClaim`, `BookClaim` and `ClaimAmount`, the parts of `authorize_claim`, as the code
does. `CloseVault` takes the place of the token account as an input, since the program
takes whichever it is given. `SendLamports`, `CreateTokenAccount` and `SendTokens` are what
others can do to the PDA without the program, before, during and after its life.

The operators named `X_Bug...` are wrong variants of `X`. No specification uses them: they
exist so that each property can be shown to fail under a plausible mistake.

### State and actions of `Keeper`

| Variable | In the code |
|---|---|
| `now` | the clock of the host |
| `chain` | the accounts of the program, as far as `Account` shows them |
| `phase` | where `Run` and `Scan` are: process down, between scans, fetched, in the loop |
| `view` | the accounts as a node shows them that is behind (only where `Lagging`) |
| `fetched`, `scanNow`, `visited` | the locals `vaults`, `now` and the position in the loop of `Scan` |
| `cache`, `inDoubt` | the store; whether its last commit was reported as a failure |
| `tracker` | `Tracker.state`, an entry per address |
| `life`, `viewLife`, `fetchedLife`, `cacheLife`, `sent` | history only: how often an address was opened, in the chain and in each copy of it; what was sent |

`Scan` is cut where something else can come between: `Fetch` (`Source.Vaults`), `Replace`
(`Store.Replace`, then `Tracker.Forget` and the reading of the clock, which nobody else
looks at), `Remind` for each vault (`Tracker.Due`, then `Notifier.Notify`), `Finish`. The chain
and the clock move between any two of them, and `Stop` may end the process there. A fetch
that fails, for the node's or the decoder's sake, changes nothing and is no step; a store
that fails is `ReplaceFails`, or, if it had committed before the connection broke,
`ReplaceInDoubt`: then the cache is new, but `Forget` was not reached. The vaults come in any order, as the node gives them. `Due`
is `Recall` (the entry, or a fresh one if the deadline moved) followed by `News` (what to
say) and `Fire` (what to remember).

`visited` keeps its value after the loop, until the next one begins: the properties
speak of the last scan with it. `Stop` sets the locals of a dead process to their initial
values.

### `Answers`

`Vault` says what an instruction does when it goes through. `Answers` extends it and says, for
the same inputs, what a wallet is told: `CheckInAnswer(signer)` and its kind are the first hit
(`FirstHit`) in a sequence of checks, in the order in which Anchor and the handler make them:
the accounts are loaded, their constraints checked (`has_one` first, then each `constraint =`),
the handler's `require!`s, the arithmetic, the transfer. Checks that several instructions
share are operators (`OwnerSigns`, `Armed`, `OfMint`, `ClaimChecks`, ...). The two formulations of the
guards, as conjuncts in `Vault` and as a sequence in `Answers`, are written from the code
independently of each other; `RefusedWithReason` compares them in every state and for every
input. It also asks that the error told is true. What each error means is said once more, of the state and
the arguments alone and without regard to checks and their order: `VaultTriggered` that an heir was paid,
`InsufficientFunds` on a claim that the share of the pool is less than one unit, `MathOverflow`
that the deadline or the sum of the shares does not fit, and so on (`NotTheOwner`, `BadTable`, `NotDue`, ...). An error
that is not on an instruction's list must never be its answer: no withdrawal, claim or closing is refused because
the receiver's balance overflows. Which of several true reasons is told is left to the
code, except where a property says so (`PaidHeirIsTold`).

### `Blink`

One `session` is added to `Answers`: a request whose reading of the vault has been made (`Load`),
then its answer (`GetCheckIn`, `GetClaim`, `PostCheckIn`, `PostClaim`, which look at the clock and
at that reading), then perhaps the landing of the transaction that was handed out (`Land`).
`Elsewhere` is any step of `Vault` between these. `same` records whether the vault was closed
since the reading; what is said of a vault says nothing of a later one at its address.

### `Client`

| Variable | In the code |
|---|---|
| `try` | which command of the operator this is |
| `tx` | what the cluster has of the transaction of each command |
| `phase` | in `send`, in `confirm`, or over |
| `polled`, `lostPoll` | whether `confirm` has asked, and `lastErr` |
| `answer` | what each command said at its end |

The cluster moves a transaction from pending to processed, back again if the fork is abandoned,
to confirmed or expired. `NoBlockhash`, `Send`, `Poll`, `GiveUp` are the four places where
`send` and `confirm` wait for the node or return.

### `VaultCodec`

`Account(v)` is the bytes that Borsh makes of a vault, behind the discriminator, in an account
of fixed size. `DecodeVault` is the hand-written reader with its moving offset. `Cut` gives
the reader any shorter account. The widths are constants; powers of `BASE` and the number that bytes make
are recursive functions, not the built-in power, so that one can prove about them. What a vault holds when it
is written is an assumption on `Vaults` (`VaultsAssumption`): each field in its width, a time after 1970, a
timeout and a count of heirs that were validated.

### What is abstracted

In the keeper:

* The host's clock is the cluster's. With `Lagging`, requests are answered from the chain or
  from `view`, an earlier state of it that catches up at any time.
* Of decoding only whether it succeeds, by address (`Undecodable`).
* The readers of the API change nothing; what they would be told is the operator `Shown`.
* All channels together are one, which takes or refuses a message (`Outcomes`).
* `SetBeneficiaries`, deposits and withdrawals do not change what the keeper decides by and
  are no steps of `Switch`.

In the client, the blink server and the codec:

* `Client` counts no time: the 90 seconds of `confirm` and the two minutes of the context may
  be over after any number of polls, since nothing bounds how long a poll takes. A transaction
  is one instruction; what it does makes no difference to `send` and `confirm`.
* The blink server's clock is the cluster's. Requests that cannot be parsed, addresses without
  a vault and nodes without a blockhash make no statement about a vault and are requests that
  are never answered.
* In `VaultCodec` a key is the number its bytes make.

In the program:

* In `Answers` the wallets' own token accounts exist, and what `close_vault` is given is a token
  account of the PDA and of the vault's mint, or none. An error of Anchor, the runtime or
  another program is told apart from the program's own, not from others of its kind.
* One PDA: owner, `vault_id` and bump are constants. Vaults share no state.
* Keys are model values. A table may list the owner, the default key, or a key twice.
* Transaction fees, the rent of token accounts and the rent minimum of wallets are left
  out, so that balances are conserved exactly (`Conserved`). A gift to an address
  below the runtime's minimum is allowed here and is refused by the real runtime: the
  model has more behaviours.
* `RENT` is fixed while the vault lives.
* Token accounts are not frozen, mints take no transfer fee, and nobody mints or burns
  (Token-2022 extensions are not modelled).
* The `u128` product of `share_of` is an integer product; that the quotient fits `u64`
  is the lemma `ShareOfBound`. The checked `u16` sum is `TotalShare(slots) <= MAX_U16`,
  equivalent because the terms are positive.

## 3. The runs

| Run | Checks | Shows |
|---|---|---|
| `vault_sol` (`MCVaultSol.cfg`) | all invariants and action properties of `Vault` but `Conserved` and `OnlyOwnMint`, which are about tokens too, and `CloseOrphansNothing` (run `orphan`); `ImplementsSwitch`, `ImplementsInheritance` | a SOL vault with three wallets, valid and invalid tables and timeouts, gifts, re-opening |
| `answers` (`MCAnswers.cfg`) | `RefusedWithReason`, `PaidHeirIsTold`, `EligibleHeirIsServed`, `OwnerCanTakeAllBack`; `Solvent`, `Conserved`, `FairPayout`, `TrippedIsFinal`, `OnlyOwnMint`, `ImplementsInheritance`; `LastClaimLetsClose` | a SOL or an SPL vault among two mints: every instruction of every wallet, valid or not, and its answer; the promises of `vault_sol` on the token path; closing after the last claim |
| `estate` (`MCEstate.cfg`) | `HeirGetsPaid`, `NobodyReplacesTheOwner`, `NothingLostByWaiting` | liveness and safety once the owner is dead, SOL and SPL |
| `keeper` (`MCKeeper.cfg`) | `TypeOK`, `StatusAgrees`, `TrackerBounded`, `NoFalseCalm`, `Escalates`, `OverdueIsReported` | one vault through two lives of its address, two thresholds, Postgres; failures and crashes without number |
| `keeper_pair` (`MCKeeperPair.cfg`) | `StatusAgrees`, `TrackerBounded`, `NoFalseCalm` | two vaults that take turns in the loop while the chain moves on, answered by nodes of which one is behind; memory store |
| `blink` (`MCBlink.cfg`) | `LockedOutAsTold`, `RefusalStands`, `HandedOutIsAccepted` | a request that is read, answered and used at three different moments |
| `client` (`MCClient.cfg`) | `DoneIsDone`, `CommandEnds` | a command given up to three times, forks, lost answers |
| `codec` (`MCVaultCodec.cfg`) | `NeverMisread` | vaults of both layouts, whole and cut at every byte |
| `blind` (`MCKeeperBlind.cfg`) | `OneMalformedBlindsNobody`, violated | see findings |
| `stall` (`MCVaultStall.cfg`) | `NothingStalls`, violated | see findings |
| `orphan` (`MCVaultOrphan.cfg`) | `CloseOrphansNothing`, violated | see findings |
| `blink_spl` (`MCBlinkSpl.cfg`) | `ToldBeforeSigning`, violated | see findings |

`CHECK_DEADLOCK FALSE` is set because the model's clock has an end (`MAX_CLOCK`); at the
end of time with everything claimed and closed the system may stop. The keeper's loop
does not stop; there the setting is harmless. A command, a session and a decoding end.

### Bounds, and why the interesting cases happen

* `MAX_BENEFICIARIES` is 5 as in the code; the tables of the runs use up to three of the
  slots. Three heirs are the least for which a first, a middle and a last claim differ.
* Shares 3333/6667 and 2500/2500/5000 of small pools leave remainders, so that rounding, dust
  and the sweep occur. The table 40000/35536 wraps a `u16` to exactly 10000.
* `MIN_TIMEOUT_SECONDS` to `MAX_TIMEOUT_SECONDS` is 2 to 3 (SOL run), with 1 and 4 tried.
  `MAX_I64` is 7 and the clock reaches 6, so that a deadline can overflow and is refused.
* The wallets hold 14 lamports altogether, the reserve is 2: enough for rent, deposits,
  withdrawals, a gift between two claims and a second life of the vault.
* `MAX_U64` is 65535 and is not reached: the total supply is below `u64` in reality too.
  What happens at the limit is covered by the proof of `TypeCorrect`, which does not
  bound the balances.

For the keeper:

* In `keeper`, thresholds {1, 2} with a timeout of 3 give every state of a vault: active,
  crossing one threshold, crossing both at once, exactly at the deadline, past it. Clock 4
  leaves room for a check-in after which the cycle starts over.
* Two lives of an address let it be closed and opened again between two scans, even with the
  same deadline. Two vaults are enough for the loop: entries do not refer to each other.
* In `keeper_pair` the node that is behind makes reminders repeat without end. `VIEW Unsent` leaves the
  history `sent` out of the fingerprint; no step and no property of that run reads it. The
  timeout is 1 there, so that vaults are due soon at once and overdue at 1 or 2; two vaults in
  two lives, each in two versions, come to 4.6 million states even so.
* `MAX_CLOCK` and `MAX_LIVES` bound the model only. In `keeper` the clock reaches every
  deadline that was set early enough, and a deadline that lies beyond it is never overdue.

For the others:

* `answers`: the tables are those of `vault_sol` and, in addition, six heirs, a share of zero and
  shares that make too little; amounts 0, 1, 3 of balances up to 6 give every outcome of a
  transfer; the pool of 3 or 4 tokens leaves remainders for two and for three heirs. `MAX_I64` is
  4 and a check-in at 2 or 3 overflows.
* `blink`: two timeouts' worth of time pass between opening and the end, so that a check-in can
  land before, at and after the deadline it was read with, and an heir can claim in between.
* `client`: three commands let a transaction of the first land while the third is under way.
  Transactions do not refer to each other.
* `codec`: bytes of four values, so that the numbers used fill all of theirs and a field that is
  read at a wrong place shows; the largest timeout is the largest whose nanoseconds fit, as
  `DurationAssumption` says (in the program, 10 years and 2^63).

### Fairness

`EstateSpec` asks for weak fairness of `Tick` (time passes) and of `Claim(w)` for the
heirs in `Diligent` (an heir who could claim eventually does: claiming needs no other
party). It asks nothing of the owner, of the other heirs or of the keeper. Weak fairness
is enough because once an heir can claim nobody can take that away, and this is
what the run checks. `MAX_CLOCK = MAX_I64` in that run, so that time reaches every
deadline that was accepted. The premise `Entitlement(i) > 0` is needed: see the first
finding. Shares that round to zero are thus not this run's business but that of `stall`.

`LiveSpec` asks of the keeper that the process is started again when it ended (`WF(Start)`: an
operator or a supervisor does so; nothing in the repository restarts it) and strong
fairness of each part of a scan: `Fetch`, `Replace`, each `Remind`, `Finish`. Strong, because the process may end, and the
store may fail, any number of times in between: what is assumed is only that the
same part is not the one that fails for ever, which is what "retried on the next tick"
(`watcher.go:49`) can achieve. Nothing is asked of the channel, of the owner or of the
heirs.

`LiveSpec` of `Client` asks that a call to the node ends, with an answer or with the context
(`NoBlockhash \/ Send`, the first `Poll`), and that the loop of `confirm` ends (`GiveUp`), since both
have a deadline in the code. Nothing is asked of the cluster: the transaction may never land,
and no poll after the first need be answered.

### Findings

1. `NothingStalls`: if all heirs left have shares that round to zero, each claim is
   refused (`claim_spl.rs:71`, and `claim_sol.rs:45` for lamports), and, as a refused claim marks nobody, none becomes the
   last one who would sweep. `README.md` says "nothing stalls", `state.rs:215` that
   division "cannot strand dust". The run ends with one token left to two heirs.
2. `CloseOrphansNothing` with a second token account: `close_vault` checks mint, owner
   and balance of the account it is given, not that it is the ATA, so "no balance is
   ever orphaned" (`README.md`, invariant 6) does not hold for SPL vaults. What does hold, for any
   token accounts, is `ClosingLosesNothing`: the vault held nothing and owed nobody, or it was
   closed with another account of its mint, and its balance stays in the ATA. The owner gets at it by opening
   the same vault again; heirs that were still owed do not.
3. `OneMalformedBlindsNobody`: `Vaults` returns the first decoding error
   (`client.go:47`), one line below the comment "One malformed account must not blind the
   keeper to the rest". The scan ends there, every time, and the other vaults are
   neither cached nor reminded of.
4. `ToldBeforeSigning`: `postClaim` always hands out `claim_sol` (`server.go:289`). An heir of an SPL
   vault, who could claim, passes all checks and is given a transaction that the program refuses
   with `NotSolVault`, though the checks are there "so the user is told why before they sign,
   instead of watching a transaction fail in their wallet".

Five more things the models do, which no run is about. A gift of the vault's own asset after the last claim
leaves something that nobody can take: the heirs are paid, the owner is locked out, and `close_vault`
asks for an empty vault, so the gift and the rent stay there (unless it is an SPL vault and the owner closes it
with a second, empty account, as in the second finding). `close_vault.rs:9` says "only once nothing of value is
left", so this is as announced; `LastClaimLetsClose` says that nothing else can bar the owner. An SPL vault without any deposit has no token
account, and `close_vault` demands one (its answer is `MissingTokenAccount`). `Due` marks a
threshold as fired before `Notify` is tried, so what the channel refused is not said again for
this deadline. `confirm` believes a failure at level "processed" already, so a transaction that
failed on a fork that is abandoned, and then succeeds, is reported as failed
(`client.go:131`). And an operator who repeats a command after "not confirmed in time" may pay twice.

## 4. The proofs

`VaultProofs` proves, for any keys, tables, amounts, gifts, rent, timeouts and clock:

| Theorem | Property |
|---|---|
| `TypeCorrect` | `TypeOK` |
| `HeirsAlwaysValid` | `HeirTableValid` |
| `DeadlineAlwaysFits` | `DeadlineInRange` |
| `TripAlwaysConsistent` | `TripConsistent` |
| `ReserveAlwaysKept` | `ReserveKept` |
| `AlwaysSolvent` | `Solvent` |
| `AlwaysFair` | `FairPayout` |
| `AlwaysSwept` | `LastHeirSweeps` |
| `AlwaysFrozen` | `TrippedIsFinal` |
| `AlwaysConserved` | `Conserved` |
| `OwnMintOnly` | `OnlyOwnMint` |
| `ClosingLosesNothing` | what becomes of `CloseOrphansNothing` with any token accounts: a vault that is closed is empty and owes nobody, or was closed with another account of its mint and leaves its balance in the ATA |
| `Implementation` | `ImplementsSwitch` |
| `InheritanceImplemented` (`EstateProofs`) | `ImplementsInheritance`, if the PDA has no token account but its ATA |

`AnswersProofs` and `EstateProofs`, for the same constants:

| Theorem | Property |
|---|---|
| `PaidAlwaysTold` | `PaidHeirIsTold` |
| `EligibleAlwaysServed` | `EligibleHeirIsServed` |
| `OwnerAlwaysCan` | `OwnerCanTakeAllBack` |
| `SettledIsClosable` | `LastClaimLetsClose` |
| `AnswersMeanIt` | `RefusedWithReason` with the guard of each action written out in the place of `ENABLED`, and of the errors only that they have a name |
| `WhatHappensWasOk` | what goes through is answered Ok |
| `EstateIsVault` | `Spec` of `Vault`, of every behaviour of `Estate` |
| `OwnerIsIrreplaceable` | `NobodyReplacesTheOwner` |
| `WaitingLosesNothing` | `NothingLostByWaiting` |
| `AwaitedAlwaysServed` | the safety half of `HeirGetsPaid`: the claim that is waited for is answered Ok |

`KeeperProofs`, for any vaults, timeouts, thresholds, either store and any channel:

| Theorem | Property |
|---|---|
| `KeeperTypeCorrect` | `TypeOK` |
| `TrackerAlwaysBounded` | `TrackerBounded` |
| `StatusAlwaysAgrees` | `StatusAgrees` |
| `NeverFalseCalm` | `NoFalseCalm` |
| `RemindersEscalate` | `Escalates`, if one node answers (`~Lagging`) |

`BlinkProofs` proves `PromiseHolds` (`LockedOutAsTold`), `RefusalsStand` (`RefusalStands`) and
`HandedOutPassesAlways` (`HandedOutIsAccepted`), `ClientProofs` `DoneIsForGood` (`DoneIsDone`), and
`VaultCodecProofs` `NeverMisreads` (`NeverMisread`), for any widths, base, vaults and cuts.

The assumptions are those of `VaultRules` and `Vault`: the default key is a key, `None` is
not a mint, widths and clock are naturals, timeouts are positive, the owner is a wallet and
no wallet has the default key, and the inputs are of the argument types of the instructions;
there are finitely many wallets and token accounts (`FiniteAssumption`: addresses are 32 bytes), and of
no asset more than a `u64` counts (`SupplyAssumption`: both lamports and the supply of a mint are a `u64`);
for the keeper those of `Account`, `Reminder` and `Keeper`: timeouts and thresholds are
positive and there is a widest threshold, as `thresholds()` guarantees; for the codec that a byte has two values
at least and counts the heirs, that ten years of nanoseconds fit an `int64` (`DurationAssumption`), and
`VaultsAssumption`.

The argument. `TypeOK` is inductive (`TypeInit`, `TypeStep`). `StepShape` then says that a
step of the seventeen kinds is, seen from the vault, one of six: it does not write
the vault account (`QuietStep`, which also says what balances may do), it opens, checks in,
restates the table, closes, or is a claim (`ClaimStep`, which joins the SOL and SPL paths).
The invariant

    VaultInv == TypeOK /\ ClosedIsBlank /\ HeirTableValid /\ DeadlineInRange
                /\ TripConsistent /\ ReserveKept /\ Solvent

is kept by each shape. `Solvent` is the one that needs strengthening: at the first claim
it needs `HeirTableValid`, since shares of 100%, each rounded down, fit in the pool
(`SharesFit`, `DuesFit`); at each claim the sum of the dues loses exactly the claimant's
(`DuesAfterClaim`), which is at most what is paid only if somebody else is left. `ClosedIsBlank`
is not a property of interest: it rules out a closed vault with heirs, from which
`InitializeVault` would look like a payment. `FairPayout` for the last heir follows from `Solvent`:
what is left is no less than their due.

`Implementation` reads off the same six shapes that the readable part of the vault takes a
step of `Switch` or none: a check-in needs that nobody has claimed (`Untripped`), a claim
that the deadline has come (`MayClaim`), the rest leaves those fields alone.

`InheritanceImplemented` uses the same shapes and the whole of `VaultInv`. Slots and bequests correspond one to
one because a valid table names no key twice (`BequestsDiffer`, from `HeirTableValid`); so counting
the unclaimed slots answers whether the bequest is the last (`LastBequest`), and booking a claim adds
exactly one bequest to `paid` (`BookedBequest`). That the vault has tripped if and only if somebody is
paid (`TrippedIsPaid`) is `TripConsistent`. The premise about token accounts is needed for closing
only; the second finding shows what happens without it.

For the keeper, `StatusAgrees` is not inductive: it speaks of the vaults that had their turn,
and must survive the turns of the others, a restart and the next scan. The invariant is

    KeeperInv == TypeOK /\ ScanConsistent /\ MemoryKept /\ TurnsDone /\ TrackerBounded

`ScanConsistent` ties the running loop to the cache and to the clock. `Exact(e, t)` says that
the entry `e` holds what its deadline calls for at the time `t`: the thresholds reached, or,
past the deadline, "expired" (with or without others). `MemoryKept` says that every entry is
empty or exact for some time up to the last loop's (`Remembers`), and `TurnsDone` that the entry
of a vault that had its turn is exact for that loop's own time. `FireExact` is the heart:
whatever was reached before, `Fire` makes the entry exact for now, since time only takes
more thresholds in. It is for this that a set of thresholds that were reached needs a least
member (`LeastExists`, by well-founded induction on the naturals).

The first three hold with `Lagging` as well. So does `NoFalseCalm`, whose invariant
`CalmInv` says of each copy of the chain, `view`, `fetched` and `cache`, that the chain `Trails` it: as
long as the address is in the same life, its deadline is no earlier than in the copy. A
claim on the chain came at its deadline or later (`Timely`), so where the copy's deadline is still
ahead at the time of the request, which is when the status is computed, nobody has claimed.

`Escalates` needs to know what the chain held when each reminder was given. With one node, what
the keeper reads never goes back (`Follows`), and the invariant `SaidInv` says of every reminder
`r` that was given (`Told`) that it is still *held*, that is, the tracker's entry has its
deadline and its threshold, or is *spent*: the vault as the keeper will read it next is claimed, or has
a later deadline, or is another life. A step that makes the tracker forget (a vault that is
gone, claimed, or checked in) is one that spends. A new reminder differs from the held
ones because it was not fired, and is more urgent because `News` gives the least threshold
reached. Where one node is behind, a vault that comes back is reminded of again, and `Escalates`
does not hold.

`Conserved` is inductive, but about sums over sets of any size. `SumEquation` (`RulesProofs`) says that
the sum over a set is a chosen element's term and the sum over the rest; `SumTakeOut` frees it from the choice, and
`SumChange` says what a sum becomes when one term changes, which is all that a debit or a credit does. They
are proved by a smallest counterexample (`SmallestSet`; `LeastExists` for numbers), which takes the place
of induction.

The answers. `FirstHitJoin` says that two lists of checks in a row answer like the first, or, where that
lets the instruction through, like the second; so an answer is worked out list by list. In a table without a
key twice `index_of` finds each heir's own slot (`IndexOfHeir`), and a claim is decided by
`ClaimantChecks` and `PayoutChecks` (`ClaimIsDecided`). An heir who was paid fails the first at the flag, since
`TripConsistent` puts the deadline in the past; one who is due passes both: what is owed is there by
`Solvent` (`ClaimIsCovered`), and it fits the wallet because with `Conserved` and `SupplyAssumption` no
wallet and vault together hold more than a `u64` (`HoldingFits`). 
`AnswersMeanIt` is about all answers. The guards of each action are collected in a predicate (`CanCheckIn`,
`CanClaimSol`, ...; `StepHasGuard`: no step without its guard), and for each of the ten instructions its list of checks
lets through just what the predicate allows. Two lists in a row let through what both do
(`JoinDecided`), the rounds of `validate_slots`, which `FlattenSeq` strings together, what all of them do
(`FlattenDecided`), so `TableDecided` holds for tables of any length: the checks, slot by slot and with a
running total, accept just the tables that are valid as a whole. Whoever is let through by
`authorize_claim` is an heir who may claim (`ClaimantDecided`), and back. That each refusal has a name
comes along: every check is one of `Errors`.

`Estate` adds steps of the owner's death only, so all that is proved of `Vault` holds there
(`EstateIsVault`). With the owner dead a step is quiet and takes nothing out, or is a claim (`DeadShape`). Then
nothing is lost by waiting: before the first claim the entitlement follows the pool, which only grows
(`ShareGrows`); at the first claim the pool is fixed at what it was; after it the snapshot stays, and a
claim pays its share at least, the last one too, by `Solvent`. And a claim that is waited for passes, by `EligibleIsServed`.
What `HeirGetsPaid` adds is that the clock goes on and the heir comes, which is fairness.

For the Action server, the invariant `BlinkInv` relates the reading of a session to the vault as it is
(`Became`): while the vault was not closed, its deadline is no earlier than in the reading, and who
had claimed then has claimed now. `Meant` says what each answer was about. A refusal stands because of
these two alone: "claimed" and "paid" are never undone, and "too early" names a deadline that only moves
on. What keeps the promise after a check-in has landed is the abstract specification: a step of the
program is a step of `Switch` (`PublicStep`), which moves the deadline only forward and lets a claim through
only past it. A vault that was closed, and perhaps opened again, is excluded by `same`.
`HandedOutPassesAlways` combines `Meant` with the lemmas on answers, `CheckInIsOk` and `EligibleIsServed`.

`DoneIsForGood`: its invariant adds that a command without an answer has none of another command's
(`Unanswered`); "ok" is only said of a confirmed transaction, and no step of the cluster takes a
confirmed one back.

`NeverMisreads` needs arithmetic first. That a recursive function is what its definition says (`Recursion`) is
shown by a smallest counterexample, as there is no induction; with it `Power` and `Number` can be unfolded, and
the number of the bytes of a number is that number (`NumberOfBytes`), if it is within its width. Then the layout: each
part of the account stands where the parts before it end (`At`, `AtConcat`; `FlattenedPieces` for the slots of a
table of any length, `BorshPieces` for the vault), and the reader's moving offset is at just these places, with
and without a mint (`ReadPlaces`). So a whole vault is read field by field (`WholeIsRead`), where the sign
of the timeout and the product with nanoseconds come out because of the assumptions, and an account that ends before the
vault does is refused (`CutIsRefused`). The invariant `CodecInv` is that the bytes are a front of the account,
and what was shown is what they decode to.

`OwnMintOnly` and `ClosingLosesNothing` are about single steps. The latter rests on `Solvent`, by which
a vault that holds nothing owes nothing, and on `Conserved`, by which nothing lies where there is no account.

`SettledIsClosable`: in a settled vault the owner is let to close if nothing is held and the ATA is there, as with
`Conserved` the lamports on the PDA fit in the owner's wallet (`ClosableMeans`). Only a claim settles a vault
(`SettledByClaim`); it took something out, so the ATA exists, and by `LastHeirSweeps` it took all. After it
`TrippedIsFinal` keeps the mint, and no token account goes while the vault is open (`AccountsStay`).

Checked by TLC only, and why:

* `HeirGetsPaid`, `OverdueIsReported`, `CommandEnds`: liveness under fairness, which needs `ENABLED`.
* `RefusedWithReason`, in so far as it says `ENABLED`. With the guards written out it is `AnswersMeanIt`; that
  an action whose guards hold can be taken, because the rest of it only assigns, is left to TLC, and so is
  that the error which is told is a true one.
* The four properties that are violated: `NothingStalls` and `ToldBeforeSigning` speak of `ENABLED`,
  all four are refuted by a behaviour.

## 5. Not modelled

* The wording of messages and logs; routes, filters and JSON of the API and of the blink server,
  CORS, icons; SQL columns; Telegram's protocol: pure I/O, about which no property is stated.
* The parsing of flags, environment and addresses. `dmsctl` reads SOL as a floating-point
  number and truncates it to lamports (`main.go:202`): floating point is out of the checker's reach.
* The bytes of the instructions that the client sends (`client/instructions.go`). Their
  layout is fixed, and they are for SOL vaults only.
* Signals and the HTTP shutdown of the keeper process; `Stop` ends it at any point.
* Tests, the fuzz harness with its generated `types.rs`, CI and deployment files. The
  harness's invariants were read as a source of properties.

## 6. Plan

Done: all modules of section 2, and their proofs except where noted above. What is left: an API
reader between the steps of a scan in `Keeper` with several requests in a row (what a sequence of statuses may look
like), and the hazards that no property covers yet.
