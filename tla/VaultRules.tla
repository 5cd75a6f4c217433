----------------------------- MODULE VaultRules -----------------------------
(***************************************************************************)
(* The rules of a vault, without the accounts around it: the heir table    *)
(* and its validation, the deadline, and the booking of a claim.  All of   *)
(* it is programs/dead-man-switch/src/state.rs, whose methods are pure     *)
(* functions of the Vault struct; Vault.tla is the program that applies    *)
(* them to accounts.                                                       *)
(*                                                                         *)
(* An operator named X_Bug... is a deliberately wrong variant of X: the    *)
(* properties of the project are tested by checking that they fail with    *)
(* it.                                                                     *)
(***************************************************************************)
EXTENDS Integers, Sequences, FiniteSets

CONSTANTS
    Keys,                   \* every public key a heir table may name
    DEFAULT_KEY,            \* Pubkey::default(), the all-zero key
    None,                   \* the absent mint: a vault of native SOL
    Mints,                  \* the mints an SPL vault may be opened for
    MAX_I64, MAX_U64,       \* largest timestamp and largest amount
    MIN_TIMEOUT_SECONDS,    \* 60 in the program
    MAX_TIMEOUT_SECONDS     \* ten years in the program

ASSUME KeyAssumption  == DEFAULT_KEY \in Keys
ASSUME MintAssumption == None \notin Mints
ASSUME WidthAssumption ==
    /\ MAX_I64 \in Nat
    /\ MAX_U64 \in Nat
ASSUME TimeoutAssumption ==
    /\ MIN_TIMEOUT_SECONDS \in Nat \ {0}
    /\ MAX_TIMEOUT_SECONDS \in Nat
    /\ MIN_TIMEOUT_SECONDS <= MAX_TIMEOUT_SECONDS

MAX_BENEFICIARIES == 5
TOTAL_SHARE_BPS   == 10000
MAX_U16           == 65535

Slots  == 1..MAX_BENEFICIARIES
Times  == 0..MAX_I64
Amount == 0..MAX_U64

-----------------------------------------------------------------------------
(* The account data. *)

Beneficiary      == [address : Keys, share_bps : 0..MAX_U16, claimed : BOOLEAN]
BeneficiaryInput == [address : Keys, share_bps : 0..MAX_U16]

DefaultBeneficiary ==
    [address |-> DEFAULT_KEY, share_bps |-> 0, claimed |-> FALSE]

\* The struct Vault; owner, vault_id and bump only name the account and are
\* fixed by the choice of one PDA.  mint = None is a SOL vault.
VaultData ==
    [mint              : {None} \cup Mints,
     last_checkin      : Times,
     timeout_seconds   : Nat,
     beneficiaries     : [Slots -> Beneficiary],
     beneficiary_count : 0..MAX_BENEFICIARIES,
     is_claimed        : BOOLEAN,
     claim_pool        : Amount]

\* A closed account is zeroed.
DefaultVault ==
    [mint              |-> None,
     last_checkin      |-> 0,
     timeout_seconds   |-> 0,
     beneficiaries     |-> [i \in Slots |-> DefaultBeneficiary],
     beneficiary_count |-> 0,
     is_claimed        |-> FALSE,
     claim_pool        |-> 0]

Active(v) == 1..v.beneficiary_count

Unclaimed(v) == {i \in Active(v) : ~v.beneficiaries[i].claimed}

IsSol(v) == v.mint = None

-----------------------------------------------------------------------------
(* The deadline. *)

Deadline(v) == v.last_checkin + v.timeout_seconds

\* Wrong: the log line that evaluates the deadline is gone.
DeadlineFits_BugIgnored(v) == TRUE

\* deadline() is a checked addition: past i64 it is an error, and the
\* instruction that evaluates it is rejected.
DeadlineFits(v) == Deadline(v) <= MAX_I64

\* Wrong: the timer trips one second before the deadline.
IsExpired_BugEarly(v, t) == DeadlineFits(v) /\ t + 1 >= Deadline(v)

\* is_expired: the deadline itself is already expired.
IsExpired(v, t) == DeadlineFits(v) /\ t >= Deadline(v)

ValidTimeout(s) == s \in MIN_TIMEOUT_SECONDS..MAX_TIMEOUT_SECONDS

-----------------------------------------------------------------------------
(* The heir table. *)

\* The slots an instruction builds from its argument: claimed is never taken
\* from outside, and what the inputs do not fill stays the default.
FillSlots(inputs) ==
    [i \in Slots |->
        IF i <= Len(inputs)
        THEN [address   |-> inputs[i].address,
              share_bps |-> inputs[i].share_bps,
              claimed   |-> FALSE]
        ELSE DefaultBeneficiary]

\* Five slots, five terms: an unused slot has share 0.
SumOverSlots(f) == f[1] + f[2] + f[3] + f[4] + f[5]

TotalShare(slots) == SumOverSlots([i \in Slots |-> slots[i].share_bps])

\* Wrong: the u16 total wraps around instead of being checked.
ValidSlots_BugWrap(slots, n) ==
    /\ n \in Slots
    /\ \A i \in 1..n : slots[i].address # DEFAULT_KEY /\ slots[i].share_bps > 0
    /\ \A i, j \in 1..n : slots[i].address = slots[j].address => i = j
    /\ TotalShare(slots) % (MAX_U16 + 1) = TOTAL_SHARE_BPS

\* validate_slots on the first n slots.  Shares are positive, so the checked
\* u16 sum overflows at some slot exactly when the whole sum exceeds MAX_U16.
ValidSlots(slots, n) ==
    /\ n \in Slots
    /\ \A i \in 1..n :
        /\ slots[i].address # DEFAULT_KEY
        /\ slots[i].share_bps > 0
        /\ \A j \in 1..(i - 1) : slots[j].address # slots[i].address
    /\ TotalShare(slots) <= MAX_U16
    /\ TotalShare(slots) = TOTAL_SHARE_BPS

\* A request naming more heirs than there are slots is refused before the
\* table is even built.
ValidTable(inputs) ==
    /\ Len(inputs) <= MAX_BENEFICIARIES
    /\ ValidSlots(FillSlots(inputs), Len(inputs))

\* What validate_slots is there to guarantee of a stored table.
WellFormedTable(v) ==
    /\ Active(v) # {}
    /\ \A i \in Active(v) :
        /\ v.beneficiaries[i].address # DEFAULT_KEY
        /\ v.beneficiaries[i].share_bps > 0
        /\ \A j \in Active(v) \ {i} :
              v.beneficiaries[i].address # v.beneficiaries[j].address
    /\ \A i \in Slots \ Active(v) : v.beneficiaries[i] = DefaultBeneficiary
    /\ TotalShare(v.beneficiaries) = TOTAL_SHARE_BPS

-----------------------------------------------------------------------------
(* Claims. *)

\* Wrong: rounded up, so the shares can exceed the pool.
ShareOf_BugRoundUp(pool, share_bps) ==
    (pool * share_bps + TOTAL_SHARE_BPS - 1) \div TOTAL_SHARE_BPS

\* share_of: the product is taken in u128, where u64 * u16 cannot overflow;
\* that the quotient fits u64 again is the lemma ShareOfBound.
ShareOf(pool, share_bps) == (pool * share_bps) \div TOTAL_SHARE_BPS

\* index_of: the first active slot that names the key.
HeirAt(v, key, i) ==
    /\ i \in Active(v)
    /\ v.beneficiaries[i].address = key
    /\ \A j \in 1..(i - 1) : v.beneficiaries[j].address # key

\* Wrong: an heir has to wait for the heirs listed before it.
MayClaim_BugInOrder(v, key, i, t) ==
    /\ IsExpired(v, t)
    /\ HeirAt(v, key, i)
    /\ ~v.beneficiaries[i].claimed
    /\ \A j \in 1..(i - 1) : v.beneficiaries[j].claimed

\* What authorize_claim requires of the claimant, found at slot i.
MayClaim(v, key, i, t) ==
    /\ IsExpired(v, t)
    /\ HeirAt(v, key, i)
    /\ ~v.beneficiaries[i].claimed

\* Wrong: the pool is measured again at every claim.
PoolAt_BugNoSnapshot(v, pool) == pool

\* The total the shares are divided over: what the vault holds at the first
\* claim, and that same figure ever after.
PoolAt(v, pool) == IF v.is_claimed THEN v.claim_pool ELSE pool

\* Wrong: counted after the claimant is marked, so no claimant but the one
\* before the last is taken for the last.
IsLast_BugOffByOne(v) == Cardinality(Unclaimed(v)) = 2

\* Wrong: nobody sweeps, every heir is paid the rounded-down share.
IsLast_BugNever(v) == FALSE

\* is_last: counted before the claimant is marked.
IsLast(v) == Cardinality(Unclaimed(v)) = 1

\* What authorize_claim writes for the claimant at slot i.
BookClaim(v, i, pool) ==
    [v EXCEPT !.is_claimed = TRUE,
              !.claim_pool = PoolAt(v, pool),
              !.beneficiaries[i].claimed = TRUE]

\* What the claim handlers then pay: the last heir sweeps the remainder.
ClaimAmount(v, i, pool) ==
    IF IsLast(v) THEN pool
    ELSE ShareOf(PoolAt(v, pool), v.beneficiaries[i].share_bps)

=============================================================================
