----------------------------- MODULE VaultCodec -----------------------------
(***************************************************************************)
(* The bytes of a vault account: what the program writes (the Borsh form   *)
(* of the struct Vault in state.rs, behind a discriminator, in an account  *)
(* of fixed size) and what the keeper makes of them (dms/vault.go), which  *)
(* is written by hand.  The reader may also get less than that: the Action *)
(* server decodes whatever account it is asked for, of whatever length.    *)
(*                                                                         *)
(* The widths are constants, so that an instance may use bytes of few      *)
(* values and short keys; the order of the fields, and what shifts them,   *)
(* are those of the code.  Keys and amounts are the numbers their bytes    *)
(* make.                                                                   *)
(***************************************************************************)
EXTENDS Integers, SequencesExt

CONSTANTS
    BASE,               \* the values of a byte, 256 in the program
    DISC, KEY,          \* widths: discriminator 8, Pubkey 32,
    LONG, SHORT,        \* u64 and i64 8, u16 2
    MAX_BENEFICIARIES,  \* the length of the table, 5
    SECOND,             \* nanoseconds in a second, 10^9
    MAX_TIMEOUT_SECONDS,
    Vaults              \* the vaults to write

AccountDiscriminator == [i \in 1..DISC |-> 1]

\* A count of heirs fits a byte.
ASSUME WidthAssumption ==
    /\ BASE \in Nat /\ BASE >= 2
    /\ DISC \in Nat /\ KEY \in Nat /\ LONG \in Nat /\ SHORT \in Nat
    /\ MAX_BENEFICIARIES \in 0..(BASE - 1)
    /\ SECOND \in Nat \ {0} /\ MAX_TIMEOUT_SECONDS \in Nat

\* How many numbers k bytes tell apart.
Power[k \in Nat] == IF k = 0 THEN 1 ELSE BASE * Power[k - 1]

Unsigned(w) == 0..(Power[w] - 1)

WordSize == Power[LONG]
MaxInt   == WordSize \div 2 - 1

\* Ten years of nanoseconds fit an int64.
ASSUME DurationAssumption == MAX_TIMEOUT_SECONDS * SECOND <= MaxInt

\* Beneficiary and Vault, as the instructions leave them: the timeout and the
\* count of heirs are validated, the last check-in is a time after 1970.
Beneficiary == [address : Unsigned(KEY), share_bps : Unsigned(SHORT), claimed : BOOLEAN]

VaultData ==
    [owner             : Unsigned(KEY),
     vault_id          : Unsigned(LONG),
     mint              : {<< >>} \cup {<<key>> : key \in Unsigned(KEY)},
     last_checkin      : 0..MaxInt,
     timeout_seconds   : 0..MAX_TIMEOUT_SECONDS,
     beneficiaries     : [1..MAX_BENEFICIARIES -> Beneficiary],
     beneficiary_count : 0..MAX_BENEFICIARIES,
     is_claimed        : BOOLEAN,
     claim_pool        : Unsigned(LONG),
     bump              : Unsigned(1)]

ASSUME VaultsAssumption == Vaults \subseteq VaultData

VARIABLES
    vault,  \* the vault that the program wrote
    data,   \* the bytes the reader is given
    shown   \* what it made of them

vars == <<vault, data, shown>>

-----------------------------------------------------------------------------
(* The program's side. *)

\* A number as w little-endian bytes.
Bytes(n, w) == [i \in 1..w |-> (n \div Power[i - 1]) % BASE]

Flag(b) == <<IF b THEN 1 ELSE 0>>

\* Option<Pubkey>: a tag, then the key if there is one; << >> or <<key>>.
Option(o) == IF o = << >> THEN <<0>> ELSE <<1>> \o Bytes(o[1], KEY)

\* Beneficiary.
Slot(b) == Bytes(b.address, KEY) \o Bytes(b.share_bps, SHORT) \o Flag(b.claimed)

\* Vault, field by field.
Borsh(v) ==
    Bytes(v.owner, KEY) \o Bytes(v.vault_id, LONG) \o Option(v.mint)
    \o Bytes(v.last_checkin, LONG) \o Bytes(v.timeout_seconds, LONG)
    \o FlattenSeq([i \in 1..MAX_BENEFICIARIES |-> Slot(v.beneficiaries[i])])
    \o Bytes(v.beneficiary_count, 1) \o Flag(v.is_claimed)
    \o Bytes(v.claim_pool, LONG) \o Bytes(v.bump, 1)

\* 8 + INIT_SPACE: room for the mint, whether there is one or not.
AccountSize ==
    DISC + 2 * KEY + 4 * LONG + 4 + MAX_BENEFICIARIES * (KEY + SHORT + 1)

\* The account: what the vault does not need stays zero.
Account(v) ==
    LET written == AccountDiscriminator \o Borsh(v)
    IN  written \o [i \in 1..(AccountSize - Len(written)) |-> 0]

-----------------------------------------------------------------------------
(* The reader's side. *)

NotAVault == [err |-> TRUE]

\* What the bytes from the i-th on amount to, and so all of them.
Number(bytes) ==
    LET n[i \in 0..Len(bytes)] ==
            IF i = Len(bytes) THEN 0 ELSE bytes[i + 1] + BASE * n[i + 1]
    IN  n[0]

\* A take: w bytes from the offset on.
Take(buf, off, w) == SubSeq(buf, off + 1, off + w)

\* int64 of a uint64, and what is left of a product that overflows.
Signed(n) == LET m == n % WordSize IN IF m > MaxInt THEN m - WordSize ELSE m

\* Wrong: what is missing at the end is read as zeroes.
Complete_BugZeroes(buf, needed) == TRUE

\* r.err is nil: the takes, each of which starts where the last one ended, all
\* stayed within the buffer.
Complete(buf, needed) == needed <= Len(buf)

\* Wrong: a vault without a mint has the same layout.
MintWidth_BugFixed(tag) == KEY

\* optionPubkey takes the key only if the tag is set.
MintWidth(tag) == IF tag = 0 THEN 0 ELSE KEY

\* DecodeVault.
DecodeVault(bytes) ==
    LET \* the reader's buffer, with zeroes for what lies beyond it
        buf     == bytes \o [i \in 1..AccountSize |-> 0]
        num(off, w) == Number(Take(buf, off, w))
        set(off)    == num(off, 1) # 0
        id      == DISC + KEY
        tag     == id + LONG
        checkin == tag + 1 + MintWidth(num(tag, 1))
        slot(i) == checkin + 2 * LONG + (i - 1) * (KEY + SHORT + 1)
        count   == slot(MAX_BENEFICIARIES + 1)
        end     == count + 2 + LONG + 1
    IN  IF \/ Len(bytes) < DISC
           \/ Take(bytes, 0, DISC) # AccountDiscriminator
           \/ ~Complete(bytes, end)
           \/ num(count, 1) > MAX_BENEFICIARIES
        THEN NotAVault
        ELSE [err           |-> FALSE,
              owner         |-> num(DISC, KEY),
              vault_id      |-> num(id, LONG),
              mint          |-> IF set(tag) THEN <<num(tag + 1, KEY)>> ELSE << >>,
              last_checkin  |-> Signed(num(checkin, LONG)),
              timeout       |-> Signed(Signed(num(checkin + LONG, LONG)) * SECOND),
              beneficiaries |->
                [i \in 1..num(count, 1) |->
                    [address   |-> num(slot(i), KEY),
                     share_bps |-> num(slot(i) + KEY, SHORT),
                     claimed   |-> set(slot(i) + KEY + SHORT)]],
              is_claimed    |-> set(count + 1),
              claim_pool    |-> num(count + 2, LONG),
              bump          |-> num(end - 1, 1)]

-----------------------------------------------------------------------------

Undecoded == [err |-> FALSE]

Init ==
    /\ vault \in Vaults
    /\ data = Account(vault)
    /\ shown = Undecoded

\* The account ends before the vault does.
Cut ==
    /\ shown = Undecoded
    /\ data = Account(vault)
    /\ \E n \in 0..(AccountSize - 1) : data' = SubSeq(data, 1, n)
    /\ UNCHANGED <<vault, shown>>

Decode ==
    /\ shown = Undecoded
    /\ shown' = DecodeVault(data)
    /\ UNCHANGED <<vault, data>>

Next == Cut \/ Decode

Spec == Init /\ [][Next]_vars

-----------------------------------------------------------------------------
(* Properties. *)

Decoded == shown # Undecoded

\* The vault as its readers are to see it: the heirs that there are, and the
\* timeout as a duration that did not overflow.
Seen(v) ==
    [err           |-> FALSE,
     owner         |-> v.owner,
     vault_id      |-> v.vault_id,
     mint          |-> v.mint,
     last_checkin  |-> v.last_checkin,
     timeout       |-> v.timeout_seconds * SECOND,
     beneficiaries |-> SubSeq(v.beneficiaries, 1, v.beneficiary_count),
     is_claimed    |-> v.is_claimed,
     claim_pool    |-> v.claim_pool,
     bump          |-> v.bump]

\* The keeper sees what the program wrote, of SOL and of SPL vaults, in every
\* field; of an account that lacks some bytes it sees the same, if only the
\* unused rest is missing, or nothing.  A vault it makes up it never sees.
NeverMisread ==
    Decoded =>
        /\ shown \in {Seen(vault), NotAVault}
        /\ Len(data) >= Len(Borsh(vault)) + DISC <=> shown = Seen(vault)

=============================================================================
