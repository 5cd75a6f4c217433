---------------------------- MODULE MCVaultCodec ----------------------------
(***************************************************************************)
(* A small instance of VaultCodec for TLC: bytes of four values, keys of   *)
(* two bytes, numbers of three, and a table of two heirs.                  *)
(***************************************************************************)
EXTENDS VaultCodec

\* Every key, number and flag has bytes of its own, and the long ones fill all
\* of theirs; the longest timeout is twelve seconds, of two nanoseconds.
Blank == [address |-> 0, share_bps |-> 0, claimed |-> FALSE]
Heir(key, claimed) == [address |-> key, share_bps |-> 9, claimed |-> claimed]

MCVaults ==
    {[owner             |-> 7,
      vault_id          |-> id,
      mint              |-> mint,
      last_checkin      |-> 27,
      timeout_seconds   |-> timeout,
      beneficiaries     |-> slots,
      beneficiary_count |-> IF slots[2] = Blank THEN 1 ELSE 2,
      is_claimed        |-> slots[1].claimed,
      claim_pool        |-> IF slots[1].claimed THEN 54 ELSE 0,
      bump              |-> 3] :
        id \in {0, 45},
        mint \in {<< >>, <<0>>, <<14>>},
        timeout \in {1, 12},
        slots \in {<<Heir(6, claimed), other>> :
                    claimed \in BOOLEAN, other \in {Blank, Heir(11, FALSE)}}}
=============================================================================
