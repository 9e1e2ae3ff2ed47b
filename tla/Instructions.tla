---------------------------- MODULE Instructions ----------------------------
(***************************************************************************)
(* The instructions the backend builds for the program, and the accounts   *)
(* and arguments the program takes.  A builder places accounts in a list;  *)
(* Anchor reads them by position, and checks key and privileges of each.   *)
(*                                                                         *)
(* A key is a tuple of what it is derived from, so that equal derivations  *)
(* are equal keys and nothing else is.                                     *)
(***************************************************************************)
EXTENDS Naturals, Sequences

CONSTANTS
  Wallets,         \* public keys of users and of the relayer
  Mints,           \* token mints, SystemProgram for the SOL pool among them
  SystemProgram,   \* the System Program ID
  VaultTokenMint,  \* settings.vault_token_mint
  Width            \* bytes of a commitment, 32 in the code

ASSUME MintsAssumption == {SystemProgram, VaultTokenMint} \subseteq Mints
ASSUME WidthAssumption == Width \in Nat \ {0}

\* What stands for a failed conversion.
Invalid == <<"invalid">>

Meta(key, signer, writable) == [key |-> key, signer |-> signer, writable |-> writable]

Wallet(w) == <<"wallet", w>>
SYSTEM_PROGRAM_ID == <<"mint", SystemProgram>>
SPL_TOKEN_PROGRAM_ID == <<"token_program">>

_derive_ata(owner, mint) == <<"ata", owner, mint>>

\* Mutant: every pool has the PDAs of the SOL pool.
PdasOfSolPool(mint) == [vault |-> <<"vault", SystemProgram>>,
                        tree_state |-> <<"merkle_tree", SystemProgram>>]

_derive_pdas(mint) == [vault |-> <<"vault", mint>>, tree_state |-> <<"merkle_tree", mint>>]

NullifierPda(hash) == <<"nullifier", hash>>

-----------------------------------------------------------------------------
(* Conversions of what a request carries. *)

\* A token tag of a relay request: "SOL", "VAULT" or a mint.
_resolve_token_mint(token) ==
  CASE token = "SOL"   -> SystemProgram
    [] token = "VAULT" -> VaultTokenMint
    [] OTHER           -> token

\* A token tag of a deposit request: "SOL" or a mint.
_resolve_deposit_mint(token) ==
  CASE token = "SOL"   -> SystemProgram
    [] token = "VAULT" -> Invalid
    [] OTHER           -> token

\* A mint of a swap or claim request: base58 only.
_decode_pubkey(token) == IF token \in Mints THEN token ELSE Invalid

\* Hex strings, as sequences of bytes: the deposit and the withdrawal builders
\* cut the front of a long one off, the other two refuse it; all pad a short one.
Padded(bytes) == [i \in 1..(Width - Len(bytes)) |-> 0] \o bytes
_hex_to_bytes32(bytes) ==
  IF Len(bytes) > Width THEN SubSeq(bytes, Len(bytes) - Width + 1, Len(bytes))
  ELSE Padded(bytes)
_hex_to_bytes32_strict(bytes) ==
  IF Len(bytes) > Width THEN Invalid ELSE Padded(bytes)

-----------------------------------------------------------------------------
(* The builders. *)

\* DepositBuilder.
_build_deposit_ix(depositor, mint, commitment) ==
  [sighash |-> "deposit", args |-> commitment,
   accounts |-> << Meta(Wallet(depositor), TRUE, TRUE),
                   Meta(_derive_pdas(mint).vault, FALSE, TRUE),
                   Meta(_derive_pdas(mint).tree_state, FALSE, TRUE),
                   Meta(SYSTEM_PROGRAM_ID, FALSE, FALSE) >>]

\* The swap and claim services.
build_deposit_ix(token_mint, depositor, commitment_bytes32) ==
  [sighash |-> "deposit", args |-> commitment_bytes32,
   accounts |-> << Meta(Wallet(depositor), TRUE, TRUE),
                   Meta(_derive_pdas(token_mint).vault, FALSE, TRUE),
                   Meta(_derive_pdas(token_mint).tree_state, FALSE, TRUE),
                   Meta(SYSTEM_PROGRAM_ID, FALSE, FALSE) >>]

WithdrawArgs == << "bytes", "bytes32", "bytes32", "pubkey", "u64" >>

_build_withdraw_ix(mint, recipient, relayer, hash) ==
  [sighash |-> "withdraw", args |-> WithdrawArgs,
   accounts |-> << Meta(Wallet(relayer), TRUE, TRUE),
                   Meta(_derive_pdas(mint).vault, FALSE, TRUE),
                   Meta(_derive_pdas(mint).tree_state, FALSE, TRUE),
                   Meta(NullifierPda(hash), FALSE, TRUE),
                   Meta(Wallet(recipient), FALSE, TRUE),
                   Meta(SYSTEM_PROGRAM_ID, FALSE, FALSE) >>]

_build_withdraw_spl_ix(mint, recipient, relayer, hash) ==
  LET vault == _derive_pdas(mint).vault IN
    [sighash |-> "withdraw_spl", args |-> WithdrawArgs,
     accounts |-> << Meta(Wallet(relayer), TRUE, TRUE),
                     Meta(vault, FALSE, TRUE),
                     Meta(_derive_ata(vault, mint), FALSE, TRUE),
                     Meta(_derive_pdas(mint).tree_state, FALSE, TRUE),
                     Meta(NullifierPda(hash), FALSE, TRUE),
                     Meta(Wallet(recipient), FALSE, FALSE),
                     Meta(_derive_ata(Wallet(recipient), mint), FALSE, TRUE),
                     Meta(SPL_TOKEN_PROGRAM_ID, FALSE, FALSE),
                     Meta(SYSTEM_PROGRAM_ID, FALSE, FALSE) >>]

_build_withdraw_ix_for_pool(mint, recipient, relayer, hash) ==
  IF mint = SystemProgram THEN _build_withdraw_ix(mint, recipient, relayer, hash)
  ELSE _build_withdraw_spl_ix(mint, recipient, relayer, hash)

-----------------------------------------------------------------------------
(* The program's side: the accounts of each instruction, for the pool of m. *)

Signers == {Wallet(w) : w \in Wallets}
Account(keys) == [keys |-> keys, signer |-> FALSE, mut |-> FALSE]
Mut(keys) == [keys |-> keys, signer |-> FALSE, mut |-> TRUE]
Payer == [keys |-> Signers, signer |-> TRUE, mut |-> TRUE]
VaultPda(m) == <<"vault", m>>
TreeStatePda(m) == <<"merkle_tree", m>>
\* An optional account has its place in the list: Anchor 0.29, built here without
\* allow-missing-optionals, wants a key there: the program's own for None, any
\* other for Some, for which one stands.
VerifierProgram == Account({<<"bagsvault">>, <<"sunspot">>})
TokenAccounts(owners, m) == {<<"ata", o, m>> : o \in owners}

\* deposit is the alias of deposit_sol, withdraw that of withdraw_sol; their
\* constraint on the mint is that of Accepts.
DepositSol(m) == << Payer, Mut({VaultPda(m)}), Mut({TreeStatePda(m)}),
                    Account({SYSTEM_PROGRAM_ID}) >>

Withdraw(m, recipient, hash) ==
  << Payer, Mut({VaultPda(m)}), Mut({TreeStatePda(m)}), Mut({NullifierPda(hash)}),
     Mut({Wallet(recipient)}), Account({SYSTEM_PROGRAM_ID}), VerifierProgram >>

WithdrawSpl(m, recipient, hash) ==
  << Payer, Mut(TokenAccounts(Signers, m)), Mut({VaultPda(m)}),
     Mut(TokenAccounts({VaultPda(m)}, m)), Mut({TreeStatePda(m)}),
     Mut({NullifierPda(hash)}), Account({Wallet(recipient)}),
     Mut(TokenAccounts({Wallet(recipient)}, m)), Account({SPL_TOKEN_PROGRAM_ID}),
     Account({SYSTEM_PROGRAM_ID}), VerifierProgram >>

\* The accounts given begin with those declared; any more are left to the handler,
\* which looks at none.
Fits(given, declared) ==
  /\ Len(given) >= Len(declared)
  /\ \A i \in DOMAIN declared :
       /\ given[i].key \in declared[i].keys
       /\ declared[i].signer => given[i].signer
       /\ declared[i].mut => given[i].writable

\* The pool of m takes the instruction, as far as accounts and arguments go.
AcceptsDeposit(ix, m) ==
  /\ ix.sighash = "deposit" /\ m = SystemProgram
  /\ Len(ix.args) = Width /\ Fits(ix.accounts, DepositSol(m))

AcceptsWithdraw(ix, m, recipient, hash) ==
  /\ ix.args = WithdrawArgs
  /\ \/ /\ ix.sighash = "withdraw" /\ m = SystemProgram
        /\ Fits(ix.accounts, Withdraw(m, recipient, hash))
     \/ /\ ix.sighash = "withdraw_spl" /\ m # SystemProgram
        /\ Fits(ix.accounts, WithdrawSpl(m, recipient, hash))
=============================================================================
