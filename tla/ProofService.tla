---------------------------- MODULE ProofService ----------------------------
(***************************************************************************)
(* The proof service of the backend (zk_proof_service.py, proofs.py):      *)
(* commitments for deposits and proofs for withdrawals, made from the tree *)
(* and the paths of ServedPath.  A request shares no state with others:    *)
(* the tools run in a directory of its own.                                *)
(*                                                                         *)
(* A note is named by its Poseidon commitment, as the leaves of the tree   *)
(* are; a proof is named by the public inputs it is for.                   *)
(***************************************************************************)
EXTENDS ServedPath

CONSTANTS
  FieldModulus,  \* BN254_R
  Pubkeys        \* keys, each the number that its 32 bytes are

ASSUME KeysAssumption == FieldModulus \in Nat \ {0} /\ Pubkeys \subseteq Nat

\* Where a request runs: whether a Poseidon library was found (which of the two
\* makes no difference), ZK_PROOF_STUB_MODE, nargo and bb on the PATH, and the
\* directory of the circuit.
Environments ==
  [backend : {"poseidon", "fallback"},
   stub_mode : BOOLEAN, toolchain : BOOLEAN, circuit_dir : BOOLEAN]

\* PoseidonHasher.hash: without a Poseidon library it is SHA-256.
hash(env, left, right) ==
  IF env.backend = "fallback" THEN <<"sha256", left, right>> ELSE Hash(left, right)
commitment(env, note) == IF env.backend = "fallback" THEN <<"sha256", note>> ELSE note

\* A public key in a request is hex or base58, or neither.
Forms == {"hex", "base58", "other"}
_hex_to_pubkey_bytes(text) == IF text.form = "other" THEN {} ELSE {text.pubkey}

\* The bytes are reduced to a field element.
_bytes_to_field(pubkey) == pubkey % FieldModulus

\* Mutant: is_left is taken for the side of the sibling.
RootFromMirroredPath(env, leaf, path, is_left) ==
  LET current[l \in 0..Depth] ==
        IF l = 0 THEN leaf
        ELSE IF is_left[l - 1] THEN hash(env, path[l - 1], current[l - 1])
        ELSE hash(env, current[l - 1], path[l - 1])
  IN current[Depth]

merkle_root_from_path(env, leaf, path, is_left) ==
  LET current[l \in 0..Depth] ==
        IF l = 0 THEN leaf
        ELSE IF is_left[l - 1] THEN hash(env, current[l - 1], path[l - 1])
        ELSE hash(env, path[l - 1], current[l - 1])
  IN current[Depth]

\* The order of the public inputs, with the keys as they were made fields.
PublicInputs(root, nullifier_hash, recipient, relayer, w) ==
  <<root, nullifier_hash, recipient, w.amount, relayer, w.fee_bps>>

PROOF_BYTE_LEN == 256

\* nargo and bb: a witness that breaks a constraint of the circuit gives no
\* proof; another one does, if they work, of the right length or not.
_run_toolchain(payload, inputs) ==
  IF /\ CircuitAccepts(inputs[1], payload.note, payload.path, payload.is_left)
     /\ inputs[2] = Hash(payload.note, payload.leaf_index)
  THEN [of : {inputs}, bytes : {PROOF_BYTE_LEN, 0}]
  ELSE {}

\* What can come back as the proof; nothing when the request fails.
_produce_proof_bytes(env, payload, inputs) ==
  IF env.stub_mode \/ ~env.toolchain THEN {[of |-> << >>, bytes |-> PROOF_BYTE_LEN]}
  ELSE IF ~env.circuit_dir THEN {}
  ELSE {proof \in _run_toolchain(payload, inputs) : proof.bytes = PROOF_BYTE_LEN}

\* The responses to a payload.
generate_withdraw_proof(env, payload) ==
  LET leaf == commitment(env, payload.note)
      inputs == PublicInputs(merkle_root_from_path(env, leaf, payload.path, payload.is_left),
                             hash(env, payload.note, payload.leaf_index),
                             _bytes_to_field(payload.recipient),
                             _bytes_to_field(payload.relayer), payload)
  IN {[public_inputs |-> inputs, proof |-> proof] :
        proof \in _produce_proof_bytes(env, payload, inputs)}

\* The route: the responses to a request, none if a key of it cannot be read.
respond(env, request) ==
  UNION {generate_withdraw_proof(env, [request EXCEPT !.recipient = recipient,
                                                      !.relayer = relayer]) :
           recipient \in _hex_to_pubkey_bytes(request.recipient),
           relayer \in _hex_to_pubkey_bytes(request.relayer)}

\* What the program makes of a key: its bytes, as they are.
pubkey_to_field(pubkey) == pubkey

\* The verifier: it refuses an input that is not below the modulus, and the
\* placeholder of a stub is nobody's proof.
verify_withdraw_proof(proof, inputs) ==
  /\ inputs[3] < FieldModulus /\ inputs[5] < FieldModulus
  /\ proof.bytes = PROOF_BYTE_LEN /\ proof.of = inputs

\* The program pays on a response: it is given the root and the nullifier hash
\* of the response, has the terms w of the withdrawal, and knows the root.
Pays(response, w) ==
  /\ \E j \in Slots : roots[j] = response.public_inputs[1]
  /\ verify_withdraw_proof(response.proof,
       PublicInputs(response.public_inputs[1], response.public_inputs[2],
                    pubkey_to_field(w.recipient), pubkey_to_field(w.relayer), w))

-----------------------------------------------------------------------------

\* The notes somebody can open: no preimage of zero is known.
Notes == Commitments \ {ZeroLeaf}

Terms == [recipient : Pubkeys, relayer : Pubkeys, amount : {1}, fee_bps : {0}]

\* A request to withdraw a note as leaf i of the newest tree on terms `asked`.
Request(note, i, form, asked) ==
  [note |-> note, leaf_index |-> i, path |-> MerklePath(inserted, i),
   is_left |-> [l \in Levels |-> IsLeft(i, l)],
   recipient |-> [form |-> form, pubkey |-> asked.recipient],
   relayer |-> [form |-> "base58", pubkey |-> asked.relayer],
   amount |-> asked.amount, fee_bps |-> asked.fee_bps]

\* The keys of a withdrawal that a proof made for the terms `asked` is good for.
\* No proof is good for a key that is not below the modulus.
KeysMatch(asked, w) ==
  w.recipient = asked.recipient % FieldModulus /\ w.relayer = asked.relayer % FieldModulus

(* The service gives a proof that pays a withdrawal for the note a leaf is   *)
(* made of, and for no other note, exactly when a Poseidon library and the   *)
(* tools are there and the keys can be read, in whichever form, and are      *)
(* those of the withdrawal, reduced: who asks for a key that is not below    *)
(* the modulus gets a proof for another one.  Proofs made from the SHA-256   *)
(* fallback, and stub proofs, never pay.                                     *)
ProofsPay ==
  commitment_count > 0 =>
    \A env \in Environments, i \in 0..commitment_count - 1, note \in Notes,
       form \in Forms, asked \in Terms, w \in Terms :
      (\E response \in respond(env, Request(note, i, form, asked)) : Pays(response, w))
      <=> /\ note = inserted[i + 1] /\ form # "other" /\ KeysMatch(asked, w)
          /\ env.backend # "fallback" /\ ~env.stub_mode /\ env.toolchain /\ env.circuit_dir
=============================================================================
