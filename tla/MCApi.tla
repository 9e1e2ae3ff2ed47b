------------------------------- MODULE MCApi -------------------------------
(* The API with a few requests for TLC: every route, with and without a key, *)
(* for the pool of SOL and for another, and bodies that two routes accept.   *)
EXTENDS Api, TLC

CONSTANTS alice, bob, token, k1

Scan(k) == [route |-> "scan", key |-> k, body |-> [wallet |-> alice]]
Body(t, hex) == [wallet |-> alice, token |-> t, commitment |-> hex]
MCCalls ==
  { Scan(NoKey),
    [route |-> "claim-fees", key |-> k1, body |-> Body(token, <<7>>)],
    [route |-> "swap-quote", key |-> NoKey, body |-> Body(token, <<7>>)],
    [route |-> "claim-to-deposit", key |-> k1, body |-> Body(token, <<7>>)],
    [route |-> "build", key |-> NoKey, body |-> Body("SOL", <<7, 8, 9>>)],
    [route |-> "swap-to-deposit", key |-> NoKey, body |-> Body(SystemProgram, <<7>>)],
    [route |-> "relay", key |-> k1, body |-> Body("SOL", <<7, 8>>)],
    [route |-> "relay", key |-> NoKey, body |-> Body("VAULT", <<7, 8>>)],
    [route |-> "register", key |-> NoKey, body |-> [wallet |-> alice, token |-> token]],
    [route |-> "register", key |-> k1, body |-> [wallet |-> bob, token |-> token]] }

AnyOrder == Permutations(Requests)
=============================================================================
