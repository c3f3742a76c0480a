------------------------------ MODULE MCRouterEnv ------------------------------
(* RouterEnv for TLC: one name per product that is typed on its page, and a *)
(* router whose older configuration sets JWT_SECRET.                        *)
EXTENDS RouterEnv, TLC

Typable == {"COAI_ADMIN_KEY", "GATEWAY_API_KEY_HASH_SECRET", "LITELLM_SALT_KEY", "ENCRYPTION_KEY",
            "BIFROST_SECRET_KEY", "SESSION_SECRET", "PORTKEY_GATEWAY_SECRET"}
OldConfig == [JWT_SECRET |-> Typed("long", "creator")]

Symmetry == Permutations(Op) \union Permutations(Tab)
=============================================================================
