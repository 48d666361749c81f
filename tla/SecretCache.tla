----------------------------- MODULE SecretCache -----------------------------
(***************************************************************************)
(* KeyVaultSecretProvider as the Shopify side uses it: the connection's    *)
(* webhook secret, which is also the client secret of its token exchanges, *)
(* held by the process for Ttl ticks.  A user that finds no fresh entry    *)
(* asks Key Vault, whoever else is asking already.                         *)
(***************************************************************************)
EXTENDS Naturals

CONSTANTS
    SecretUsers,      \* requests that read the secret
    Ttl,              \* DEFAULT_TTL_MS in ticks of the clock
    Versions          \* bound: versions of the secret

ASSUME SecretAssumption == Ttl \in Nat \ {0} /\ Versions \in Nat \ {0}

VARIABLES
    vault,            \* the version of the secret in Shopify and in Key Vault
    cache,            \* the cached version, 0 when there is none
    fresh,            \* how many ticks the cached version is still served
    fetched           \* the version each user was given, 0 before and after

secrets == <<vault, cache, fresh, fetched>>

SecretTypeOK ==
    /\ vault \in 1..Versions
    /\ cache \in 0..Versions
    /\ fresh \in 0..Ttl
    /\ fetched \in [SecretUsers -> 0..Versions]

SecretInit == vault = 1 /\ cache = 0 /\ fresh = 0 /\ fetched = [u \in SecretUsers |-> 0]

Served == cache # 0 /\ fresh > 0

(* getSecret with a fresh entry.                                           *)
UseCached(u) ==
    /\ Served
    /\ fetched' = [fetched EXCEPT ![u] = cache]
    /\ UNCHANGED <<vault, cache, fresh>>

(* Key Vault answers, and later the answer arrives and is cached.          *)
VaultAnswers(u) ==
    /\ fetched[u] = 0
    /\ fetched' = [fetched EXCEPT ![u] = vault]
    /\ UNCHANGED <<vault, cache, fresh>>

CacheAnswer(u) ==
    /\ fetched[u] # 0
    /\ cache' = fetched[u]
    /\ fresh' = Ttl
    /\ UNCHANGED <<vault, fetched>>

Forget(u) == fetched' = [fetched EXCEPT ![u] = 0] /\ UNCHANGED <<vault, cache, fresh>>

(* The operator rotates the secret in Shopify and in Key Vault.            *)
RotateSecret == vault < Versions /\ vault' = vault + 1 /\ UNCHANGED <<cache, fresh, fetched>>

(* Fault: an entry is served for ever.                                     *)
AgeSecretNever == UNCHANGED secrets

AgeSecret == fresh' = (IF fresh > 0 THEN fresh - 1 ELSE 0) /\ UNCHANGED <<vault, cache, fetched>>

(* A new process has read nothing.                                         *)
LoseSecrets == cache' = 0 /\ fresh' = 0 /\ fetched' = [u \in SecretUsers |-> 0] /\ UNCHANGED vault

=============================================================================
