------------------------------ MODULE MCStores ------------------------------
(* What the signet keeps for itself, checked for safety in one run: the      *)
(* replay buffer of a credential, the key store with its root secret, the    *)
(* key ring behind the biometric gate, the wallets, and the verifier with    *)
(* its limiter.  They share no state, so a behaviour belongs to one part,    *)
(* chosen at the start, and only that part takes steps.                      *)
EXTENDS ReplayBuffer, KeyStore, KeyRing, Wallets, Verifier, TLC

VARIABLE part

\* Callers, identities and wallets are only compared.
StoresSymmetry == Permutations(KeyCallers) \union Permutations(Identities)

\* A part that was not chosen stays in one of its initial states.
StoresInit ==
    /\ part \in {"buffer", "secrets", "ring", "wallets", "verifier"}
    /\ Init
    /\ KeysInit /\ (part # "secrets" => secretFile = None /\ \A n \in Names : legacy[n] = None)
    /\ RingInit /\ (part # "ring" => ~enclave /\ gating = {})
    /\ WalletsInit /\ VerifierInit

StoresNext ==
    /\ UNCHANGED part
    /\ \/ part = "buffer" /\ UNCHANGED <<keyVars, ringVars, walletVars, verifierVars>> /\ Next
       \/ part = "secrets" /\ UNCHANGED <<vars, ringVars, walletVars, verifierVars>> /\ KeysNext
       \/ part = "ring" /\ UNCHANGED <<vars, keyVars, walletVars, verifierVars>> /\ RingNext
       \/ part = "wallets" /\ UNCHANGED <<vars, keyVars, ringVars, verifierVars>> /\ WalletsNext
       \/ part = "verifier" /\ UNCHANGED <<vars, keyVars, ringVars, walletVars>> /\ VerifierNext

StoresSpec == StoresInit /\ [][StoresNext]_<<part, vars, keyVars, ringVars, walletVars, verifierVars>>

=============================================================================
