------------------------------- MODULE Wallets -------------------------------
(***************************************************************************)
(* Wallets, their accounts and API keys: the internal key backend          *)
(* (packages/keys/src/key-manager.ts) over the wallet and key files of the *)
(* vault (vault.ts), and keys.init (key-actions.ts), which binds a wallet  *)
(* to an operator.  An account is its index and the derivation that made   *)
(* it; a mnemonic is its wallet.  Files survive a restart, the backend's   *)
(* walletStates do not.                                                    *)
(***************************************************************************)
EXTENDS Integers, Sequences, FiniteSets, FiniteSetsExt

CONSTANTS
    WalletCallers,  \* calls under way at once
    WalletIds,      \* wallets that may be created
    ApiKeys,        \* ids of API keys
    MaxWalletOps,   \* bound on the calls begun
    MaxWalletStops  \* bound on restarts

ASSUME WalletBounds == MaxWalletOps \in Nat /\ MaxWalletStops \in Nat

VARIABLES
    walletFile,   \* [WalletIds -> the file: [there, accounts]]
    walletState,  \* [WalletIds -> [there, next, accounts]] in memory
    apiFile,      \* [ApiKeys -> the wallet whose mnemonic it holds, or NoFile]
    bound,        \* the operator's config.walletId, or NoFile
    walletCall,   \* [WalletCallers -> the call under way]
    walletOps, walletStops,
    derived,      \* history: indices handed out, per wallet
    contested,    \* history: wallets with overlapping calls
    signedBy,     \* history: API keys that signed, with whether they were revoked
    used          \* history: wallet and key ids ever used

walletVars == <<walletFile, walletState, apiFile, bound, walletCall, walletOps, walletStops,
                derived, contested, signedBy, used>>

NoFile     == "none"

ASSUME WalletNames == NoFile \notin WalletIds

WalletIdle == [at |-> "idle", op |-> "none", wallet |-> NoFile, key |-> NoFile,
               index |-> 0, accounts |-> <<>>]
Absent     == [there |-> FALSE, next |-> 0, accounts |-> <<>>]
Holds(n, accounts) == [there |-> TRUE, next |-> n, accounts |-> accounts]

WalletsInit ==
    /\ walletFile = [w \in WalletIds |-> Absent]
    /\ walletState = [w \in WalletIds |-> Absent]
    /\ apiFile = [a \in ApiKeys |-> NoFile]
    /\ bound = NoFile
    /\ walletCall = [c \in WalletCallers |-> WalletIdle]
    /\ walletOps = 0 /\ walletStops = 0
    /\ derived = {} /\ contested = {} /\ signedBy = {} /\ used = {}

Put(c, r)   == walletCall' = [walletCall EXCEPT ![c] = r]
At(c, step) == walletCall[c].at = step
Loaded(w)   == walletState[w].there
OnDisk(w)   == walletFile[w].there

Contested(w) == ({w} \intersect {walletCall[d].wallet : d \in WalletCallers}) \ {NoFile}

\* A call begins on wallet w; it is contested when another one is under way.
BeginWallet(c, op, at, w, a) ==
    /\ walletCall[c] = WalletIdle /\ walletOps < MaxWalletOps
    /\ Put(c, [WalletIdle EXCEPT !.at = at, !.op = op, !.wallet = w, !.key = a])
    /\ walletOps' = walletOps + 1
    /\ contested' = contested \union Contested(w)

-----------------------------------------------------------------------------
(* Wallets.                                                                 *)

\* createWallet (wallet.create, and keys.init without a wallet).
CreateWallet(c, w, op) ==
    /\ w \notin used
    /\ BeginWallet(c, op, "newfile", w, NoFile)
    /\ used' = used \union {w}
    /\ UNCHANGED <<walletFile, walletState, apiFile, bound, walletStops, derived, signedBy>>

WalletWritten(c) ==
    /\ At(c, "newfile")
    /\ LET w == walletCall[c].wallet IN
       /\ walletFile' = [walletFile EXCEPT ![w] = Holds(0, <<>>)]
       /\ walletState' = [walletState EXCEPT ![w] = Holds(0, <<>>)]
    /\ Put(c, IF walletCall[c].op = "init" THEN [walletCall[c] EXCEPT !.at = "bind"]
              ELSE WalletIdle)
    /\ UNCHANGED <<apiFile, bound, walletOps, walletStops, derived, contested, signedBy, used>>

\* keys.init with a wallet: getWallet, then operatorManager.update if it differs.
InitExisting(c, w) ==
    /\ OnDisk(w)
    /\ BeginWallet(c, "init", "bind", w, NoFile)
    /\ UNCHANGED <<walletFile, walletState, apiFile, bound, walletStops, derived, signedBy, used>>

BindWallet(c) ==
    /\ At(c, "bind")
    /\ bound' = walletCall[c].wallet
    /\ Put(c, WalletIdle)
    /\ UNCHANGED <<walletFile, walletState, apiFile, walletOps, walletStops, derived, contested,
                   signedBy, used>>

\* deleteWallet: the file goes at once, the state after the await.
DeleteWallet(c, w) ==
    /\ OnDisk(w)
    /\ BeginWallet(c, "delete", "deleted", w, NoFile)
    /\ walletFile' = [walletFile EXCEPT ![w] = Absent]
    /\ UNCHANGED <<walletState, apiFile, bound, walletStops, derived, signedBy, used>>

ForgetWallet(c) ==
    /\ At(c, "deleted")
    /\ walletState' = [walletState EXCEPT ![walletCall[c].wallet] = Absent]
    /\ Put(c, WalletIdle)
    /\ UNCHANGED <<walletFile, apiFile, bound, walletOps, walletStops, derived, contested,
                   signedBy, used>>

-----------------------------------------------------------------------------
(* Accounts.                                                                *)

\* ensureWalletState reads the mnemonic first (a missing file ends the call), then
\* the accounts if they are not in memory.
Ensure(c, op, w) ==
    /\ OnDisk(w)
    /\ BeginWallet(c, op, IF Loaded(w) THEN "ensured" ELSE "load", w, NoFile)
    /\ UNCHANGED <<walletFile, walletState, apiFile, bound, walletStops, derived, signedBy, used>>

\* Mutant of NextIndex: the largest index itself.
NextIndexMax(accounts) == Max({-1} \union {accounts[i] : i \in DOMAIN accounts})

\* nextIndex: one more than the largest index on file.
NextIndex(accounts) == Max({-1} \union {accounts[i] : i \in DOMAIN accounts}) + 1

Load(c) ==
    /\ At(c, "load")
    /\ LET w == walletCall[c].wallet IN
       IF ~OnDisk(w) THEN Put(c, WalletIdle) /\ UNCHANGED walletState
       ELSE /\ walletState' = [walletState EXCEPT ![w] =
                   Holds(NextIndex(walletFile[w].accounts), walletFile[w].accounts)]
            /\ Put(c, [walletCall[c] EXCEPT !.at = "ensured"])
    /\ UNCHANGED <<walletFile, apiFile, bound, walletOps, walletStops, derived, contested,
                   signedBy, used>>

\* listAccounts and getXmtpIdentityKey end here; deriveAccount computes the new
\* list from the state it holds and waits for the file.
Ensured(c) ==
    /\ At(c, "ensured")
    /\ LET w == walletCall[c].wallet IN
       IF walletCall[c].op = "list" \/ ~Loaded(w) THEN Put(c, WalletIdle)
       ELSE Put(c, [walletCall[c] EXCEPT !.at = "update", !.index = walletState[w].next,
                        !.accounts = Append(walletState[w].accounts, walletState[w].next)])
    /\ UNCHANGED <<walletFile, walletState, apiFile, bound, walletOps, walletStops, derived,
                   contested, signedBy, used>>

\* updateWalletAccounts fails on a wallet that is gone.
UpdateAccounts(c) ==
    /\ At(c, "update")
    /\ LET r == walletCall[c] IN
       IF ~OnDisk(r.wallet) THEN Put(c, WalletIdle) /\ UNCHANGED walletFile
       ELSE /\ walletFile' = [walletFile EXCEPT ![r.wallet] = Holds(0, r.accounts)]
            /\ Put(c, [r EXCEPT !.at = "updated"])
    /\ UNCHANGED <<walletState, apiFile, bound, walletOps, walletStops, derived, contested,
                   signedBy, used>>

Derived(c) ==
    /\ At(c, "updated")
    /\ LET r == walletCall[c] IN
       /\ walletState' = IF ~Loaded(r.wallet) THEN walletState
                         ELSE [walletState EXCEPT ![r.wallet] =
                                   Holds(r.index + 1, r.accounts)]
       /\ derived' = derived \union {[wallet |-> r.wallet, index |-> r.index,
                                      fresh |-> [wallet |-> r.wallet, index |-> r.index]
                                          \notin {[wallet |-> d.wallet, index |-> d.index] :
                                                      d \in derived}]}
    /\ Put(c, WalletIdle)
    /\ UNCHANGED <<walletFile, apiFile, bound, walletOps, walletStops, contested, signedBy, used>>

-----------------------------------------------------------------------------
(* API keys.                                                                *)

\* createApiKey reads the mnemonic and writes a copy of it under the token.
CreateApiKey(c, a, w) ==
    /\ OnDisk(w) /\ a \notin used
    /\ BeginWallet(c, "apicreate", "keyfile", w, a)
    /\ used' = used \union {a}
    /\ UNCHANGED <<walletFile, walletState, apiFile, bound, walletStops, derived, signedBy>>

ApiKeyWritten(c) ==
    /\ At(c, "keyfile")
    /\ apiFile' = [apiFile EXCEPT ![walletCall[c].key] = walletCall[c].wallet]
    /\ Put(c, WalletIdle)
    /\ UNCHANGED <<walletFile, walletState, bound, walletOps, walletStops, derived, contested,
                   signedBy, used>>

\* revokeApiKey unlinks the file; a signature that has read it goes on.
Revoke(a) ==
    /\ apiFile[a] # NoFile /\ walletOps < MaxWalletOps
    /\ apiFile' = [apiFile EXCEPT ![a] = NoFile]
    /\ walletOps' = walletOps + 1
    /\ UNCHANGED <<walletFile, walletState, bound, walletCall, walletStops, derived, contested,
                   signedBy, used>>

\* signWithApiKey scans the files for one its token decrypts (expiresAt is not
\* read), then needs the account in walletStates, where only the other calls
\* put it.
ReadApiKey(c, a) ==
    /\ a \in used
    /\ BeginWallet(c, "apisign", "scan", NoFile, a)
    /\ UNCHANGED <<walletFile, walletState, apiFile, bound, walletStops, derived, signedBy, used>>

\* The state of the wallet is looked at when the file has been read.
ScanApiKeys(c) ==
    /\ At(c, "scan")
    /\ LET a == walletCall[c].key  w == apiFile[a] IN
       IF w = NoFile THEN Put(c, WalletIdle) /\ UNCHANGED contested
       ELSE /\ Put(c, [walletCall[c] EXCEPT !.at = "chain", !.wallet = w])
            /\ contested' = contested \union Contested(w)
    /\ UNCHANGED <<walletFile, walletState, apiFile, bound, walletOps, walletStops, derived,
                   signedBy, used>>

\* chainAt: an account of the wallet is in memory.
ChainKnown(w) == Loaded(w) /\ walletState[w].accounts # <<>>

ApiSign(c) ==
    /\ At(c, "chain")
    /\ LET w == walletCall[c].wallet IN
       signedBy' = IF ChainKnown(w)
                   THEN signedBy \union {[wallet |-> w, gone |-> ~OnDisk(w)]}
                   ELSE signedBy
    /\ Put(c, WalletIdle)
    /\ UNCHANGED <<walletFile, walletState, apiFile, bound, walletOps, walletStops, derived,
                   contested, used>>

RestartWallets ==
    /\ walletStops < MaxWalletStops
    /\ walletStops' = walletStops + 1
    /\ walletState' = [w \in WalletIds |-> Absent]
    /\ walletCall' = [c \in WalletCallers |-> WalletIdle]
    /\ UNCHANGED <<walletFile, apiFile, bound, walletOps, derived, contested, signedBy, used>>

WalletsNext ==
    \/ \E c \in WalletCallers, w \in WalletIds :
           \/ \E op \in {"create", "init"} : CreateWallet(c, w, op)
           \/ InitExisting(c, w) \/ DeleteWallet(c, w)
           \/ \E op \in {"derive", "list"} : Ensure(c, op, w)
           \/ \E a \in ApiKeys : CreateApiKey(c, a, w)
    \/ \E c \in WalletCallers :
           \/ WalletWritten(c) \/ BindWallet(c) \/ ForgetWallet(c) \/ Load(c) \/ Ensured(c)
           \/ UpdateAccounts(c) \/ Derived(c) \/ ApiKeyWritten(c) \/ ScanApiKeys(c) \/ ApiSign(c)
           \/ \E a \in ApiKeys : ReadApiKey(c, a)
    \/ \E a \in ApiKeys : Revoke(a)
    \/ RestartWallets

WalletsSpec == WalletsInit /\ [][WalletsNext]_walletVars

-----------------------------------------------------------------------------

\* Derivation hands out every index of a wallet once, also after a restart that
\* reads the accounts back, and loses none of them from the file, unless two
\* calls on the wallet overlapped (deriveAccount takes nextIndex before it waits
\* for the file and stores it afterwards).
AccountsDistinct ==
    \A d \in derived :
        \/ d.wallet \in contested \/ ~OnDisk(d.wallet)
        \/ d.fresh /\ \E i \in DOMAIN walletFile[d.wallet].accounts :
                         walletFile[d.wallet].accounts[i] = d.index

\* A wallet that is gone signs nothing more, although API keys keep a copy of its
\* mnemonic, and an operator is only bound to a wallet that existed (calls that
\* overlap the deletion excepted).
DeletedWalletIsDead ==
    /\ \A s \in signedBy : s.gone => s.wallet \in contested
    /\ bound # NoFile => bound \in used

\* What derivation hands out and what deletion ends, across restarts and calls
\* of two callers (key-manager.ts, vault.ts).
WalletsSound == AccountsDistinct /\ DeletedWalletIsDead
=============================================================================
