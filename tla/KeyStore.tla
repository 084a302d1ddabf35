------------------------------ MODULE KeyStore ------------------------------
(***************************************************************************)
(* Secrets on disk: the vault secret and its providers                     *)
(* (packages/keys/src/vault-secret-provider.ts), the encrypted entries of  *)
(* the file vault (vault.ts), and over them the compat store with its      *)
(* migration of the legacy kv directory, the database keys and the admin   *)
(* key pair of key-manager-compat.ts.                                      *)
(*                                                                         *)
(* One process has the data directory open at a time.  It may crash in any *)
(* state; files stay, and a write under way leaves the old file or a torn  *)
(* one.  A value is the number of its generation; encryption is the secret *)
(* an entry was written under.                                             *)
(***************************************************************************)
EXTENDS Integers, FiniteSets

CONSTANTS
    KeyCallers,     \* calls the process may have under way at once
    MaxKeyOps,      \* bound on the calls begun
    MaxKeyCrashes   \* bound on the crashes and failed openings

ASSUME KeyStoreBounds == MaxKeyOps \in Nat /\ MaxKeyCrashes \in Nat

Boot  == "boot"             \* the caller that initializes and creates the admin key
Names == {"db", "secret", "priv", "pub"}
Calls == KeyCallers \union {Boot}

ASSUME BootCaller == Boot \notin KeyCallers

None == 0   \* no file
Torn == -1  \* a file whose write was cut off

VARIABLES
    secretFile, \* vault-passphrase (or the raw vault.key)
    keyRef,     \* se-vault-keyref and se-vault-pubkey: "none", "ref" or "both"
    sealedBox,  \* vault-sealed-box.json
    proc,       \* [at, kind, cached]: the process and its secret provider
    entry,      \* [Names -> [val, under]] secrets/<name>.bin
    legacy,     \* [Names -> value] kv/<name>
    mem,        \* adminPublicKeyHex and adminPrivateKey
    call,       \* [Calls -> the call under way]
    fresh,      \* generations so far
    keyOps, keyCrashes,
    acked,      \* history: [Names -> last acknowledged value]
    excused,    \* history: names with overlapping calls or a failed unlink
    answers     \* history: what reads returned, and what was acknowledged

keyVars == <<secretFile, keyRef, sealedBox, proc, entry, legacy, mem, call, fresh,
             keyOps, keyCrashes, acked, excused, answers>>
secretVars  == <<secretFile, keyRef, sealedBox>>
historyVars == <<acked, excused, answers>>

NoEntry  == [val |-> None, under |-> None]
NoCall   == [at |-> "idle", op |-> "none", name |-> "none", val |-> None]
Down     == [at |-> "down", kind |-> "none", cached |-> None]
NoMem    == [pub |-> None, priv |-> None]

\* A fresh directory, one with the legacy kv of an older release, or one
\* that already holds a software secret.
KeysInit ==
    /\ secretFile \in {None, 1} /\ keyRef = "none" /\ sealedBox = None
    /\ proc = Down
    /\ entry = [n \in Names |-> NoEntry]
    /\ legacy \in {[n \in Names |-> None], [n \in Names |-> 2]}
    /\ mem = NoMem
    /\ call = [c \in Calls |-> NoCall]
    /\ fresh = 3 /\ keyOps = 0 /\ keyCrashes = 0
    /\ acked = legacy /\ excused = {} /\ answers = {}

-----------------------------------------------------------------------------
(* Opening the vault.                                                       *)

HasArtifact == keyRef # "none" \/ sealedBox # None
Existing    == keyRef # "none" /\ sealedBox # None

\* resolveVaultSecretProvider: a secret on disk decides before the platform.
Providers ==
    IF secretFile # None THEN {"software"}
    ELSE IF HasArtifact /\ ~Existing THEN {}
    ELSE IF Existing THEN {"enclave"}
    ELSE {"software", "enclave"}

Opened(s) == proc' = [proc EXCEPT !.at = "init", !.cached = s]

\* createKeyManager, createVault, getSecret up to its first await.
Open(k) ==
    /\ proc.at = "down"
    /\ k \in Providers
    /\ proc' = [at |-> "resolve", kind |-> k, cached |-> None]
    /\ UNCHANGED <<secretVars, entry, legacy, mem, call, fresh, keyOps, keyCrashes,
                   historyVars>>

\* A secret that is there is read; a torn one is refused (normalizeVaultSecret,
\* JSON.parse, or the enclave) and the process gives up.
ReadSecret ==
    /\ proc.at = "resolve"
    /\ LET s == IF proc.kind = "software" THEN secretFile ELSE sealedBox IN
       /\ s # None
       /\ \/ s # Torn /\ Opened(s)
          \/ (s = Torn \/ proc.kind = "enclave") /\ proc' = Down
    /\ UNCHANGED <<secretVars, entry, legacy, mem, call, fresh, keyOps, keyCrashes,
                   historyVars>>

\* Mutant of NewSecret: the secret is used before its file is written.
NewSecretUnwritten ==
    /\ proc.at = "resolve"
    /\ IF proc.kind = "software" THEN secretFile = None ELSE sealedBox = None
    /\ Opened(fresh)
    /\ fresh' = fresh + 1
    /\ UNCHANGED <<secretVars, entry, legacy, mem, call, keyOps, keyCrashes, historyVars>>

\* First run: the software provider caches the secret it is about to write.
NewSecret ==
    /\ proc.at = "resolve"
    /\ IF proc.kind = "software" THEN secretFile = None ELSE sealedBox = None
    /\ proc' = [proc EXCEPT !.at = "write", !.cached = fresh]
    /\ fresh' = fresh + 1
    /\ UNCHANGED <<secretVars, entry, legacy, mem, call, keyOps, keyCrashes, historyVars>>

\* The software secret is one file; the enclave's are the key reference, the
\* public key and the sealed box, in this order.
WriteSecret ==
    /\ proc.at = "write"
    /\ \/ /\ proc.kind = "software"
          /\ secretFile' = proc.cached /\ Opened(proc.cached)
          /\ UNCHANGED <<keyRef, sealedBox>>
       \/ /\ proc.kind = "enclave" /\ keyRef # "both"
          /\ keyRef' = IF keyRef = "none" THEN "ref" ELSE "both"
          /\ UNCHANGED <<secretFile, sealedBox, proc>>
       \/ /\ proc.kind = "enclave" /\ keyRef = "both"
          /\ sealedBox' = proc.cached /\ Opened(proc.cached)
          /\ UNCHANGED <<secretFile, keyRef>>
    /\ UNCHANGED <<entry, legacy, mem, call, fresh, keyOps, keyCrashes, historyVars>>

\* seCreate or a write fails: createVault answers an error and the process ends.
SecretFails ==
    /\ proc.at = "write" /\ keyCrashes < MaxKeyCrashes
    /\ keyCrashes' = keyCrashes + 1
    /\ proc' = Down
    /\ UNCHANGED <<secretVars, entry, legacy, mem, call, fresh, keyOps, historyVars>>

-----------------------------------------------------------------------------
(* The vault and the compat store.  A call is suspended in the vault        *)
(* ("read", "write", "migrate") or between its answer and the next step.    *)

Set(c, r) == call' = [call EXCEPT ![c] = r]

\* What a new call on a name finds under way is excused from the promises of
\* ReadsLastWrite, and so is what it overlaps.
Overlaps(name) ==
    {name} \intersect {call[c].name : c \in {d \in Calls : call[d].at # "idle"}}

\* vault.get: the file is looked for at once and read later.
Look(name) == IF entry[name] = NoEntry THEN "legacy" ELSE "read"

\* vaultGet, vaultSet, vaultDelete and getOrCreateDbKey.
Begin(c, op, name) ==
    /\ proc.at = "ready" /\ keyOps < MaxKeyOps
    /\ call[c] = NoCall
    /\ Set(c, [at |-> CASE op = "set" -> "write" [] op = "delete" -> "unlink"
                        [] OTHER -> Look(name),
               op |-> op, name |-> name, val |-> IF op = "set" THEN fresh ELSE None])
    /\ fresh' = IF op = "set" THEN fresh + 1 ELSE fresh
    /\ keyOps' = keyOps + 1
    /\ excused' = excused \union Overlaps(name)
    /\ UNCHANGED <<secretVars, proc, entry, legacy, mem, keyCrashes, acked, answers>>

\* What the caller does with the answer of a read: v, None or Torn (an error).
Return(c, v) ==
    LET r == call[c] IN
    CASE r.op = "initpub" ->
           /\ mem' = [mem EXCEPT !.pub = IF v > 0 THEN v ELSE None]
           /\ Set(c, [at |-> Look("priv"), op |-> "initpriv", name |-> "priv",
                      val |-> None])
           /\ UNCHANGED <<proc, fresh, acked, answers>>
      [] r.op = "initpriv" ->
           /\ mem' = [mem EXCEPT !.priv = IF v > 0 THEN v ELSE None]
           /\ Set(c, NoCall) /\ proc' = [proc EXCEPT !.at = "ready"]
           /\ UNCHANGED <<fresh, acked, answers>>
      [] r.op = "dbkey" /\ v = None ->
           /\ Set(c, [r EXCEPT !.at = "write", !.val = fresh])
           /\ fresh' = fresh + 1
           /\ UNCHANGED <<proc, mem, acked, answers>>
      [] OTHER ->
           /\ Set(c, NoCall)
           /\ answers' = IF r.name \in excused \/ v = Torn
                            \/ (r.op = "dbkey" /\ acked["db"] = None) THEN answers
                         ELSE answers \union {<<r.name, v, acked[r.name]>>}
           /\ acked' = IF r.op = "dbkey" /\ v # Torn THEN [acked EXCEPT !["db"] = v] ELSE acked
           /\ UNCHANGED <<proc, mem, fresh>>

\* The file is read and decrypted; it may be torn, gone, or not readable now.
Read(c) ==
    /\ call[c].at = "read"
    /\ LET e == entry[call[c].name] IN
       \E v \in {Torn} \union (IF e.val > 0 /\ e.under = proc.cached THEN {e.val} ELSE {}) :
           /\ Return(c, v)
           /\ excused' = IF v = Torn /\ e.val > 0 /\ call[c].op = "initpub"
                         THEN excused \union {"pub"} ELSE excused
    /\ UNCHANGED <<secretVars, entry, legacy, keyOps, keyCrashes>>

\* The vault has no entry: a legacy value is written to the vault first.
ReadLegacy(c) ==
    /\ call[c].at = "legacy"
    /\ LET v == legacy[call[c].name] IN
       IF v = None THEN Return(c, None)
       ELSE /\ Set(c, [call[c] EXCEPT !.at = "migrate", !.val = v])
            /\ UNCHANGED <<proc, mem, fresh, acked, answers>>
    /\ UNCHANGED <<secretVars, entry, legacy, keyOps, keyCrashes, excused>>

\* vault.set: encrypted under the secret the vault was opened with.
VaultSet(c) ==
    /\ call[c].at \in {"write", "migrate"}
    /\ entry' = [entry EXCEPT ![call[c].name] =
                     [val |-> call[c].val, under |-> proc.cached]]
    /\ Set(c, [call[c] EXCEPT !.at = IF @ = "write" THEN "written" ELSE "migrated"])
    /\ UNCHANGED <<secretVars, proc, legacy, mem, fresh, keyOps, keyCrashes, historyVars>>

\* Mutant of RemoveLegacy: the legacy file is left behind.
RemoveLegacyNever(name) == legacy' = legacy /\ excused' = excused

\* removeLegacyKvEntry: an unlink that fails is ignored.
RemoveLegacy(name) ==
    \/ legacy' = [legacy EXCEPT ![name] = None] /\ excused' = excused
    \/ legacy[name] # None /\ legacy' = legacy /\ excused' = excused \union {name}

\* The write or migration is done: the legacy file goes, the caller is answered.
SetDone(c) ==
    /\ call[c].at \in {"written", "migrated"}
    /\ RemoveLegacy(call[c].name)
    /\ LET r == call[c] IN
       CASE r.at = "migrated" -> Return(c, r.val)
         [] r.op = "createpriv" ->
              /\ Set(c, [at |-> "write", op |-> "createpub", name |-> "pub", val |-> r.val])
              /\ acked' = [acked EXCEPT !["priv"] = r.val]
              /\ UNCHANGED <<proc, mem, fresh, answers>>
         [] OTHER ->
              /\ Set(c, NoCall)
              /\ acked' = [acked EXCEPT ![r.name] = r.val]
              /\ UNCHANGED <<proc, mem, fresh, answers>>
    /\ UNCHANGED <<secretVars, entry, keyOps, keyCrashes>>

\* vault.set fails before it writes: the error is the caller's answer, and the
\* admin key of a failed create stays in memory.
SetFails(c) ==
    /\ call[c].at \in {"write", "migrate"}
    /\ IF call[c].at = "migrate" THEN Return(c, Torn)
       ELSE Set(c, NoCall) /\ UNCHANGED <<proc, mem, fresh, acked, answers>>
    /\ excused' = IF call[c].op = "initpub" THEN excused \union {"pub"} ELSE excused
    /\ UNCHANGED <<secretVars, entry, legacy, keyOps, keyCrashes>>

\* vault.delete unlinks at once.
VaultDelete(c) ==
    /\ call[c].at = "unlink"
    /\ entry' = [entry EXCEPT ![call[c].name] = NoEntry]
    /\ Set(c, [call[c] EXCEPT !.at = "unlinked"])
    /\ UNCHANGED <<secretVars, proc, legacy, mem, fresh, keyOps, keyCrashes, historyVars>>

DeleteDone(c) ==
    /\ call[c].at = "unlinked"
    /\ RemoveLegacy(call[c].name)
    /\ Set(c, NoCall)
    /\ acked' = [acked EXCEPT ![call[c].name] = None]
    /\ UNCHANGED <<secretVars, proc, entry, mem, fresh, keyOps, keyCrashes, answers>>

-----------------------------------------------------------------------------
(* The admin key pair.                                                      *)

\* initialize, before anything else uses the key manager.
Initialize ==
    /\ proc.at = "init" /\ call[Boot] = NoCall
    /\ Set(Boot, [at |-> Look("pub"), op |-> "initpub", name |-> "pub", val |-> None])
    /\ UNCHANGED <<secretVars, proc, entry, legacy, mem, fresh, keyOps, keyCrashes,
                   historyVars>>

\* Mutant of CreateAdmin: an existing key does not stop it.
CreateAdminAnyway ==
    /\ proc.at = "ready" /\ call[Boot] = NoCall /\ keyOps < MaxKeyOps
    /\ mem' = [pub |-> fresh, priv |-> fresh]
    /\ Set(Boot, [at |-> "write", op |-> "createpriv", name |-> "priv", val |-> fresh])
    /\ fresh' = fresh + 1 /\ keyOps' = keyOps + 1
    /\ UNCHANGED <<secretVars, proc, entry, legacy, keyCrashes, historyVars>>

\* admin.create (xs init): approved by the gate, the pair is in memory before the
\* private and then the public key are stored.
CreateAdmin ==
    /\ proc.at = "ready" /\ call[Boot] = NoCall /\ keyOps < MaxKeyOps
    /\ mem.pub = None
    /\ mem' = [pub |-> fresh, priv |-> fresh]
    /\ Set(Boot, [at |-> "write", op |-> "createpriv", name |-> "priv", val |-> fresh])
    /\ fresh' = fresh + 1 /\ keyOps' = keyOps + 1
    /\ UNCHANGED <<secretVars, proc, entry, legacy, keyCrashes, historyVars>>

-----------------------------------------------------------------------------
(* A crash, or the end of the process.                                      *)

Writing == {call[c].name : c \in {d \in Calls : call[d].at \in {"write", "migrate"}}}

\* Writes under way leave the old file or a torn one.  An unacknowledged set or
\* delete may or may not have happened.
CrashKeys ==
    /\ proc.at # "down" /\ keyCrashes < MaxKeyCrashes
    /\ keyCrashes' = keyCrashes + 1
    /\ proc' = Down /\ mem' = NoMem /\ call' = [c \in Calls |-> NoCall]
    /\ \E torn \in SUBSET Writing :
           entry' = [n \in Names |-> IF n \in torn THEN [val |-> Torn, under |-> proc.cached]
                                     ELSE entry[n]]
    /\ \/ UNCHANGED <<secretFile, sealedBox>>
       \/ /\ proc.at = "write" /\ proc.kind = "software" /\ secretFile' = Torn
          /\ UNCHANGED sealedBox
       \/ /\ proc.at = "write" /\ proc.kind = "enclave" /\ keyRef = "both"
          /\ sealedBox' = Torn /\ UNCHANGED secretFile
    /\ excused' = excused \union
           {call[c].name : c \in {d \in Calls : call[d].at # "idle"
                                                /\ call[d].op \in {"set", "delete"}}}
    /\ UNCHANGED <<keyRef, legacy, fresh, keyOps, acked, answers>>

KeysNext ==
    \/ \E k \in {"software", "enclave"} : Open(k)
    \/ ReadSecret \/ NewSecret \/ WriteSecret \/ SecretFails
    \/ Initialize \/ CreateAdmin \/ CrashKeys
    \/ \E c \in KeyCallers :
           \/ Begin(c, "dbkey", "db")
           \/ \E op \in {"get", "set", "delete"} : Begin(c, op, "secret")
    \/ \E c \in Calls :
           \/ Read(c) \/ ReadLegacy(c) \/ VaultSet(c) \/ SetDone(c) \/ SetFails(c)
           \/ VaultDelete(c) \/ DeleteDone(c)

KeysSpec == KeysInit /\ [][KeysNext]_keyVars

-----------------------------------------------------------------------------

DirSecret == IF secretFile # None THEN secretFile ELSE sealedBox

\* Whatever crashes and restarts happen while the vault is first set up, by
\* either provider and whichever platform the next start detects, no entry is
\* ever written under a secret other than the one the directory keeps: the
\* vault never strands what it stored.
SecretKept ==
    \A n \in Names : entry[n] # NoEntry => entry[n].under = DirSecret

\* The admin key on disk is one pair: a public key is never kept beside the
\* private key of another creation, through migration, crashes in the middle of
\* a create and failed writes (a public key that could not be read or migrated when
\* the process started is excused: initialize takes it for a missing one, and
\* create then replaces the private key first).
AdminPairMatches ==
    (entry["pub"].val > 0 /\ entry["priv"].val > 0 /\ "pub" \notin excused)
        => entry["pub"].val = entry["priv"].val

\* A read answers the value last acknowledged for the name, also when it comes
\* from the legacy directory, is being migrated, or was generated by an earlier
\* process; a deleted secret does not come back (names with overlapping calls
\* or a legacy file that could not be removed are excused).
ReadsLastWrite == \A a \in answers : a[2] = a[3]

=============================================================================
