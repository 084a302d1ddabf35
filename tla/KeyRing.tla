------------------------------- MODULE KeyRing -------------------------------
(***************************************************************************)
(* Keys in memory: operational keys and their rotation, credential keys    *)
(* and the seal stamper of packages/keys/src/key-manager-compat.ts, behind *)
(* the biometric gate (biometric-gate.ts) and its secure enclave prompter  *)
(* (se-gate-prompter.ts).  A key is the number of its generation; a call   *)
(* is suspended in the enclave helper, in the prompt or in a signature.    *)
(***************************************************************************)
EXTENDS Integers, FiniteSets

CONSTANTS
    RingCallers,    \* calls under way at once
    Identities,     \* identities with an operational key
    MaxRingOps,     \* bound on the calls begun
    MaxRingFaults,  \* bound on enclave failures and restarts
    CredTtl         \* ttlSeconds of a credential key, in ticks

ASSUME KeyRingBounds ==
    MaxRingOps \in Nat /\ MaxRingFaults \in Nat /\ CredTtl \in Nat \ {0}

VARIABLES
    enclave,    \* resolveGatePrompter found an enclave
    gating,     \* the operations biometricGating turns on
    gateRef,    \* se-gate-keyref: the enclave key on disk, 0 for none
    inflight,   \* inflightKeyRef: the call that creates it
    seKeys,     \* enclave gate keys created so far
    opKey,      \* [Identities -> operational key, 0 for none]
    credKey,    \* the credential key: [exp] or 0
    ringClock,
    ringCall,   \* [RingCallers -> the call under way]
    made,       \* operational keys generated so far
    ringOps, ringFaults,
    envelopes,  \* history: signed envelopes
    unapproved  \* history: keys generated without an approval their gate asks for

ringVars == <<enclave, gating, gateRef, inflight, seKeys, opKey, credKey, ringClock,
              ringCall, made, ringOps, ringFaults, envelopes, unapproved>>

Nobody   == "nobody"

ASSUME RingIds == Nobody \notin RingCallers

RingIdle == [at |-> "idle", op |-> "none", id |-> "none", key |-> 0,
             approved |-> FALSE, replaced |-> FALSE]
GateOf   == [create |-> "agentCreation", rotate |-> "operationalKeyRotation",
             authorize |-> "adminReadElevation"]

RingInit ==
    /\ enclave \in BOOLEAN
    /\ gating \in {{}, {"agentCreation", "operationalKeyRotation", "adminReadElevation"}}
    /\ gateRef = 0 /\ inflight = Nobody /\ seKeys = 0
    /\ opKey = [i \in Identities |-> 0]
    /\ credKey = 0 /\ ringClock = 0
    /\ ringCall = [c \in RingCallers |-> RingIdle]
    /\ made = 0 /\ ringOps = 0 /\ ringFaults = 0
    /\ envelopes = {} /\ unapproved = {}

SetCall(c, r) == ringCall' = [ringCall EXCEPT ![c] = r]
Busy(c)       == ringCall[c] # RingIdle
ConfigVars    == <<enclave, gating>>

-----------------------------------------------------------------------------
(* The gate.                                                                *)

\* Mutant of GateStep: every caller that finds no file creates a key.
GateStepAlone(op) ==
    IF GateOf[op] \notin gating THEN "generate"
    ELSE IF ~enclave THEN "refused"
    ELSE IF gateRef # 0 THEN "prompt"
    ELSE "secreate"

\* The gate up to its first await: ungated operations pass, without an enclave
\* gated ones are refused, a missing gate key is created by one caller.
GateStep(op) ==
    IF GateOf[op] \notin gating THEN "generate"
    ELSE IF ~enclave THEN "refused"
    ELSE IF gateRef # 0 THEN "prompt"
    ELSE IF inflight # Nobody THEN "waitkey"
    ELSE "secreate"

\* createOperationalKey (and keys.init, which asks for a key only when there is
\* none), rotateOperationalKey (the timer, rotateKeys) and
\* authorizeSensitiveOperation.
BeginGated(c, op, i) ==
    /\ ~Busy(c) /\ ringOps < MaxRingOps
    /\ (op = "rotate") => opKey[i] # 0
    /\ LET step == GateStep(op) IN
       /\ step # "refused"
       /\ op = "authorize" => step # "generate"
       /\ SetCall(c, [RingIdle EXCEPT !.at = step, !.op = op, !.id = i])
       /\ inflight' = IF step = "secreate" THEN c ELSE inflight
    /\ ringOps' = ringOps + 1
    /\ UNCHANGED <<ConfigVars, gateRef, seKeys, opKey, credKey, ringClock, made,
                   ringFaults, envelopes, unapproved>>

\* ensureGateKey settles for the caller that created the key and all that wait.
Settled(c, at) ==
    ringCall' = [d \in RingCallers |->
        IF d = c \/ ringCall[d].at = "waitkey"
        THEN IF at = "prompt" THEN [ringCall[d] EXCEPT !.at = at] ELSE RingIdle
        ELSE ringCall[d]]

SeCreate(c) ==
    /\ ringCall[c].at = "secreate"
    /\ seKeys' = seKeys + 1
    /\ SetCall(c, [ringCall[c] EXCEPT !.at = "saveref", !.key = seKeys + 1])
    /\ UNCHANGED <<ConfigVars, gateRef, inflight, opKey, credKey, ringClock, made,
                   ringOps, ringFaults, envelopes, unapproved>>

SaveGateRef(c) ==
    /\ ringCall[c].at = "saveref"
    /\ gateRef' = ringCall[c].key /\ inflight' = Nobody
    /\ Settled(c, "prompt")
    /\ UNCHANGED <<ConfigVars, seKeys, opKey, credKey, ringClock, made, ringOps,
                   ringFaults, envelopes, unapproved>>

\* The helper or the write of the reference fails.
GateKeyFails(c) ==
    /\ ringCall[c].at \in {"secreate", "saveref"} /\ ringFaults < MaxRingFaults
    /\ ringFaults' = ringFaults + 1
    /\ inflight' = Nobody
    /\ Settled(c, "idle")
    /\ UNCHANGED <<ConfigVars, gateRef, seKeys, opKey, credKey, ringClock, made,
                   ringOps, envelopes, unapproved>>

\* seSign of the challenge: the owner approves, or cancels.
Prompt(c) ==
    /\ ringCall[c].at = "prompt"
    /\ \/ SetCall(c, RingIdle)
       \/ /\ ringCall[c].op # "authorize"
          /\ SetCall(c, [ringCall[c] EXCEPT !.at = "generate", !.approved = TRUE])
    /\ UNCHANGED <<ConfigVars, gateRef, inflight, seKeys, opKey, credKey, ringClock, made,
                   ringOps, ringFaults, envelopes, unapproved>>

-----------------------------------------------------------------------------
(* Operational keys and the stamper.                                        *)

\* createOperationalKeyRecord: the new key replaces the old one; signatures under
\* way keep the key they began with.
Generate(c) ==
    /\ ringCall[c].at = "generate"
    /\ LET i == ringCall[c].id IN
       /\ made' = made + 1
       /\ opKey' = [opKey EXCEPT ![i] = made + 1]
       /\ ringCall' = [d \in RingCallers |->
              IF d = c THEN RingIdle
              ELSE IF ringCall[d].op = "stamp" /\ ringCall[d].id = i
                   THEN [ringCall[d] EXCEPT !.replaced = TRUE]
              ELSE ringCall[d]]
       /\ unapproved' = IF GateOf[ringCall[c].op] \in gating /\ ~ringCall[c].approved
                        THEN unapproved \union {made + 1} ELSE unapproved
    /\ UNCHANGED <<ConfigVars, gateRef, inflight, seKeys, credKey, ringClock, ringOps,
                   ringFaults, envelopes>>

\* sign and signRevocation: the signature is made with the key of now.
Stamp(c, i) ==
    /\ ~Busy(c) /\ ringOps < MaxRingOps /\ opKey[i] # 0
    /\ SetCall(c, [RingIdle EXCEPT !.at = "signing", !.op = "stamp", !.id = i,
                                   !.key = opKey[i]])
    /\ ringOps' = ringOps + 1
    /\ UNCHANGED <<ConfigVars, gateRef, inflight, seKeys, opKey, credKey, ringClock, made,
                   ringFaults, envelopes, unapproved>>

\* getOperationalKey, asked after the signature.
NamedKey(i) == opKey[i]

Stamped(c) ==
    /\ ringCall[c].at = "signing"
    /\ envelopes' = envelopes \union
           {[signed |-> ringCall[c].key, named |-> NamedKey(ringCall[c].id),
             replaced |-> ringCall[c].replaced]}
    /\ SetCall(c, RingIdle)
    /\ UNCHANGED <<ConfigVars, gateRef, inflight, seKeys, opKey, credKey, ringClock, made,
                   ringOps, ringFaults, unapproved>>

-----------------------------------------------------------------------------
(* Credential keys, and the process.                                        *)

CredentialKey ==
    /\ \/ ringClock + CredTtl <= 2 * CredTtl /\ credKey' = ringClock + CredTtl  \* issue
       \/ credKey # 0 /\ credKey' = 0                                          \* revoke
       \/ credKey # 0 /\ ringClock >= credKey /\ credKey' = 0   \* a signature finds it expired
    /\ UNCHANGED <<ConfigVars, gateRef, inflight, seKeys, opKey, ringClock, ringCall, made,
                   ringOps, ringFaults, envelopes, unapproved>>

RingTick ==
    /\ ringClock < 2 * CredTtl /\ ringClock' = ringClock + 1
    /\ UNCHANGED <<ConfigVars, gateRef, inflight, seKeys, opKey, credKey, ringCall, made,
                   ringOps, ringFaults, envelopes, unapproved>>

\* Operational and credential keys are not stored; the gate key's reference is.
RingRestart ==
    /\ ringFaults < MaxRingFaults
    /\ ringFaults' = ringFaults + 1
    /\ inflight' = Nobody /\ credKey' = 0
    /\ opKey' = [i \in Identities |-> 0]
    /\ ringCall' = [c \in RingCallers |-> RingIdle]
    /\ UNCHANGED <<ConfigVars, gateRef, seKeys, ringClock, made, ringOps, envelopes,
                   unapproved>>

RingNext ==
    \/ \E c \in RingCallers :
           \/ \E op \in {"create", "rotate", "authorize"}, i \in Identities : BeginGated(c, op, i)
           \/ \E i \in Identities : Stamp(c, i)
           \/ SeCreate(c) \/ SaveGateRef(c) \/ GateKeyFails(c) \/ Prompt(c)
           \/ Generate(c) \/ Stamped(c)
    \/ CredentialKey \/ RingTick \/ RingRestart

RingSpec == RingInit /\ [][RingNext]_ringVars

-----------------------------------------------------------------------------

\* The biometric gate stands: with gating on, no operational key is generated
\* or rotated without an approval of that very call, and calls that meet while
\* the gate key is first created share one enclave key: another one is created
\* only after a failure or a restart.
GateHolds == unapproved = {} /\ seKeys <= ringFaults + 1

\* The gate holds, and an envelope names the key that signed it, whatever other
\* identities' keys are created or rotated, unless its own key was rotated during
\* the signature (the stamper asks for the key's name after it has signed).
RingSound == GateHolds /\ \A e \in envelopes : e.signed = e.named \/ e.replaced
=============================================================================
