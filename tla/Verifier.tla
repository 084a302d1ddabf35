------------------------------- MODULE Verifier -------------------------------
(***************************************************************************)
(* The verifier service (packages/verifier): the sliding-window limiter,   *)
(* the six checks of a verification request, the verdict and tier drawn    *)
(* from them, the signed statement, and the self seal that concurrent      *)
(* callers share.  A request is the set of parts it brings and the set of  *)
(* their defects; the two checks that fetch are answered later.            *)
(***************************************************************************)
EXTENDS Integers, Sequences

CONSTANTS
    Requesters,     \* senderInboxId
    VCallers,       \* calls under way at once
    MaxRequests,    \* maxRequestsPerRequesterPerHour
    Window,         \* windowMs, in ticks
    MaxVOps,        \* bound on calls begun
    MaxVClock       \* bound on the clock

ASSUME VerifierBounds ==
    MaxRequests \in Nat \ {0} /\ Window \in Nat \ {0} /\ MaxVOps \in Nat /\ MaxVClock \in Nat

VARIABLES
    vClock,
    timestamps,     \* the limiter's map: [Requesters -> Seq(times), <<>> for no entry]
    vCall,          \* [VCallers -> the call under way]
    cachedSelfSeal, \* "none", "signing" or "signed"
    statement,      \* the last statement answered
    vOps,
    admitted,       \* history: [Requesters -> when the limiter let a request pass]
    selfSeals       \* history: self seals signed

verifierVars == <<vClock, timestamps, vCall, cachedSelfSeal, statement, vOps, admitted,
                  selfSeals>>

VIdle     == [at |-> "idle", verdicts |-> {}, waiting |-> {}]
NoneSoFar == [verdict |-> "none", tier |-> "unverified"]

-----------------------------------------------------------------------------
(* The checks.                                                              *)

Parts == {"bundle", "tag", "github", "seal", "envelope", "key"}

BundleDefects      == {"base64", "json", "shape", "payload", "in-toto"}
CertificateDefects == {"certificate der", "no EC key", "not P-256"}
DsseDefects        == {"signature der", "wrong signature"}
SealDefects        == {"sealId", "chatId", "operatorId", "credentialId", "issuedAt", "scopeMode"}
EnvelopeDefects    == {"other seal", "other content"}
ChainDefects       == {"other operator", "other credential", "other chat", "earlier issuedAt"}
Defects == BundleDefects \union CertificateDefects \union DsseDefects \union SealDefects
           \union EnvelopeDefects \union ChainDefects
           \union {"unsigned", "digest", "issuer", "identity", "malformed key", "forged",
                     "wrong delta"}

\* Every request with at most two defects.
Requests == [has : SUBSET Parts, bad : {{}} \union {{d, e} : d, e \in Defects}]

Fails(b) == IF b THEN "fail" ELSE "pass"

\* base64, JSON, the bundle's shape, the payload, and the statement in it.
parseSigstoreBundle(q) == q.bad \intersect BundleDefects = {}

\* The walk through the certificate's DER down to an uncompressed P-256 key.
extractP256PublicKey(q) == q.bad \intersect CertificateDefects = {}

\* The first non-empty signature, DER or compact, over the encoded payload.
verifyDsseSignature(q) == q.bad \intersect DsseDefects = {}

\* Issuer and identity are enforced when configured, as here.  A valid DSSE
\* signature is not a pass: the certificate chain is not verified yet.
BuildProvenance(q) ==
    IF "bundle" \notin q.has THEN "skip"
    ELSE IF ~parseSigstoreBundle(q) THEN "fail"
    ELSE IF q.bad \intersect {"unsigned", "digest", "issuer", "identity"} # {} THEN "fail"
    ELSE IF ~extractP256PublicKey(q) \/ ~verifyDsseSignature(q) THEN "fail"
    ELSE "skip"

\* The envelope is of the seal the request names, and of its very bytes.
Matches(q) == q.bad \intersect EnvelopeDefects = {}

\* A key or signature the library cannot read is an error, not a verdict.
verifyEd25519Signature(q) ==
    IF "malformed key" \in q.bad THEN "error" ELSE Fails("forged" \in q.bad)

SealSignature(q) ==
    IF "seal" \notin q.has THEN "skip"
    ELSE IF q.bad \intersect {"operatorId", "issuedAt", "scopeMode"} # {} THEN "fail"
    ELSE IF ~({"envelope", "key"} \subseteq q.has) THEN "skip"
    ELSE IF ~Matches(q) THEN "fail"
    ELSE verifyEd25519Signature(q)

\* A previous seal is of the same operator, credential and chat and not later.
validateSealChain(q) == q.bad \intersect ChainDefects = {}

\* The stored delta is the difference between the two payloads.
verifyChainDelta(q) == "wrong delta" \notin q.bad

SealChain(q) ==
    IF "seal" \notin q.has THEN "skip"
    ELSE IF q.bad \intersect {"sealId", "chatId", "operatorId", "credentialId"} # {} THEN "fail"
    ELSE IF "envelope" \notin q.has THEN "skip"
    ELSE Fails(~(Matches(q) /\ validateSealChain(q) /\ verifyChainDelta(q)))

SchemaCompliance(q) ==
    IF "seal" \notin q.has THEN "skip" ELSE Fails(q.bad \intersect SealDefects # {})

\* The fetch of the repository: refused, failed and timed out are all a fail.
SourceAvailable(answer) == Fails(answer # "ok")

\* The release is looked up on GitHub, if the repository is there.
OnGitHub(q) == "github" \in q.has

ReleaseSigning(answer) ==
    CASE answer = "unreachable" \/ answer = "http error" -> "skip"
      [] answer \in {"not found", "draft", "no asset for digest"} -> "fail"
      [] answer = "asset for digest" -> "pass"

SourceAnswers  == {"ok", "http error", "unreachable"}
ReleaseAnswers == {"unreachable", "http error", "not found", "draft", "no asset for digest",
                   "asset for digest"}

\* What is known without the network, and what the network is asked for.
Locally(q) ==
    {BuildProvenance(q), SealSignature(q), SealChain(q), SchemaCompliance(q)}
    \union (IF "tag" \in q.has /\ OnGitHub(q) THEN {} ELSE {"skip"})
Fetches(q) == {"source"} \union (IF "tag" \in q.has /\ OnGitHub(q) THEN {"release"} ELSE {})

Started == {[at |-> "checks", verdicts |-> Locally(q), waiting |-> Fetches(q)] : q \in Requests}

-----------------------------------------------------------------------------
(* Verdict and tier.                                                        *)

determineVerdict(verdicts) ==
    IF "fail" \in verdicts THEN "rejected" ELSE IF "skip" \in verdicts THEN "partial"
    ELSE "verified"

TrustTiers == {"unverified", "source-verified", "reproducibly-verified", "runtime-attested"}

determineVerifiedTier(verdict, requested) ==
    IF verdict = "verified" /\ requested # "unverified" THEN "source-verified"
    ELSE "unverified"

\* seal.verify: three checks of a stored seal with its own envelope.
SealVerify(q) ==
    LET verdicts == {SealSignature(q), SealChain(q), SchemaCompliance(q)}
    IN IF "error" \in verdicts THEN "error" ELSE determineVerdict(verdicts)

-----------------------------------------------------------------------------

VerifierInit ==
    /\ vClock = 0 /\ vOps = 0
    /\ timestamps = [r \in Requesters |-> <<>>]
    /\ admitted = [r \in Requesters |-> <<>>]
    /\ vCall = [c \in VCallers |-> VIdle]
    /\ cachedSelfSeal = "none" /\ selfSeals = 0
    /\ statement = NoneSoFar

\* Mutant of Recent: an entry is forgotten when it is exactly the window old.
RecentStrictly(entries) ==
    LET valid == {i \in DOMAIN entries : entries[i] > vClock - Window}
    IN IF valid = {} THEN <<>>
       ELSE SubSeq(entries, CHOOSE i \in valid : \A j \in valid : i <= j, Len(entries))

\* The entries that eviction keeps: findIndex looks for the first valid one, splice
\* drops those before it.
Recent(entries) ==
    LET valid == {i \in DOMAIN entries : entries[i] >= vClock - Window}
    IN IF valid = {} THEN <<>>
       ELSE SubSeq(entries, CHOOSE i \in valid : \A j \in valid : i <= j, Len(entries))

\* check: evicts, then admits and records the request or turns it away.
Limiter(r, pass) ==
    LET kept == Recent(timestamps[r]) IN
    /\ pass = (Len(kept) < MaxRequests)
    /\ timestamps' = [timestamps EXCEPT ![r] = IF pass THEN Append(kept, vClock) ELSE kept]
    /\ admitted' = IF pass THEN [admitted EXCEPT ![r] = Append(@, vClock)] ELSE admitted

VSet(c, call) == vCall' = [vCall EXCEPT ![c] = call]

\* handleRequest up to its first await: the limiter, and the checks that need
\* no network; a request over the limit gets a rejection, which is signed too.
HandleRequest(c, r) ==
    /\ vCall[c] = VIdle /\ vOps < MaxVOps
    /\ vOps' = vOps + 1
    /\ \/ Limiter(r, TRUE) /\ \E start \in Started : VSet(c, start)
       \/ Limiter(r, FALSE) /\ VSet(c, [VIdle EXCEPT !.at = "limited"])
    /\ UNCHANGED <<vClock, cachedSelfSeal, statement, selfSeals>>

CheckSettles(c, w, verdict) ==
    /\ w \in vCall[c].waiting
    /\ VSet(c, [vCall[c] EXCEPT !.waiting = @ \ {w}, !.verdicts = @ \union {verdict}])
    /\ UNCHANGED <<vClock, timestamps, cachedSelfSeal, statement, vOps, admitted, selfSeals>>

SourceFetched(c)  == \E a \in SourceAnswers : CheckSettles(c, "source", SourceAvailable(a))
ReleaseFetched(c) == \E a \in ReleaseAnswers : CheckSettles(c, "release", ReleaseSigning(a))

\* Promise.all has resolved: an internal error of any check is the answer;
\* otherwise the statement is signed (the requested tier is read only here).
\* The signer may fail.
Answer(c, tier) ==
    /\ \/ vCall[c].at = "limited"
       \/ vCall[c].at = "checks" /\ vCall[c].waiting = {}
    /\ VSet(c, VIdle)
    /\ LET verdict == IF vCall[c].at = "limited" THEN "rejected"
                      ELSE determineVerdict(vCall[c].verdicts)
       IN \/ statement' = NoneSoFar
          \/ /\ "error" \notin vCall[c].verdicts
             /\ statement' = [verdict |-> verdict, tier |-> determineVerifiedTier(verdict, tier)]
    /\ UNCHANGED <<vClock, timestamps, cachedSelfSeal, vOps, admitted, selfSeals>>

\* selfSeal: the first caller signs, those that come meanwhile share the promise.
SelfSeal(c) ==
    /\ vCall[c] = VIdle /\ vOps < MaxVOps /\ cachedSelfSeal # "signed"
    /\ VSet(c, [VIdle EXCEPT !.at = IF cachedSelfSeal = "none" THEN "signs" ELSE "shares"])
    /\ cachedSelfSeal' = "signing"
    /\ vOps' = vOps + 1
    /\ UNCHANGED <<vClock, timestamps, statement, admitted, selfSeals>>

\* A failure is not cached.
SelfSealDone(c, ok) ==
    /\ vCall[c].at = "signs"
    /\ cachedSelfSeal' = IF ok THEN "signed" ELSE "none"
    /\ selfSeals' = selfSeals + (IF ok THEN 1 ELSE 0)
    /\ vCall' = [d \in VCallers |-> IF vCall[d].at \in {"signs", "shares"} THEN VIdle ELSE vCall[d]]
    /\ UNCHANGED <<vClock, timestamps, statement, vOps, admitted>>

VTick ==
    /\ vClock < MaxVClock /\ vClock' = vClock + 1
    /\ UNCHANGED <<timestamps, vCall, cachedSelfSeal, statement, vOps, admitted, selfSeals>>

VerifierNext ==
    \/ \E c \in VCallers :
           \/ \E r \in Requesters : HandleRequest(c, r)
           \/ SourceFetched(c) \/ ReleaseFetched(c)
           \/ \E tier \in TrustTiers : Answer(c, tier)
           \/ SelfSeal(c)
           \/ \E ok \in BOOLEAN : SelfSealDone(c, ok)
    \/ VTick

VerifierSpec == VerifierInit /\ [][VerifierNext]_verifierVars

-----------------------------------------------------------------------------

\* What a request really shows to be wrong: a defect of a part that is there
\* and, for the envelope and the key, that comes with what it belongs to.
ShownDefects(q) ==
    q.bad \intersect
    ((IF "bundle" \in q.has
      THEN BundleDefects \union CertificateDefects \union DsseDefects
           \union {"unsigned", "digest", "issuer", "identity"} ELSE {})
     \union (IF "seal" \in q.has THEN SealDefects ELSE {})
     \union (IF {"seal", "envelope"} \subseteq q.has
             THEN EnvelopeDefects \union ChainDefects \union {"wrong delta"} ELSE {})
     \union (IF {"seal", "envelope", "key"} \subseteq q.has
             THEN {"malformed key", "forged"} ELSE {}))

\* The local checks together against what a request shows: a request that shows a
\* defect is rejected or is an error, one that shows none is neither, and
\* whatever it brings it is not verified while a build is never passed.  A stored
\* seal is verified by seal.verify exactly when it comes with its key and shows
\* no defect.
ChecksSound ==
    \A q \in Requests :
        /\ (ShownDefects(q) # {}) <=> ("fail" \in Locally(q) \/ "error" \in Locally(q))
        /\ determineVerdict(Locally(q)) # "verified"
        /\ {"seal", "envelope"} \subseteq q.has =>
               (SealVerify(q) = "verified" <=>
                    "key" \in q.has /\ ShownDefects(q) \intersect
                        (Defects \ (BundleDefects \union CertificateDefects \union DsseDefects
                                    \union {"unsigned", "digest", "issuer", "identity"})) = {})

\* The verifier keeps its word: no requester gets more than its hourly limit
\* past the limiter in any window, however its requests overlap; one self seal is
\* signed however many callers ask at once and whatever failed before; the
\* checks find what is wrong; and no statement vouches for a tier.
VerifierSound ==
    /\ \A r \in Requesters : \A i \in 1..(Len(admitted[r]) - MaxRequests) :
           admitted[r][i + MaxRequests] - admitted[r][i] > Window
    /\ selfSeals <= 1
    /\ statement.tier = "unverified" /\ statement.verdict # "verified"
    /\ ChecksSound
=============================================================================
