---------------------------- MODULE WorkshopTrust ----------------------------
(***************************************************************************)
(* The chain of workshop attestations (workshop_trust.py) that makes one   *)
(* production run eligible for release review, with the challenges of      *)
(* workshop_nonce.py and the tables of migration 0016.                     *)
(*                                                                         *)
(* People record evidence, sign one attestation per stage and may sign it  *)
(* again; the evidence store may change under them; keys are revoked and   *)
(* challenges renewed.  A digest is the value it was taken of.  The        *)
(* verifier keeps no state: who accepts a chain consumes its challenges in *)
(* the same transaction, within what the tables allow.                     *)
(***************************************************************************)
EXTENDS Integers, FiniteSets

CONSTANTS
    Runs, ThisRun,          \* production runs, and the one to be accepted
    Keys,                   \* signing keys
    Registries,             \* possible registries: key -> [principal, role]
    Setups,                 \* setups within the ranges of the server's policy
    UsualSetup, OtherSetup, \* the one in use, and one outside the ranges
    CalibrationEnds,        \* when the machine's calibration expires
    AttestationValidity,    \* maximum_attestation_validity_seconds
    ChainDuration,          \* maximum_chain_duration_seconds
    EvidenceAge,            \* maximum_stage_evidence_age_seconds
    MaxTime, MaxSerial, MaxGeneration,  \* bounds
    MaxSlips                \* bound: mistakes, revocations, renewals, faults of the store

Roles == {"workshop_maker", "workshop_checker", "workshop_supervisor"}

ASSUME WorkshopAssumption ==
    /\ ThisRun \in Runs /\ UsualSetup \in Setups /\ OtherSetup \notin Setups
    /\ \A g \in Registries : \A k \in Keys : g[k].role \in Roles
    /\ {CalibrationEnds, AttestationValidity, ChainDuration, EvidenceAge,
        MaxTime, MaxSerial, MaxGeneration, MaxSlips} \subseteq Nat

VARIABLES
    clock,          \* verification time; the run's generation finished at 0
    registry,       \* key -> [principal, role]
    revokedAt,      \* key -> time of its revocation, MaxTime + 1 while in force
    objects,        \* evidence id -> stored record
    recorded,       \* history: the records people really made
    nonceSets,      \* generation -> state of the workshop_nonce_sets row
    attestations,   \* stage -> the signed attestation submitted for it
    serial,         \* attestations signed so far, the next one's identity
    slips,          \* mistakes, revocations and faults so far
    acceptances     \* rows of workshop_chain_acceptances

trustVars == <<clock, registry, revokedAt, objects, recorded, nonceSets,
               attestations, serial, slips, acceptances>>

\* STAGE_ORDER: PRE_CUT, REFERENCE_PART, FINAL_WORKSHOP
Stages == 1 .. 3

\* Identities of evidence records; people keep record s for stage s.
EvidenceIds == 1 .. 3
Absent == [present |-> FALSE]
InForce == MaxTime + 1

\* _load_registry: a principal signs in one role, whatever its keys.
RegistryLoads ==
    \A k, j \in Keys :
        registry[k].principal = registry[j].principal => registry[k].role = registry[j].role

TrustInit ==
    /\ clock = 0
    /\ registry \in Registries
    /\ revokedAt = [k \in Keys |-> InForce]
    /\ objects = [e \in EvidenceIds |-> Absent]
    /\ recorded = {}
    /\ nonceSets = [g \in 1 .. MaxGeneration |-> "unissued"]
    /\ attestations = [s \in Stages |-> Absent]
    /\ serial = 0
    /\ slips = IF RegistryLoads THEN 0 ELSE 1
    /\ acceptances = {}

-----------------------------------------------------------------------------
(* The documents                                                           *)

\* WorkshopEvidenceRecord: the claim it makes and when it was observed.
EvidenceRecord(claim, at) == [present |-> TRUE, claim |-> claim, observed_at |-> at]

\* EvidenceReference: which record, and its digest when it was signed.
Reference(e) == [evidence_id |-> e, sha256 |-> objects[e]]

\* derive_workshop_nonce_set: one challenge per run, generation and stage.
Nonce(run, g, stage) == <<run, g, stage>>

\* SignedWorkshopAttestation with its statement.  The payload is the structured
\* assessment of the stage; whoever signs has the keys.
Attestation(stage, run, g, setup, e, payload, signers) ==
    [present |-> TRUE, id |-> serial + 1, stage |-> stage, run |-> run,
     server_nonce |-> Nonce(run, g, stage),
     previous |-> IF stage = 1 THEN Absent ELSE attestations[stage - 1],
     issued_at |-> clock, expires_at |-> clock + AttestationValidity,
     setup |-> setup, evidence |-> Reference(e), payload |-> payload,
     signers |-> signers]

\* validate_stage_shape: maker and checker differ; only a later stage, and each
\* later stage, names the one before it.
WellFormed(a) ==
    /\ a.present
    /\ registry[a.signers["workshop_maker"]].principal
         # registry[a.signers["workshop_checker"]].principal
    /\ (a.stage = 1) <=> ~a.previous.present

-----------------------------------------------------------------------------
(* The checks of the verifier                                              *)

\* The revoked_at part of _find_issuer.
NotRevoked(k) == revokedAt[k] > clock

\* _find_issuer: the key is in the registry and trusted for the role now.
TrustedFor(k, role) == k \in Keys /\ registry[k].role = role /\ NotRevoked(k)

\* Mutant: the supervisor's signature is taken from any trusted key.
SignedByAnyone(a) ==
    \A role \in Roles : TrustedFor(a.signers[role], registry[a.signers[role]].role)

\* _verify_signature and _verify_air_cut_supervisor: the air cut of the first
\* stage is signed by a supervisor too.
SignaturesValid(a) ==
    \A role \in IF a.stage = 1 THEN Roles ELSE Roles \ {"workshop_supervisor"} :
        TrustedFor(a.signers[role], role)

\* _verify_evidence_object: the stored bytes are the ones that were signed.
EvidenceObjectValid(a) == objects[a.evidence.evidence_id] = a.evidence.sha256

\* Mutant: any claim is good.
ClaimUnbound(a) == TRUE

\* _verify_claim_bindings: the record claims what the statement assesses.
ClaimBound(a) == a.evidence.sha256.claim = a.payload

\* role_by_key and role_by_digest: one record, one role in the chain.
RolesOfEvidence(chain) ==
    \A s, r \in Stages :
        chain[s].evidence.evidence_id = chain[r].evidence.evidence_id => s = r

\* _verify_setup_policy
SetupAccepted(setup) == setup \in Setups

\* The calibration part of _verify_stage_evidence.
CalibrationValid(a) == a.issued_at <= CalibrationEnds /\ clock <= CalibrationEnds

\* Mutant: evidence need not come after the stage before.
RequireVerifiedUnordered(a, after) ==
    /\ a.evidence.sha256.observed_at <= a.issued_at
    /\ a.issued_at - a.evidence.sha256.observed_at <= EvidenceAge

\* _require_verified: observed before it was attested, after the previous stage
\* was issued (the first has none: not before the generation ended, at time 0),
\* and not too long ago.
RequireVerified(a, after) ==
    /\ a.evidence.sha256.observed_at <= a.issued_at
    /\ a.stage = 1 \/ a.evidence.sha256.observed_at > after
    /\ a.issued_at - a.evidence.sha256.observed_at <= EvidenceAge

\* The outcome parts of _verify_stage_evidence: coupons, removal comparison and
\* air cut; reference part; prototype and load test.
StagePassed(a) == a.payload = "PASS"

\* Mutant: the challenges are not compared.
ChallengeIgnored(a, g) == TRUE

\* statement.server_nonce != expected_nonces[expected_stage]
ChallengeMet(a, g) == a.server_nonce = Nonce(ThisRun, g, a.stage)

\* The body of the loop of verify_workshop_attestation_chain for one stage.
StageVerified(chain, s, g) ==
    LET a == chain[s]
        before == IF s = 1 THEN Absent ELSE chain[s - 1]
        issuedBefore == IF s = 1 THEN 0 ELSE chain[s - 1].issued_at
    IN  /\ WellFormed(a) /\ a.stage = s
        /\ a.run = ThisRun
        /\ ChallengeMet(a, g)
        /\ a.previous = before
        /\ a.issued_at > issuedBefore /\ a.issued_at <= clock
        /\ a.expires_at > clock
        /\ a.expires_at - a.issued_at <= AttestationValidity
        /\ a.issued_at - chain[1].issued_at <= ChainDuration
        /\ a.setup = chain[1].setup
        /\ SignaturesValid(a)
        /\ ClaimBound(a) /\ EvidenceObjectValid(a)
        /\ RequireVerified(a, issuedBefore)
        /\ SetupAccepted(a.setup) /\ CalibrationValid(a)
        /\ StagePassed(a)

\* verify_workshop_attestation_chain
ChainVerified(chain, g) ==
    /\ RegistryLoads
    /\ \A s \in Stages : chain[s].present
    /\ \A s \in Stages : StageVerified(chain, s, g)
    /\ RolesOfEvidence(chain)

-----------------------------------------------------------------------------
(* What happens                                                            *)

tick ==
    /\ clock < MaxTime
    /\ clock' = clock + 1
    /\ UNCHANGED <<registry, revokedAt, objects, recorded, nonceSets,
                   attestations, serial, slips, acceptances>>

\* A mistake, or something done in bad faith, counts against the bound.
Slip(wrong) ==
    /\ slips' = IF wrong THEN slips + 1 ELSE slips
    /\ slips' <= MaxSlips

\* Evidence is recorded under a fresh identity; a careful workshop first ends
\* the stage before.
StageBeforeEnded(s) ==
    IF s = 1 THEN clock > 0
    ELSE attestations[s - 1].present /\ attestations[s - 1].issued_at < clock
record_evidence(e, claim) ==
    /\ ~objects[e].present
    /\ Slip(~StageBeforeEnded(e))
    /\ objects' = [objects EXCEPT ![e] = EvidenceRecord(claim, clock)]
    /\ recorded' = recorded \cup {<<e, EvidenceRecord(claim, clock)>>}
    /\ UNCHANGED <<clock, registry, revokedAt, nonceSets, attestations, serial, acceptances>>

\* The store hands out other bytes under the identity.
replace_object(e) ==
    /\ objects[e].present
    /\ Slip(TRUE)
    /\ objects' = [objects EXCEPT ![e] =
          EvidenceRecord(IF @.claim = "PASS" THEN "FAIL" ELSE "PASS", @.observed_at)]
    /\ UNCHANGED <<clock, registry, revokedAt, recorded, nonceSets, attestations,
                   serial, acceptances>>

\* One attestation of a stage is signed and submitted, the stage's first or a
\* new one in its place.  People sign a record they made, not one the store
\* changed; a slip is anything else a careful signer would not do.
GoodSigners ==
    [role \in Roles |-> CHOOSE k \in Keys : registry[k].role = role \/ \A j \in Keys : registry[j].role # role]
SwappedSigners ==
    [GoodSigners EXCEPT !["workshop_checker"] = GoodSigners["workshop_maker"],
                        !["workshop_maker"] = GoodSigners["workshop_checker"]]
IsActive(g) == nonceSets[g] = "active"

sign(s, run, g, setup, e, payload, signers) ==
    /\ serial < MaxSerial /\ nonceSets[g] # "unissued"
    /\ <<e, objects[e]>> \in recorded
    /\ s > 1 => attestations[s - 1].present
    /\ Slip(\/ run # ThisRun \/ ~IsActive(g) \/ setup # UsualSetup \/ e # s
            \/ payload # objects[e].claim \/ signers # GoodSigners)
    /\ attestations' = [attestations EXCEPT ![s] = Attestation(s, run, g, setup, e, payload, signers)]
    /\ serial' = serial + 1
    /\ UNCHANGED <<clock, registry, revokedAt, objects, recorded, nonceSets, acceptances>>

revoke_key(k) ==
    /\ revokedAt[k] = InForce
    /\ Slip(TRUE)
    /\ revokedAt' = [revokedAt EXCEPT ![k] = clock]
    /\ UNCHANGED <<clock, registry, objects, recorded, nonceSets, attestations,
                   serial, acceptances>>

\* The challenges of a run.  No service in the repository writes these tables yet:
\* the three actions are what the constraints of migration 0016 and the docstrings
\* of workshop_nonce.py leave to one.  A set's expires_at is left out, so it may be
\* consumed here also when it is too old.
\* workshop_nonce_sets: one active set per run (uq_workshop_nonce_sets_active_run).
issue_nonce_set(g) ==
    /\ nonceSets[g] = "unissued"
    /\ \A h \in 1 .. g - 1 : nonceSets[h] # "unissued"
    /\ ~\E h \in 1 .. MaxGeneration : IsActive(h)
    /\ nonceSets' = [nonceSets EXCEPT ![g] = "active"]
    /\ UNCHANGED <<clock, registry, revokedAt, objects, recorded, attestations,
                   serial, slips, acceptances>>

\* ck_workshop_nonce_sets_invalidation: never after it was consumed.
invalidate_nonce_set(g) ==
    /\ IsActive(g)
    /\ Slip(TRUE)
    /\ nonceSets' = [nonceSets EXCEPT ![g] = "invalidated"]
    /\ UNCHANGED <<clock, registry, revokedAt, objects, recorded, attestations,
                   serial, acceptances>>

\* A verified chain is accepted and its challenges are consumed with it
\* (workshop_chain_acceptances, one row per nonce set).
accept(g) ==
    /\ IsActive(g)
    /\ ChainVerified(attestations, g)
    /\ ~\E c \in acceptances : c.generation = g
    /\ acceptances' = acceptances \cup
          {[generation |-> g, chain |-> attestations, verified_at |-> clock]}
    /\ nonceSets' = [nonceSets EXCEPT ![g] = "consumed"]
    /\ UNCHANGED <<clock, registry, revokedAt, objects, recorded, attestations, serial, slips>>

TrustNext ==
    \/ tick
    \/ \E e \in EvidenceIds :
          replace_object(e) \/ \E c \in {"PASS", "FAIL"} : record_evidence(e, c)
    \/ \E s \in Stages, run \in Runs, g \in 1 .. MaxGeneration,
          setup \in Setups \cup {OtherSetup}, e \in EvidenceIds,
          payload \in {"PASS", "FAIL"}, signers \in {GoodSigners, SwappedSigners} :
          sign(s, run, g, setup, e, payload, signers)
    \/ \E k \in Keys : revoke_key(k)
    \/ \E g \in 1 .. MaxGeneration :
          issue_nonce_set(g) \/ invalidate_nonce_set(g) \/ accept(g)

TrustSpec == TrustInit /\ [][TrustNext]_trustVars

-----------------------------------------------------------------------------
(* Properties                                                              *)

\* What was accepted: attestation of stage s in acceptance c.
AcceptedStages == {c.chain[s] : c \in acceptances, s \in Stages}

\* The workshop did the work in order: each stage's evidence was observed after
\* everything of the stage before, and all of it before the acceptance and
\* within the duration (_require_verified along the chain).
WorkHappenedInOrder ==
    \A c \in acceptances : \A s, r \in Stages : s < r =>
        /\ c.chain[s].evidence.sha256.observed_at < c.chain[r].evidence.sha256.observed_at
        /\ c.chain[r].evidence.sha256.observed_at <= c.verified_at
        /\ c.chain[r].issued_at - c.chain[s].evidence.sha256.observed_at
              <= ChainDuration + EvidenceAge

\* Every accepted assessment is a pass that somebody really recorded.
ClaimsWereRecorded ==
    \A a \in AcceptedStages :
        <<a.evidence.evidence_id,
          EvidenceRecord("PASS", a.evidence.sha256.observed_at)>> \in recorded

\* Nobody who made a part of the run also checked a part of it, and no key was
\* revoked when the chain was accepted.
RolesStayApart ==
    \A c \in acceptances : \A s, r \in Stages :
        /\ registry[c.chain[s].signers["workshop_maker"]].principal
             # registry[c.chain[r].signers["workshop_checker"]].principal
        /\ \A role \in {"workshop_maker", "workshop_checker"} :
              revokedAt[c.chain[s].signers[role]] >= c.verified_at

\* No attestation helps to accept twice, and what was signed for an earlier set
\* of challenges or another run helps nothing.
NoReplay ==
    /\ \A c, d \in acceptances : c # d => \A s \in Stages : c.chain[s] # d.chain[s]
    /\ \A c \in acceptances : \A s \in Stages :
          c.chain[s].server_nonce = Nonce(ThisRun, c.generation, s)

\* An accepted chain is genuine whatever the store, the signers or the clock
\* did meanwhile: recorded passes, by separate people with unrevoked keys, for
\* exactly this run's challenges (_verify_claim_bindings with
\* _verify_evidence_object, _load_registry, _find_issuer, _expected_nonces).
AcceptedChainIsGenuine == ClaimsWereRecorded /\ RolesStayApart /\ NoReplay
==============================================================================
