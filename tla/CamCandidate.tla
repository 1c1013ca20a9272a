---------------------------- MODULE CamCandidate ----------------------------
(***************************************************************************)
(* From a reviewed design to cutting programs: a workshop authors its      *)
(* production profile, the offline compiler or the worker builds a CAM     *)
(* candidate from the review and the profile, the package travels, and its *)
(* recipient verifies it (cam_candidate_package.py,                        *)
(* cam_software_provenance.py, scripts/compile_cam_candidate.py,           *)
(* scripts/verify_cam_candidate.py, worker cam_candidate.py).              *)
(*                                                                         *)
(* A candidate is [manifest, docs]; nothing in it is signed, so documents  *)
(* of several candidates can be put together and sealed again.             *)
(***************************************************************************)
EXTENDS ProductionProfile, TLC

CONSTANTS
    Reviews,        \* the design reviews there are
    Edits,          \* review sha -> section -> what a workshop may write there
    MaxSlips,       \* mistakes in one draft
    HandWritten,    \* profile documents that were not finalized from a draft
    Identities,     \* producer identities a compiler may be given
    LocalSource,    \* digest and lock of the source tree that runs
    Siblings,       \* other builds documents may be taken from
    MaxSubstituted  \* documents of another build in one package

VARIABLES
    draft,          \* the authoring draft, NoFile before
    deployed,       \* the production profile file, NoFile before
    receipts,       \* <<review, document>> declared ready for generation
    candidate,      \* the package built or received, NoFile before
    exchanged,      \* documents of it that come from another build
    answer          \* of the last build or verification

candidateVars == <<draft, deployed, receipts, candidate, exchanged, answer>>

NoFile == [none |-> TRUE]
NoIdentity == [none |-> TRUE]
Unjudged == [by |-> 0, test |-> FALSE, accepted |-> FALSE]

ReviewNamed(sha) == CHOOSE r \in Reviews : r.sha = sha

\* A review is known by the digest of its bytes.  Its operations are named after the
\* part instances and features they cut; a setup is made for the operations found on a
\* side of a sheet, and tools are numbered in the order of their names (operations.py).
ASSUME ReviewsArePlans ==
    /\ Unique(Reviews, LAMBDA r : r.sha)
    /\ \A r \in Reviews : r.cam =>
        /\ DOMAIN r.setups \subseteq Nat /\ IsFiniteSet(r.operations)
        /\ Unique(r.operations, LAMBDA o : o.id)
        /\ {o.setup : o \in r.operations} = {s.id : s \in Rows(r.setups)}
        /\ \A o \in r.operations : o.tool \in Nat

-----------------------------------------------------------------------------
(***************************************************************************)
(* Who built it.  Of all implementations only one is registered, with the  *)
(* verification that understands its packages.                             *)
(***************************************************************************)
CurrentImplementation == 2
SupportedImplementations == {CurrentImplementation}
VerificationDispatch == [i \in SupportedImplementations |-> "v2"]

TestOnlyIdentity == [vcs |-> "test", source |-> 0, lock |-> 0]
IdentityParses(identity, allowTestOnly) == identity.vcs = "digest" \/ allowTestOnly
IdentityOfEngine(engine) == [vcs |-> engine.vcs, source |-> engine.source, lock |-> engine.lock]
BuildProvenance(identity) ==
    [producer |-> identity, root |-> identity.source, implementation |-> CurrentImplementation]
ProvenanceHolds(provenance, allowTestOnly, requireCurrent) ==
    /\ provenance.implementation \in SupportedImplementations
    /\ requireCurrent => provenance.implementation = CurrentImplementation
    /\ IdentityParses(provenance.producer, allowTestOnly)
    /\ provenance.root = provenance.producer.source

\* None is enough only for a TEST_ONLY profile.
ProducerResolves(identity, testOnly) ==
    IF identity = NoIdentity THEN testOnly ELSE IdentityParses(identity, testOnly)
ResolvedProducer(identity) == IF identity = NoIdentity THEN TestOnlyIdentity ELSE identity
IsLocalSource(identity) ==
    identity.source = LocalSource.source /\ identity.lock = LocalSource.lock

\* The source tree that runs can be named as a producer.
ASSUME LocalIdentity ==
    \E i \in Identities \ {NoIdentity} : i.vcs = "digest" /\ IsLocalSource(i)

-----------------------------------------------------------------------------
(***************************************************************************)
(* The bindings a candidate must have.                                     *)
(***************************************************************************)
BaseBinding(review) ==
    [bundle |-> review.sha, design |-> review.design, machine |-> review.machine,
     operations |-> OperationsDocument(review)]
SourceMachineProfile(review) == review.machine

ToolpathsBound(document, review) ==
    /\ document.design = review.design
    /\ document.operations = OperationsDocument(review)
    /\ document.context.source = review.machine

\* verify_production_toolpaths: the motion is checked against the operations.
CuttingVerified(document, operations) ==
    /\ document.motion # "broken"
    /\ UNION {p.operations : p \in Rows(document.programs)} = {o.id : o \in operations.operations}

MachineProfileBound(document, post) ==
    LET context == document.context
    IN  /\ post.machine = context.machine /\ post.controller = context.controller
        /\ post.travel = context.travel
        /\ \A s \in context.setups : s.wcs \in DOMAIN post.offsets /\ post.offsets[s.wcs] = s.origin

\* Mutant: the profile of the candidate is not compared with its plan.
ProfileUnbound(document, profile) == TRUE
ProfileBound(document, profile) ==
    /\ load_production_machine_profile(profile, profile.payload.class = "TEST_ONLY")
    /\ build_execution_context(profile.payload) = document.context
    /\ MachineProfileBound(document, profile.payload.post)

ProgramsHold(document, programs, post) ==
    /\ programs # <<>> /\ Len(programs) = Len(document.programs)
    /\ \A n \in DOMAIN programs : programs[n].order = n
    /\ MachineProfileBound(document, post)
    /\ programs = postprocess(post, document)

\* A workshop clamps a sheet once: a setup's programs follow one another.
ProgramsOfSetup(programs, id) == {n \in DOMAIN programs : programs[n].setup = id}
SetupsInOneVisit(document, programs) ==
    \A s \in document.context.setups :
        LET own == ProgramsOfSetup(programs, s.id)
        IN  own # {} /\ \A i, j \in own : (i .. j) \subseteq own

-----------------------------------------------------------------------------
(***************************************************************************)
(* The documents.                                                          *)
(***************************************************************************)
ProfileIdentity(profile) ==
    [class |-> profile.payload.class, payload |-> profile.digest,
     acceptance |-> profile.payload.acceptance, post |-> profile.payload.post]
PostIdentity(post) == [machine |-> post.machine, controller |-> post.controller, config |-> post]
SourceIdentity(review) == [profile |-> review.machine, mode |-> "VALIDATION"]
MaterialBinding(setup) ==
    [source |-> setup.source, actual |-> setup.material, evidence |-> setup.evidence]
SheetMaterials(context) ==
    {<<s.stock, s.sheet, MaterialBinding(s)>> : s \in context.setups}

IndexEntry(program, document) ==
    LET s == BoundSetup(document.context, program.setup)
    IN  [order |-> program.order, program |-> program, material |-> MaterialBinding(s),
         wcs |-> s.wcs, origin |-> s.origin, tool |-> program.number,
         operations |-> program.operations]
ProgramIndex(document, programs, profile, post) ==
    [toolpaths |-> document, machine |-> document.context.machine,
     materials |-> SheetMaterials(document.context), post |-> PostIdentity(post),
     profile |-> ProfileIdentity(profile),
     programs |-> [n \in DOMAIN programs |-> IndexEntry(programs[n], document)]]

\* What the workshop sets up, in the order it works, and what the controller
\* must show before each start.
SetupRow(setup, programs) ==
    [setup |-> setup.id, orders |-> ProgramsOfSetup(programs, setup.id),
     material |-> MaterialBinding(setup), wcs |-> setup.wcs, origin |-> setup.origin,
     allowance |-> setup.allowance]
ToolRow(program, context) == CHOOSE t \in context.tools : t.id = program.tool
ProgramRow(program, document) ==
    [order |-> program.order, tool |-> ToolRow(program, document.context),
     recipes |-> {r \in document.context.recipes : r.tool = program.tool /\ r.rpm = program.rpm},
     operations |-> program.operations,
     held |-> ~document.programs[program.order].release]
ExpectedTooling(post, context) == [tools |-> {t.id : t \in context.tools}, attested |-> post.attested]
ExpectedOffsets(post) == [wcs |-> post.offsets, attested |-> post.attested]
ExpectedSpindle(post) == [range |-> post.rpm, attested |-> post.attested]
SetupInstructions(document, programs, profile, post) ==
    [setups |-> {SetupRow(s, programs) : s \in document.context.setups},
     programs |-> [n \in DOMAIN programs |-> ProgramRow(programs[n], document)],
     bindings |-> <<document, document.operations, profile.digest, post>>,
     materials |-> SheetMaterials(document.context),
     controller |-> <<ExpectedTooling(post, document.context), ExpectedOffsets(post),
                      ExpectedSpindle(post)>>]

CuttingReport(document, programs, profile, post, operations) ==
    [toolpaths |-> document, operations |-> operations, profile |-> ProfileIdentity(profile),
     post |-> post, materials |-> SheetMaterials(document.context),
     roundTrip |-> [n \in DOMAIN programs |-> programs[n].order]]
Backplot(document, operations) == <<document.motion, document.programs, operations>>
StartHere(document, programs, post) ==
    [design |-> document.design, machine |-> post.machine,
     programs |-> [n \in DOMAIN programs |-> programs[n].setup]]

\* Everything but the operations, toolpaths, programs and profiles is derived.
Derived(review, toolpaths, programs, profile, post) ==
    [operations |-> OperationsDocument(review), source |-> SourceMachineProfile(review),
     toolpaths |-> toolpaths, programs |-> programs, profile |-> profile, post |-> post,
     index |-> ProgramIndex(toolpaths, programs, profile, post),
     instructions |-> SetupInstructions(toolpaths, programs, profile, post),
     report |-> CuttingReport(toolpaths, programs, profile, post, OperationsDocument(review)),
     backplot |-> Backplot(toolpaths, OperationsDocument(review)),
     start |-> StartHere(toolpaths, programs, post)]

Manifest(review, docs, provenance) ==
    [base |-> BaseBinding(review), source |-> SourceIdentity(review),
     machine |-> docs.toolpaths.context.machine, controller |-> docs.toolpaths.context.controller,
     materials |-> SheetMaterials(docs.toolpaths.context), post |-> PostIdentity(docs.post),
     profile |-> ProfileIdentity(docs.profile), toolpaths |-> docs.toolpaths,
     instructions |-> docs.instructions, provenance |-> provenance, artifacts |-> docs]

-----------------------------------------------------------------------------
(***************************************************************************)
(* read_and_verify_cam_candidate_package                                   *)
(***************************************************************************)
EnvelopeHolds(c) == c.manifest.artifacts = c.docs
ManifestShape(manifest) == manifest.provenance.implementation \in SupportedImplementations
ProvenanceAccepted(c, expectedSource, allowTestOnly, requireCurrent) ==
    /\ ProvenanceHolds(c.manifest.provenance, allowTestOnly, requireCurrent)
    /\ c.manifest.provenance.implementation \in DOMAIN VerificationDispatch
    /\ c.manifest.provenance.producer.source = expectedSource
CandidateSourcesHold(c, review) ==
    /\ c.manifest.base = BaseBinding(review)
    /\ ToolpathsBound(c.docs.toolpaths, review)
    /\ c.docs.operations = OperationsDocument(review)
    /\ TrustedMachine(review) /\ c.docs.source = SourceMachineProfile(review)
ProfilesHold(c, allowTestOnly) ==
    /\ load_production_machine_profile(c.docs.profile, allowTestOnly)
    /\ ProfileBound(c.docs.toolpaths, c.docs.profile)
    /\ c.docs.post = c.docs.profile.payload.post
    /\ MachineProfileBound(c.docs.toolpaths, c.docs.post)

(***************************************************************************)
(* Each document is read into its type: exactly its fields, and everything *)
(* the type's own constructor insists on.                                  *)
(***************************************************************************)
SourceSetupParses(s) == DOMAIN s = {"id", "stock", "sheet", "side", "material"}
SourceToolParses(t) == DOMAIN t = {"id", "version"}
SourceOperationParses(o) == DOMAIN o = {"id", "setup", "tool", "kind", "through", "release"}
OperationsParse(d) ==
    /\ DOMAIN d = {"design", "machine", "setups", "operations", "tools"}
    /\ \A s \in Rows(d.setups) : SourceSetupParses(s)
    /\ \A t \in d.tools : SourceToolParses(t)
    /\ \A o \in d.operations : SourceOperationParses(o)
\* The design review's verification has read its operations the same way.
ASSUME ReviewsParse == \A r \in Reviews : r.cam => OperationsParse(OperationsDocument(r))
BoundSetupParses(s) == SetupParses(s)
ToolBindingParses(t) == ToolParses(t)
RecipeRowParses(r) == RecipeParses(r)
ExecutionContextParses(context) ==
    /\ DOMAIN context = {"source", "machine", "controller", "travel", "rpm", "setups", "tools",
                         "recipes"}
    /\ \A s \in context.setups : BoundSetupParses(s)
    /\ \A t \in context.tools : ToolBindingParses(t)
    /\ \A r \in context.recipes : RecipeRowParses(r)
    /\ ContextAgrees(context)
ProductionProgramParses(p) ==
    DOMAIN p = {"order", "setup", "tool", "rpm", "operations", "release"}
ToolpathsParse(d) ==
    /\ DOMAIN d = {"design", "operations", "context", "programs", "motion"}
    /\ ExecutionContextParses(d.context)
    /\ \A n \in DOMAIN d.programs : ProductionProgramParses(d.programs[n])
DocumentsParse(c) == OperationsParse(c.docs.operations) /\ ToolpathsParse(c.docs.toolpaths)

\* The programs are read back through the index before they are judged.
ProgramsFromIndex(c) ==
    [n \in DOMAIN c.docs.index.programs |->
        LET entry == c.docs.index.programs[n].program
        IN  [entry EXCEPT !.order = c.docs.index.programs[n].order]]
MembersHold(c) ==
    /\ Rows(c.docs.programs) = Rows(ProgramsFromIndex(c))
    /\ ProgramsHold(c.docs.toolpaths, ProgramsFromIndex(c), c.docs.post)
ProjectionsHold(c, review) ==
    LET d == c.docs
        programs == ProgramsFromIndex(c)
    IN  /\ SetupsInOneVisit(d.toolpaths, programs)
        /\ CuttingVerified(d.toolpaths, d.operations)
        /\ d = Derived(review, d.toolpaths, programs, d.profile, d.post)
ManifestRebuilds(c, review) ==
    c.manifest = Manifest(review, c.docs, c.manifest.provenance)

read_and_verify_cam_candidate_package(c, review, expectedSource, allowTestOnly) ==
    /\ VerifiedBase(review)
    /\ EnvelopeHolds(c)
    /\ ProvenanceAccepted(c, expectedSource, allowTestOnly, TRUE)
    /\ ManifestShape(c.manifest)
    /\ DocumentsParse(c)
    /\ CandidateSourcesHold(c, review)
    /\ ProfilesHold(c, allowTestOnly)
    /\ MembersHold(c)
    /\ ProjectionsHold(c, review)
    /\ ManifestRebuilds(c, review)

-----------------------------------------------------------------------------
(***************************************************************************)
(* Building: build_cam_candidate_bundle, and the two programs that call it.*)
(***************************************************************************)
Assembled(review, toolpaths, programs, profile, identity) ==
    LET docs == Derived(review, toolpaths, programs, profile, profile.payload.post)
    IN  [docs |-> docs,
         manifest |-> Manifest(review, docs, BuildProvenance(ResolvedProducer(identity)))]

CanBuild(review, toolpaths, programs, profile, identity) ==
    /\ VerifiedBase(review) /\ TrustedMachine(review)
    /\ ToolpathsBound(toolpaths, review)
    /\ CuttingVerified(toolpaths, OperationsDocument(review))
    /\ ProfileBound(toolpaths, profile)
    /\ ProducerResolves(identity, profile.payload.class = "TEST_ONLY")
    /\ ProgramsHold(toolpaths, programs, profile.payload.post)
    /\ SetupsInOneVisit(toolpaths, programs)
    /\ read_and_verify_cam_candidate_package(
            Assembled(review, toolpaths, programs, profile, identity), review,
            ResolvedProducer(identity).source, profile.payload.class = "TEST_ONLY")

ToolpathsFor(review, profile) ==
    toolpaths_generate(review, build_execution_context(profile.payload))
ProgramsFor(review, profile) == postprocess(profile.payload.post, ToolpathsFor(review, profile))
Generates(review, profile) ==
    /\ CanGenerate(review, build_execution_context(profile.payload))
    /\ CanPostprocess(profile.payload.post, ToolpathsFor(review, profile))
BuildOf(review, profile, identity) ==
    Assembled(review, ToolpathsFor(review, profile), ProgramsFor(review, profile), profile, identity)

CompilerAccepts(profile, identity, allowTestOnly) ==
    LET testOnly == profile.payload.class = "TEST_ONLY"
    IN  IF identity = NoIdentity THEN allowTestOnly /\ testOnly
        ELSE IdentityParses(identity, testOnly) /\ (testOnly \/ IsLocalSource(identity))
CanCompile(review, profile, identity, allowTestOnly) ==
    /\ VerifiedBase(review)
    /\ load_production_machine_profile(profile, allowTestOnly)
    /\ CompilerAccepts(profile, identity, allowTestOnly)
    /\ Generates(review, profile)
    /\ CanBuild(review, ToolpathsFor(review, profile), ProgramsFor(review, profile), profile, identity)
    /\ read_and_verify_cam_candidate_package(
            BuildOf(review, profile, identity), review,
            ResolvedProducer(identity).source, allowTestOnly)

\* The worker builds from the package it has just made, as the build it is.
WorkerBase(review) == review.cam /\ review.unblocked
CanWorkerBuild(review, profile, engine) ==
    LET testOnly == profile.payload.class = "TEST_ONLY"
        identity == IdentityOfEngine(engine)
    IN  /\ WorkerBase(review)
        /\ engine = review.engine
        /\ IdentityParses(identity, testOnly)
        /\ Generates(review, profile)
        /\ CuttingVerified(ToolpathsFor(review, profile), OperationsDocument(review))
        /\ CanBuild(review, ToolpathsFor(review, profile), ProgramsFor(review, profile),
                    profile, identity)

\* The evidence the worker publishes: the package's documents, no other, and the
\* programs in their order.
PublicEvidence(c) ==
    /\ DOMAIN c.docs = {"toolpaths", "index", "instructions", "report", "backplot", "profile",
                        "start", "operations", "source", "post", "programs"}
    /\ \A n \in DOMAIN c.docs.programs : c.docs.programs[n].order = n

-----------------------------------------------------------------------------
(***************************************************************************)
(* The workshop's authoring.  Both commands refuse to overwrite a file.    *)
(***************************************************************************)
WritesNewFile(file) == file = NoFile

InitDraft(review) ==
    /\ WritesNewFile(draft) /\ deployed = NoFile
    /\ VerifiedBase(review) /\ TrustedMachine(review)
    /\ draft' = [slips |-> 0] @@ build_profile_draft(review)
    /\ UNCHANGED <<deployed, receipts, candidate, exchanged, answer>>

\* The sections do not depend on each other: one order of filling them is enough.
Edit(section, option) ==
    /\ draft.open # {} /\ section = CHOOSE s \in draft.open : TRUE
    /\ draft.slips + option.slips <= MaxSlips
    /\ draft' = [draft EXCEPT !.payload = (section :> option.rows) @@ @,
                              !.open = @ \ {section},
                              !.slips = @ + option.slips]
    /\ UNCHANGED <<deployed, receipts, candidate, exchanged, answer>>

FinalizeCommand(review) ==
    /\ draft # NoFile /\ WritesNewFile(deployed)
    /\ CanFinalize(review, draft) = TRUE
    /\ deployed' = finalize_profile_draft(review, draft)
    /\ receipts' = receipts \cup {<<review.sha, deployed'>>}
    /\ UNCHANGED <<draft, candidate, exchanged, answer>>

\* A profile file that came another way.
PlaceProfile(document) ==
    /\ draft = NoFile /\ deployed = NoFile
    /\ deployed' = document
    /\ UNCHANGED <<draft, receipts, candidate, exchanged, answer>>

ValidateCommand(review) ==
    /\ deployed # NoFile
    /\ validate_profile_bytes(review, deployed) = TRUE
    /\ receipts' = receipts \cup {<<review.sha, deployed>>}
    /\ UNCHANGED <<draft, deployed, candidate, exchanged, answer>>

Compile(review, identity, allowTestOnly) ==
    /\ deployed # NoFile /\ WritesNewFile(candidate)
    /\ CanCompile(review, deployed, identity, allowTestOnly) = TRUE
    /\ candidate' = BuildOf(review, deployed, identity)
    /\ UNCHANGED <<draft, deployed, receipts, exchanged, answer>>

WorkerBuild(review, engine) ==
    /\ deployed # NoFile /\ candidate = NoFile
    /\ load_production_machine_profile(deployed, FALSE) = TRUE
    /\ CanWorkerBuild(review, deployed, engine) = TRUE
    /\ PublicEvidence(BuildOf(review, deployed, IdentityOfEngine(engine)))
    /\ candidate' = BuildOf(review, deployed, IdentityOfEngine(engine))
    /\ UNCHANGED <<draft, deployed, receipts, exchanged, answer>>

-----------------------------------------------------------------------------
(***************************************************************************)
(* The package on its way: a document of another build is put in, the      *)
(* toolpaths are drawn again by hand, and everything is sealed once more.  *)
(***************************************************************************)
SiblingBuild ==
    [s \in Siblings |-> BuildOf(ReviewNamed(s.review), s.profile, s.identity)]

\* What the other builds are: they were generated and passed their own verification.
ASSUME SiblingsWereBuilt ==
    \A s \in Siblings :
        LET review == ReviewNamed(s.review)
        IN  /\ review \in Reviews /\ Generates(review, s.profile)
            /\ CanBuild(review, ToolpathsFor(review, s.profile),
                        ProgramsFor(review, s.profile), s.profile, s.identity)

BaseReview(c) == CHOOSE r \in Reviews : BaseBinding(r) = c.manifest.base
SealedCandidate(review, docs) ==
    [docs |-> docs, manifest |-> Manifest(review, docs, candidate.manifest.provenance)]

Substitute(part, s) ==
    /\ candidate # NoFile /\ answer = Unjudged
    /\ Cardinality(exchanged) < MaxSubstituted /\ part \notin exchanged
    /\ candidate' = SealedCandidate(BaseReview(candidate),
                                    [candidate.docs EXCEPT ![part] = SiblingBuild[s].docs[part]])
    /\ candidate'.docs # candidate.docs
    /\ exchanged' = exchanged \cup {part}
    /\ UNCHANGED <<draft, deployed, receipts, answer>>

\* The index, instructions and reports are made again to fit.
Rederive(review) ==
    /\ candidate # NoFile /\ answer = Unjudged /\ exchanged # {}
    /\ LET d == candidate.docs
       IN  /\ Len(d.programs) = Len(d.toolpaths.programs)
           /\ candidate' = SealedCandidate(review, Derived(review, d.toolpaths, d.programs,
                                                   d.profile, d.post))
    /\ UNCHANGED <<draft, deployed, receipts, exchanged, answer>>

Redrawings(toolpaths) ==
    {[toolpaths EXCEPT !.motion = "redrawn"], [toolpaths EXCEPT !.motion = "broken"],
     [toolpaths EXCEPT !.context.rpm = <<1, 2>>],
     [field \in DOMAIN toolpaths \cup {"note"} |->
        IF field = "note" THEN 1 ELSE toolpaths[field]]}
Redraw(toolpaths) ==
    /\ answer = Unjudged /\ exchanged = {}
    /\ LET d == candidate.docs
       IN  candidate' = SealedCandidate(BaseReview(candidate),
                                        Derived(BaseReview(candidate), toolpaths,
                                                postprocess(d.post, toolpaths), d.profile, d.post))
    /\ exchanged' = {"toolpaths"}
    /\ UNCHANGED <<draft, deployed, receipts, answer>>

\* verify_cam_candidate: the recipient names the source tree it expects of the
\* producer and of its own verifier.  A package that does not verify changes nothing.
\* (It names the candidate's digest too; it may have been told that of any of them.)
verify_cam_candidate(c, review, expectedSource, expectedVerifier, allowTestOnly) ==
    /\ expectedVerifier = LocalSource.source
    /\ read_and_verify_cam_candidate_package(c, review, expectedSource, allowTestOnly)
Accept(review, expectedSource, expectedVerifier, allowTestOnly) ==
    /\ candidate # NoFile /\ answer = Unjudged
    /\ verify_cam_candidate(candidate, review, expectedSource, expectedVerifier,
                            allowTestOnly) = TRUE
    /\ answer' = [by |-> review.sha, test |-> allowTestOnly, accepted |-> TRUE]
    /\ UNCHANGED <<draft, deployed, receipts, candidate, exchanged>>

-----------------------------------------------------------------------------
CandidateInit ==
    /\ draft = NoFile /\ deployed = NoFile /\ receipts = {}
    /\ candidate = NoFile /\ exchanged = {} /\ answer = Unjudged

CandidateNext ==
    \/ \E r \in Reviews :
            \/ InitDraft(r) \/ FinalizeCommand(r) \/ ValidateCommand(r)
            \/ \E i \in Identities \cup {NoIdentity}, t \in BOOLEAN : Compile(r, i, t)
            \/ \E other \in Reviews : WorkerBuild(r, other.engine)
            \/ \E i, v \in Identities, t \in BOOLEAN : Accept(r, i.source, v.source, t)
    \/ \E section \in Sections :
            draft # NoFile /\ \E option \in Edits[draft.review][section] : Edit(section, option)
    \/ \E d \in HandWritten : PlaceProfile(d)
    \/ \E part \in {"operations", "toolpaths", "programs", "profile", "post", "index",
                    "instructions", "report"}, s \in Siblings :
            Substitute(part, s)
    \/ \E r \in {q \in Reviews : q.cam} : Rederive(r)
    \/ candidate # NoFile
        /\ \E toolpaths \in Redrawings(candidate.docs.toolpaths) : Redraw(toolpaths)

CandidateSpec == CandidateInit /\ [][CandidateNext]_candidateVars

-----------------------------------------------------------------------------
(***************************************************************************)
(* Properties.                                                             *)
(***************************************************************************)
\* "Success means the profile is structurally and semantically ready to generate
\* a CAM candidate for that exact review ZIP" (docs/CAM_CANDIDATE_WORKSHOP_
\* HANDOFF.md): whatever finalize and validate_profile_bytes pass, the compiler,
\* which checks the profile in its own way, then builds.
ReadyProfilesCompile ==
    \A ready \in receipts : \E i \in Identities :
        CanCompile(ReviewNamed(ready[1]), ready[2], i, FALSE)

CutAsReviewed(review, d, o) ==
    LET facts == d.profile.payload
        by == {p \in Rows(d.programs) : o.id \in p.operations}
    IN  /\ Cardinality(by) = 1
        /\ \A p \in by :
            /\ p.setup = o.setup
            /\ \E s \in facts.setups :
                s.id = o.setup /\ s.hash = SetupNamed(review, o.setup)
                    /\ p.wcs = s.wcs /\ p.origin = s.origin
            /\ \E t \in facts.tools :
                t.source = o.tool /\ p.number = t.number /\ p.offset = t.offset
            /\ \E r \in facts.recipes : r.kind = o.kind /\ p.rpm = r.rpm
OperatorIsTold(d, s) ==
    \E row \in d.instructions.setups :
        row.setup = s.id /\ row.origin = s.origin /\ row.material = MaterialBinding(s)
            /\ row.orders = {p.order : p \in {q \in Rows(d.programs) : q.setup = s.id}}

\* What read_and_verify_cam_candidate_package accepts, however its documents came
\* together, makes the machine do what was reviewed with the facts its workshop
\* stated: each reviewed operation is cut once, where the profile says its sheet
\* lies, with the tool the profile maps it to, and the instructions tell the
\* operator the same.
WorkshopRunsWhatWasReviewed ==
    answer.accepted =>
        LET review == ReviewNamed(answer.by)
            d == candidate.docs
        IN  /\ \A o \in review.operations : CutAsReviewed(review, d, o)
            /\ \A s \in d.profile.payload.setups : OperatorIsTold(d, s)
            /\ answer.test \/ d.profile.payload.acceptance.status = "WORKSHOP_ACCEPTED"
=============================================================================
