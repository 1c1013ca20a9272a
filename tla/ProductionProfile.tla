-------------------------- MODULE ProductionProfile --------------------------
(***************************************************************************)
(* The production machine profile: the document in which a workshop states *)
(* the facts about its machine, tools, recipes and sheets that a cutting   *)
(* candidate needs (custombuild_manufacturing.production_machine_profile), *)
(* and the authoring tool that drafts, finalizes and validates it against  *)
(* one design review (scripts/production_machine_profile.py).              *)
(*                                                                         *)
(* A digest is the value it is taken of.  A review is                      *)
(*   [sha, sound, cam, unblocked, design, machine, engine,                 *)
(*    setups: sequence of [id, stock, sheet, side, material],              *)
(*    operations: set of [id, setup, tool, kind, through, release],        *)
(*    tools: set of [id, version]]                                         *)
(* sound: the whole package verifies (ReviewPackage); cam: it has          *)
(* operations; engine: the build that made it.  A profile payload is       *)
(*   class; acceptance [status, words];                                    *)
(*   machine [source, id, controller, travel, rpm, post];                  *)
(*   post [machine, controller, travel, rpm, offsets, attested];           *)
(*   setups: set of [id, stock, sheet, side, source, hash, material,       *)
(*           evidence, wcs, origin, allowance];                            *)
(*   tools: set of [source, hash, id, number, offset, length, geometry,    *)
(*           table];                                                       *)
(*   recipes: set of [id, machine, material, tool, kind, rpm, step,        *)
(*           overtravel, accuracy].                                        *)
(***************************************************************************)
EXTENDS Integers, Sequences, FiniteSets

CONSTANT LibraryMachines     \* the validation machines the software knows

Rows(sequence) == {sequence[i] : i \in DOMAIN sequence}
Unique(rows, Key(_)) == \A a, b \in rows : Key(a) = Key(b) => a = b

-----------------------------------------------------------------------------
\* The verified review behind a draft, a candidate or a verification.
VerifiedBase(review) == review.sound /\ review.cam
TrustedMachine(review) == review.machine \in LibraryMachines
SetupNamed(review, id) == CHOOSE s \in Rows(review.setups) : s.id = id
OperationsDocument(review) ==
    [design |-> review.design, machine |-> review.machine, setups |-> review.setups,
     operations |-> review.operations, tools |-> review.tools]
HasThroughCut(review, id) == \E o \in review.operations : o.setup = id /\ o.through
OperationTools(review) == {o.tool : o \in review.operations}

\* One recipe slot per sheet, source tool and kind of operation: the actual
\* materials are not known yet.
RecipeRequirements(review) ==
    {LET s == SetupNamed(review, o.setup)
     IN  <<s.stock, s.sheet, s.material, o.tool, o.kind>> : o \in review.operations}
Requirements(review) ==
    [design |-> review.design, recipes |-> RecipeRequirements(review),
     machine |-> review.machine]

\* What a draft copies from the review.
SetupDraft(review) ==
    {[id |-> s.id, stock |-> s.stock, sheet |-> s.sheet, side |-> s.side,
      source |-> s.material, hash |-> s] : s \in Rows(review.setups)}
ToolDraft(review) == {[source |-> t.id, hash |-> t] : t \in review.tools}
RecipeDraft(review) == {[kind |-> need[5]] : need \in RecipeRequirements(review)}
PostprocessorDraft == [controller |-> "linuxcnc"]
Computed == [computed |-> "POSTPROCESSOR_PROFILE_SHA256"]
MachineDraft(review) ==
    [source |-> review.machine, controller |-> "linuxcnc", post |-> Computed]

Sections == {"acceptance", "machine", "post", "setups", "tools", "recipes"}

build_profile_draft(review) ==
    [review |-> review.sha, requirements |-> Requirements(review), open |-> Sections,
     payload |-> [class |-> "SERVER_OWNED", acceptance |-> <<>>,
                  machine |-> MachineDraft(review), post |-> PostprocessorDraft,
                  setups |-> SetupDraft(review), tools |-> ToolDraft(review),
                  recipes |-> RecipeDraft(review)]]

-----------------------------------------------------------------------------
(***************************************************************************)
(* load_production_machine_profile                                         *)
(***************************************************************************)
\* The bytes: one closed object, in canonical form, with its own digest.
DocumentParses(document) == document.form = "canonical"
DigestHolds(document) == document.digest = document.payload

\* The word scan passes over the catalogue names a profile only cites.
PlaceholderFree(payload) == payload.acceptance.words = "exact"
AcceptanceHolds(payload, allowTestOnly) ==
    \/ /\ payload.class = "TEST_ONLY" /\ payload.acceptance.status = "TEST_ONLY"
       /\ allowTestOnly
    \/ /\ payload.class = "SERVER_OWNED"
       /\ payload.acceptance.status = "WORKSHOP_ACCEPTED"
       /\ PlaceholderFree(payload)

\* Each row is read into its type: exactly its fields, and numbers in their range.
SetupFields == {"id", "stock", "sheet", "side", "source", "hash", "material", "evidence", "wcs",
                "origin", "allowance"}
ToolFields == {"source", "hash", "id", "number", "offset", "length", "geometry", "table"}
RecipeFields == {"id", "machine", "material", "tool", "kind", "rpm", "step", "overtravel",
                 "accuracy"}
MachineParses(machine) ==
    /\ machine.controller = "linuxcnc"
    /\ machine.rpm[1] \in Nat \ {0} /\ machine.rpm[2] \in Nat /\ machine.rpm[1] <= machine.rpm[2]
SetupParses(setup) ==
    /\ DOMAIN setup = SetupFields
    /\ setup.id = <<setup.stock, setup.sheet, setup.side>> /\ setup.allowance >= 0
ToolParses(tool) ==
    /\ DOMAIN tool = ToolFields
    /\ tool.geometry \in {"end_mill", "drill"} /\ tool.number >= 1 /\ tool.length >= 1
RecipeParses(recipe) ==
    /\ DOMAIN recipe = RecipeFields
    /\ recipe.kind \in {"pocket", "drill", "contour"}
    /\ recipe.step >= 1 /\ recipe.accuracy >= 1 /\ recipe.overtravel >= 0
    /\ recipe.kind = "contour" => recipe.overtravel # 0

MaterialsCovered(payload) ==
    {s.material : s \in payload.setups} = {r.material : r \in payload.recipes}
ToolsCovered(payload) ==
    {t.id : t \in payload.tools} = {r.tool : r \in payload.recipes}
RecipeSuitsTool(recipe, tool) ==
    /\ recipe.step <= tool.length
    /\ tool.geometry = (IF recipe.kind = "drill" THEN "drill" ELSE "end_mill")
AllowanceCoversContours(setup, recipes) ==
    setup.allowance > 0 =>
        \A r \in recipes : r.kind = "contour" /\ r.material = setup.material =>
            r.overtravel + r.accuracy <= setup.allowance

build_execution_context(payload) ==
    [source |-> payload.machine.source, machine |-> payload.machine.id,
     controller |-> payload.machine.controller, travel |-> payload.machine.travel,
     rpm |-> payload.machine.rpm, setups |-> payload.setups, tools |-> payload.tools,
     recipes |-> payload.recipes]

\* ProductionExecutionContext: what the machine, sheets, tools and recipes must
\* agree on before any motion is planned.
SheetMaterialsAgree(setups) ==
    \A s, t \in setups :
        s.stock = t.stock /\ s.sheet = t.sheet =>
            <<s.source, s.material, s.evidence>> = <<t.source, t.material, t.evidence>>
ContextAgrees(context) ==
    /\ context.setups # {} /\ context.tools # {} /\ context.recipes # {}
    /\ Unique(context.setups, LAMBDA s : s.id)
    /\ Unique(context.tools, LAMBDA t : t.id) /\ Unique(context.tools, LAMBDA t : t.source)
    /\ Unique(context.tools, LAMBDA t : t.number) /\ Unique(context.tools, LAMBDA t : t.offset)
    /\ Cardinality({t.table : t \in context.tools}) = 1
    /\ Unique(context.recipes, LAMBDA r : r.id)
    /\ Unique(context.recipes, LAMBDA r : <<r.material, r.tool, r.kind>>)
    /\ \A s \in context.setups : s.origin \in 0 .. context.travel
    /\ SheetMaterialsAgree(context.setups)
    /\ \A r \in context.recipes :
            /\ r.machine = context.machine
            /\ r.rpm \in context.rpm[1] .. context.rpm[2]

PayloadParses(payload) ==
    /\ MachineParses(payload.machine) /\ payload.post.attested
    /\ \A s \in payload.setups : SetupParses(s)
    /\ \A t \in payload.tools : ToolParses(t)
    /\ \A r \in payload.recipes : RecipeParses(r)

\* The postprocessor's own profile repeats the machine; both must say the same.
CrossChecked(payload) ==
    LET post == payload.post
        machine == payload.machine
    IN  /\ machine.post = post
        /\ post.machine = machine.id /\ post.controller = machine.controller
        /\ post.rpm = machine.rpm /\ post.travel = machine.travel
        /\ \A s \in payload.setups : s.wcs \in DOMAIN post.offsets /\ post.offsets[s.wcs] = s.origin

ExecutionContextHolds(payload) ==
    /\ PayloadParses(payload)
    /\ MaterialsCovered(payload) /\ ToolsCovered(payload)
    /\ \A r \in payload.recipes : \A t \in payload.tools : r.tool = t.id => RecipeSuitsTool(r, t)
    /\ \A s \in payload.setups : AllowanceCoversContours(s, payload.recipes)
    /\ ContextAgrees(build_execution_context(payload))
    /\ CrossChecked(payload)

load_production_machine_profile(document, allowTestOnly) ==
    /\ DocumentParses(document) /\ DigestHolds(document)
    /\ AcceptanceHolds(document.payload, allowTestOnly)
    /\ ExecutionContextHolds(document.payload)

-----------------------------------------------------------------------------
(***************************************************************************)
(* Planning and postprocessing, as far as they depend on the profile; the  *)
(* motion itself is ToolpathPlan, ToolpathVerification, MachineProgram.    *)
(***************************************************************************)
BoundTool(context, source) == CHOOSE t \in context.tools : t.source = source
BoundSetup(context, id) == CHOOSE s \in context.setups : s.id = id
RecipesFor(context, review, operation) ==
    {r \in context.recipes :
        /\ r.material = BoundSetup(context, operation.setup).material
        /\ r.tool = BoundTool(context, operation.tool).id
        /\ r.kind = operation.kind}
RecipeFor(context, review, operation) ==
    CHOOSE r \in RecipesFor(context, review, operation) : TRUE

ReviewBound(review, context) ==
    /\ context.source = review.machine /\ TrustedMachine(review)
    /\ {s.id : s \in context.setups} = {s.id : s \in Rows(review.setups)}
    /\ \A s \in context.setups :
            /\ s.hash = SetupNamed(review, s.id) /\ s.source = s.hash.material
            /\ HasThroughCut(review, s.id) <=> s.allowance > 0
    /\ {t.id : t \in review.tools} = OperationTools(review)
    /\ {t.source : t \in context.tools} = OperationTools(review)
    /\ \A t \in context.tools : t.hash \in review.tools /\ t.hash.id = t.source

OperationsDescribed(context, review, operation) ==
    /\ RecipesFor(context, review, operation) # {}
    /\ LET r == RecipeFor(context, review, operation)
       IN  operation.through =>
                /\ r.overtravel > r.accuracy
                /\ r.overtravel + r.accuracy <= BoundSetup(context, operation.setup).allowance

\* The programs: one for each setup, source tool, spindle speed and phase, in
\* the order of the setups, the release of a sheet last.
RecipeGroup(context, review, o) ==
    <<CHOOSE i \in DOMAIN review.setups : review.setups[i].id = o.setup,
      IF o.release THEN 1 ELSE 0, o.tool, RecipeFor(context, review, o).rpm>>
KeyBefore(a, b) ==
    \E i \in 1 .. 4 : a[i] < b[i] /\ \A j \in 1 .. i - 1 : a[j] = b[j]
Groups(context, review) ==
    LET keys == {RecipeGroup(context, review, o) : o \in review.operations}
    IN  [n \in 1 .. Cardinality(keys) |->
            CHOOSE k \in keys : Cardinality({j \in keys : KeyBefore(j, k)}) = n - 1]
SheetHeldThroughout(groups, review) ==
    \A i, j \in DOMAIN groups :
        LET s == review.setups[groups[i][1]]
            t == review.setups[groups[j][1]]
        IN  i < j /\ groups[i][2] = 1 => <<s.stock, s.sheet>> # <<t.stock, t.sheet>>
PlannedPrograms(context, review) ==
    LET groups == Groups(context, review)
    IN  [n \in DOMAIN groups |->
            [order |-> n, setup |-> review.setups[groups[n][1]].id,
             tool |-> BoundTool(context, groups[n][3]).id, rpm |-> groups[n][4],
             operations |-> {o.id : o \in {p \in review.operations :
                                            RecipeGroup(context, review, p) = groups[n]}},
             release |-> groups[n][2] = 1]]

CanGenerate(review, context) ==
    /\ ReviewBound(review, context)
    /\ \A o \in review.operations : OperationsDescribed(context, review, o)
    /\ SheetHeldThroughout(Groups(context, review), review)
toolpaths_generate(review, context) ==
    [design |-> review.design, operations |-> OperationsDocument(review), context |-> context,
     programs |-> PlannedPrograms(context, review), motion |-> "planned"]

\* A machine program names the controller's own rows: the offset table of the
\* work coordinate system and the tool table.
CanPostprocess(post, document) ==
    \A s \in document.context.setups :
        s.wcs \in DOMAIN post.offsets /\ post.offsets[s.wcs] = s.origin
postprocess(post, document) ==
    [n \in DOMAIN document.programs |->
        LET p == document.programs[n]
            s == BoundSetup(document.context, p.setup)
            t == CHOOSE tool \in document.context.tools : tool.id = p.tool
        IN  [order |-> p.order, setup |-> p.setup, tool |-> p.tool, source |-> document,
             post |-> post, wcs |-> s.wcs, origin |-> post.offsets[s.wcs],
             number |-> t.number, offset |-> t.offset, rpm |-> p.rpm,
             operations |-> p.operations]]

-----------------------------------------------------------------------------
(***************************************************************************)
(* Validation against one review, and finalizing a draft.                  *)
(***************************************************************************)
Unresolved(draft) == draft.open

MachineBound(review, payload) == payload.machine.source = review.machine
SetupRowsBound(review, payload) ==
    /\ {s.id : s \in payload.setups} = {s.id : s \in Rows(review.setups)}
    /\ Cardinality(payload.setups) = Len(review.setups)
    /\ \A s \in payload.setups :
            s.hash = SetupNamed(review, s.id) /\ s.source = s.hash.material
ToolsBound(review, payload) ==
    /\ {t.source : t \in payload.tools} = {t.id : t \in review.tools}
    /\ Cardinality(payload.tools) = Cardinality(review.tools)
    /\ \A t \in payload.tools : t.hash \in review.tools /\ t.hash.id = t.source
RecipeKeys(review, payload) ==
    {<<(CHOOSE s \in payload.setups : s.id = o.setup).material,
       (CHOOSE t \in payload.tools : t.source = o.tool).id, o.kind>> : o \in review.operations}
RecipesBound(review, payload) ==
    RecipeKeys(review, payload) = {<<r.material, r.tool, r.kind>> : r \in payload.recipes}
BindingHolds(review, payload) ==
    /\ MachineBound(review, payload) /\ SetupRowsBound(review, payload)
    /\ ToolsBound(review, payload) /\ RecipesBound(review, payload)

ShapeHolds(document) == document.form # "unknown_key"
PostHashHolds(payload) == payload.machine.post = payload.post

\* Mutant: the new profile is not tried.
NoDryRun(review, document) == TRUE

\* The profile is loaded and used once, as the compiler will.
DryRun(review, document) ==
    /\ load_production_machine_profile(document, FALSE)
    /\ LET context == build_execution_context(document.payload)
       IN  /\ CanGenerate(review, context)
           /\ CanPostprocess(document.payload.post,
                             toolpaths_generate(review, context))

validate_profile_bytes(review, document) ==
    /\ VerifiedBase(review)
    /\ ShapeHolds(document) /\ DocumentParses(document) /\ DigestHolds(document)
    /\ PostHashHolds(document.payload)
    /\ BindingHolds(review, document.payload)
    /\ DryRun(review, document)

Resolved(payload) ==
    [payload EXCEPT !.machine = [@ EXCEPT !.post = payload.post]]
ProductionDocument(payload) == [payload |-> payload, digest |-> payload, form |-> "canonical"]
DraftHolds(review, draft) ==
    /\ VerifiedBase(review) /\ TrustedMachine(review)
    /\ draft.review = review.sha /\ draft.requirements = Requirements(review)
    /\ Unresolved(draft) = {} /\ draft.payload.machine.post = Computed
finalize_profile_draft(review, draft) == ProductionDocument(Resolved(draft.payload))
CanFinalize(review, draft) ==
    /\ DraftHolds(review, draft)
    /\ validate_profile_bytes(review, finalize_profile_draft(review, draft))
=============================================================================
