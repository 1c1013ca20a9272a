---------------------------- MODULE ReviewPackage ----------------------------
(***************************************************************************)
(* The design-review package: build_production_bundle, which turns a       *)
(* design, its stock and its machine into one ZIP or refuses, and          *)
(* read_and_verify_package, which rebuilds everything a ZIP says from the  *)
(* frozen inputs inside it.  The ZIP carries no signature, so a package    *)
(* can be put together from the documents of two builds and hashed again;  *)
(* what the verifier accepts must still be one consistent package.         *)
(*                                                                         *)
(* Documents that one function writes are one group here: "core" is the    *)
(* result summary, BOM, drawings and manufacturing intent, "cam" the       *)
(* operations with everything derived from them.  "caller" are the three   *)
(* documents of the caller whose content is checked, "enclosed" the others *)
(* (manuals, labels, PDF lists, construction report), which the package    *)
(* takes along unread; "fcstd" is the FreeCAD project, which only has to   *)
(* be there.  The digest of a document is the document itself.             *)
(***************************************************************************)
EXTENDS SheetPlan

CONSTANTS
    Requests,          \* the calls of build_production_bundle
    Spliced,           \* the requests whose packages may be mixed
    ReferenceMachines, \* the machine profiles the verifier knows
    MaxExchanged       \* documents of another build in one package

VARIABLES
    request,           \* the call
    parcel,            \* the package built or received, Nothing before
    verdict            \* "none", a blocker, or what was made of the parcel

\* What the constructors of model.py and adapters.py let through.  Lengths are whole
\* micrometres.  Every part has an outline, and only dados have open ends.
FeatureKinds == Holes \cup {"POCKET", "GROOVE", "RABBET", "INNER_CONTOUR", "OUTER_CONTOUR",
                            "ENGRAVE", "LABEL"}
IsRect(r) == r = Rect(r.x, r.y, r.w, r.l) /\ {r.x, r.y, r.w, r.l} \subseteq Int
IsFeature(f) ==
    /\ {"kind", "side", "rect", "x", "y", "dia", "count", "pitch", "open", "strategy", "relief"}
            \subseteq DOMAIN f
    /\ f.kind \in FeatureKinds /\ f.side \in {"A", "B", "EDGE"} /\ f.through \in BOOLEAN
    /\ {f.id, f.x, f.y} \subseteq Int /\ IsRect(f.rect)
    /\ {f.dia, f.pitch, f.relief, f.depth} \subseteq Nat /\ f.count \in Nat \ {0}
    /\ IsRelease(f) => f.open = {}
IsPart(p) ==
    /\ {"id", "name", "material", "w", "l", "thickness", "quantity", "grain", "rotate",
        "features"} \subseteq DOMAIN p
    /\ p.id \in Int /\ {p.w, p.l, p.thickness, p.quantity} \subseteq Nat \ {0}
    /\ IsFiniteSet(p.features) /\ p.features # {}
    /\ \A f \in p.features : IsFeature(f)
    /\ \A f, g \in p.features : f.id = g.id => f = g
IsDesign(d) ==
    /\ d.id # 0 /\ IsFiniteSet(d.parts) /\ d.parts # {}
    /\ \A p \in d.parts : IsPart(p)
    /\ \A p, q \in d.parts : p.id = q.id => p = q
IsStock(s) ==
    /\ {"id", "w", "l", "quantity", "margin", "kerf", "material", "thickness", "grain", "rotate",
        "defects", "clamps"} \subseteq DOMAIN s
    /\ s.id \in Int \ {0} /\ {s.w, s.l, s.quantity} \subseteq Nat \ {0}
    /\ {s.margin, s.kerf} \subseteq Nat
    /\ IsFiniteSet(s.defects) /\ IsFiniteSet(s.clamps)
    /\ \A zone \in s.defects \cup s.clamps : IsRect(zone)
IsMachine(m) ==
    /\ \A zone \in m.keepouts : IsRect(zone)
    /\ IsFiniteSet(m.tools) /\ \A t \in m.tools : {t.id, t.dia} \subseteq Int
    /\ \A t, u \in m.tools : t.id = u.id => t = u
IsRegistration(g) ==
    /\ {g.pin, g.tolerance} \subseteq Nat /\ IsFiniteSet(g.points)
    /\ \A pin \in g.points : {pin[1], pin[2]} \subseteq Int

ASSUME CallsAreTyped ==
    \A r \in Requests :
        /\ IsDesign(r.design) /\ IsMachine(r.machine)
        /\ r.freecad \in BOOLEAN /\ r.program \in BOOLEAN
        /\ IsFiniteSet(r.stocks) /\ \A s \in r.stocks : IsStock(s)
        /\ IsFiniteSet(DOMAIN r.registrations)
        /\ \A k \in DOMAIN r.registrations : IsRegistration(r.registrations[k])

packageVars == <<request, parcel, verdict>>

Nothing == [none |-> TRUE]

\* _SAFE_CALLER_ADDITIONAL_ARTIFACTS without the statement, the provenance and the
\* furniture source: identities (path, role and media type) that nobody reads.
SafeCallerArtifacts ==
    {"part-drawings.pdf", "assembly-manual.pdf", "assembly-readiness.json", "bom.pdf",
     "hardware-list.csv", "part-labels.pdf", "measurement-protocol.pdf",
     "construction-report.json", "construction-report.pdf"}

-----------------------------------------------------------------------------
\* What the frozen design says about its joints.
IsDado(joint) == joint.type = "dado" /\ joint.class # "captive_inset_back_groove"

\* joint_retention_contract_is_structurally_complete
ContractComplete(joint, design) ==
    LET c == design.contract
        members == {p \in design.parts : p.id \in joint.members}
    IN  /\ c # Nothing /\ joint.contract = c
        /\ joint.class = "load_bearing_carcass_dado"
        /\ c.mechanical
        /\ c.capacity >= c.rated * c.factor
        /\ c.rated >= design.load /\ c.factor >= design.factor
        /\ joint.hardware = c.hardware
        /\ Cardinality(members) = 2
        /\ \A p \in members : p.thickness \in c.thicknesses /\ p.material \in c.materials

dado_retention_evidence_missing(design) ==
    \E joint \in design.joints : IsDado(joint) /\ ~ContractComplete(joint, design)
back_panel_retention_evidence_missing(design) ==
    /\ design.back # "none"
    /\ ~(design.back = "inset_groove" /\ design.captive)
RetentionCodes(design) ==
    {code \in {"DADO_RETENTION", "BACK_PANEL_RETENTION"} :
        IF code = "DADO_RETENTION" THEN dado_retention_evidence_missing(design)
                                   ELSE back_panel_retention_evidence_missing(design)}
retention_evidence_blocker_code(design) ==
    IF "DADO_RETENTION" \in RetentionCodes(design) THEN "DADO_RETENTION"
    ELSE IF RetentionCodes(design) # {} THEN "BACK_PANEL_RETENTION" ELSE ""

joint_type_has_end_to_end_support(joint, design) ==
    \/ joint.type = "dado"
    \/ joint.type = "shelf_pin" /\ design.adjustable
unsupported_joint_system_issues(design) ==
    {joint.type : joint \in {j \in design.joints :
        /\ ~joint_type_has_end_to_end_support(j, design)
        /\ ~(/\ back_panel_retention_evidence_missing(design)
             /\ design.back = "surface_mounted" /\ j.type = "rabbet" /\ j.onBack)}}

-----------------------------------------------------------------------------
\* The inputs of a build.
StockIdentitiesUnique(stocks) ==
    \A s, t \in stocks : s.id = t.id => s = t
StockOf(id, stocks) == CHOOSE s \in stocks : s.id = id

RegistrationsPlaceable(stocks, registrations) ==
    \A k \in DOMAIN registrations :
        \E s \in stocks :
            /\ s.id = k[1] /\ k[2] \in 0 .. s.quantity - 1
            /\ \A pin \in PinFootprints(registrations[k]) :
                    /\ Within(pin, StockRect(s))
                    /\ \A zone \in s.defects \cup s.clamps : ~Intersects(pin, zone, 0)

PinsOn(id, registrations) ==
    UNION {PinFootprints(registrations[k]) : k \in {i \in DOMAIN registrations : i[1] = id}}
WithPins(stocks, registrations) ==
    {[s EXCEPT !.clamps = @ \cup PinsOn(s.id, registrations)] : s \in stocks}

GrainIssues(parts, stocks) ==
    UNION {stock_grain_binding_issues(PartsOn(s, parts, stocks), s) :
           s \in UsedStocks(parts, stocks)}
SelectionIssues(parts, stocks) ==
    {StockMissing(p) : p \in Unmatched(parts, stocks)} \cup GrainWarnings(parts)

\* _run_dfm_screen, with the layouts it leaves behind.
Layouts(parts, stocks) ==
    [id \in {s.id : s \in UsedStocks(parts, stocks)} |->
        nest(PartsOn(StockOf(id, stocks), parts, stocks), StockOf(id, stocks))]
run_dfm_screen(parts, stocks, machine, layouts) ==
    UNION {Screen(PartsOn(s, parts, stocks), layouts[s.id], s, machine) :
           s \in UsedStocks(parts, stocks)}
CamOf(design, stocks, machine, layouts) ==
    LET operations ==
            UNION {OperationsFor(layouts[s.id], PartsOn(s, design.parts, stocks), s, machine) :
                   s \in UsedStocks(design.parts, stocks)}
    IN  [design |-> design.id, machine |-> machine.id, operations |-> Sequenced(operations),
         setups |-> {<<o.stock, o.sheet, o.side>> : o \in operations},
         tools |-> {o.tool : o \in operations}, layouts |-> layouts]

\* The stocks are planned in order; the first that cannot be planned decides.
SetupBlocker(design, stocks, machine, registrations, layouts) ==
    LET Of(s) == PlanBlocker(layouts[s.id], PartsOn(s, design.parts, stocks), s, machine,
                             registrations)
        stuck == {s \in UsedStocks(design.parts, stocks) : Of(s) # ""}
    IN  IF stuck = {} THEN "" ELSE Of(Least(stuck, LAMBDA s : <<s.id>>))

-----------------------------------------------------------------------------
\* The documents.
stock_selection(parts, stocks) ==
    [stocks |-> stocks,
     assigned |-> [p \in {q.id : q \in parts \ Unmatched(parts, stocks)} |->
                    SelectedStock(CHOOSE q \in parts : q.id = p, stocks).id],
     unmatched |-> {p.id : p \in Unmatched(parts, stocks)}]
generation_plan(machine, stocks, registrations, program) ==
    [machine |-> machine, stocks |-> stocks, registrations |-> registrations, program |-> program]
review_core(design, context) ==
    [design |-> design.id, parts |-> design.parts, joints |-> design.joints,
     project |-> context.project, revision |-> context.revision]
CadOf(design, freecad) ==
    [geometry |-> design.id, requested |-> freecad, step |-> IF freecad THEN design.id ELSE 0]
FreecadProject(design, freecad) == IF freecad THEN [of |-> design.id] ELSE Nothing

generated_design_review_package_status(program) ==
    [cam |-> "VALIDATION_GENERATED", blockers |-> {}, program |-> program]
blocked_design_review_package_status(code) ==
    [cam |-> "BLOCKED", blockers |-> {code}, program |-> FALSE]

\* The workshop's evidence: of all it must bring, the server can bind two kinds
\* of upload; a grain certificate is kept but binds no axis.
stock_grain_binding_required(parts) == Directional(parts) # {}
workshop_evidence(design, evidence) ==
    [wallAnchor |-> "wall_anchor" \in evidence, hardware |-> "hardware" \in evidence,
     grain |-> ~stock_grain_binding_required(design.parts),
     grainCertificate |-> stock_grain_binding_required(design.parts)
                            /\ "material_grain" \in evidence,
     edgeBand |-> design.edgeBand]
software_evidence(dfm, cam, program) ==
    [dfm |-> Blocking(dfm) = {},
     operations |-> IF cam = Nothing THEN 0 ELSE Len(cam.operations),
     setups |-> IF cam = Nothing THEN 0 ELSE Cardinality(cam.setups),
     backplot |-> cam # Nothing, program |-> program]
build_workshop_readiness_report(design, dfm, cam, program, evidence) ==
    [software |-> software_evidence(dfm, cam, program),
     workshop |-> workshop_evidence(design, evidence)]
design_review_ready(report) ==
    LET s == report.software
    IN  s.dfm /\ s.operations > 0 /\ s.setups > 0 /\ s.backplot /\ s.program

\* The cover sheet repeats what the other documents say and lists them all.
supplier_handoff(context, docs) ==
    [context |-> context, machine |-> docs.plan.machine, stocks |-> docs.stock.stocks,
     setups |-> IF docs.cam = Nothing THEN {} ELSE docs.cam.setups,
     status |-> docs.status, ready |-> design_review_ready(docs.readiness),
     unresolved |-> RetentionCodes(docs.spec), warnings |-> docs.dfm \ Blocking(docs.dfm),
     inventory |-> docs]

build_manifest(context, docs, handoff) ==
    [context |-> context, contextHash |-> context, inventory |-> docs, handoff |-> handoff]
Sealed(context, docs) ==
    LET handoff == supplier_handoff(context, docs)
    IN  [manifest |-> build_manifest(context, docs, handoff), docs |-> docs, handoff |-> handoff]

Materials(parts) == {p.material : p \in parts}
FrozenContext(r) ==
    [project |-> r.project, revision |-> r.revision, design |-> r.design.id,
     machine |-> r.machine.id, evidence |-> r.evidence, source |-> r.source,
     materials |-> Materials(r.design.parts)]

-----------------------------------------------------------------------------
\* build_production_bundle.  Blocker is the reason it refuses, "" when it builds;
\* ReviewBlocker the reason its package holds no machining documents.
Selected(r) == WithPins(r.stocks, r.registrations)

ReviewBlocker(r) ==
    LET stocks == Selected(r)
        parts == r.design.parts
    IN  IF Unmatched(parts, stocks) # {} THEN "STOCK_PROFILE_MISSING"
        ELSE IF GrainIssues(parts, stocks) # {} THEN "DFM-GRAIN-001"
        ELSE IF RetentionCodes(r.design) # {} THEN retention_evidence_blocker_code(r.design)
        ELSE SetupBlocker(r.design, stocks, r.machine, r.registrations, Layouts(parts, stocks))

\* review is ReviewBlocker(r); from the screen on it is a matter of retention or
\* of the setup plan.
BlockerOf(r, parts, stocks, review) ==
    IF r.freecad /\ ~r.includeStep THEN "STEP_REQUIRED"
    ELSE IF ~(DOMAIN r.enclosed \subseteq SafeCallerArtifacts) THEN "CALLER_DOCUMENT"
    ELSE IF r.named # <<r.design.id, r.machine.id>> THEN "CONTEXT_MISMATCH"
    ELSE IF r.stocks = {} \/ ~StockIdentitiesUnique(r.stocks) THEN "STOCK_IDENTITY"
    ELSE IF \E s \in r.stocks : s.kerf < MIN_VALIDATION_CONTOUR_KERF THEN "STOCK_KERF"
    ELSE IF ~RegistrationsPlaceable(r.stocks, r.registrations) THEN "REGISTRATION"
    ELSE IF Unmatched(parts, stocks) # {} \/ GrainIssues(parts, stocks) # {}
    THEN IF ~(r.allowBlocked /\ r.includeStep) THEN review
         ELSE IF r.release THEN "RELEASE_DISABLED" ELSE ""
    ELSE IF unsupported_joint_system_issues(r.design) # {} THEN "JOINT_SYSTEM_UNSUPPORTED"
    ELSE IF \E s \in UsedStocks(parts, stocks) : NesterRaises(PartsOn(s, parts, stocks), s)
    THEN "NESTER"
    ELSE IF Blocking(run_dfm_screen(parts, stocks, r.machine, Layouts(parts, stocks))) # {}
    THEN "DFM"
    ELSE IF /\ review # ""
            /\ \/ ~r.allowBlocked
               \/ RetentionCodes(r.design) = {} /\ review # "TWO_SIDED_REGISTRATION_MISSING"
    THEN review
    ELSE IF ~r.includeStep THEN "STATUSLESS"
    ELSE IF r.release THEN "RELEASE_DISABLED" ELSE ""
Blocker(r) == BlockerOf(r, r.design.parts, Selected(r), ReviewBlocker(r))

ReportOf(r, parts, stocks, code) ==
    CASE code = "STOCK_PROFILE_MISSING" -> SelectionIssues(parts, stocks)
      [] code = "DFM-GRAIN-001" -> GrainIssues(parts, stocks)
      [] OTHER -> run_dfm_screen(parts, stocks, r.machine, Layouts(parts, stocks))
DocumentsOf(r, parts, stocks, code, dfm, cam) ==
    [spec |-> r.design, core |-> review_core(r.design, FrozenContext(r)),
     caller |-> [statement |-> r.statement, provenance |-> r.provenance,
                 furniture |-> r.furniture],
     enclosed |-> r.enclosed, fcstd |-> FreecadProject(r.design, r.freecad),
     cad |-> CadOf(r.design, r.freecad), stock |-> stock_selection(parts, stocks),
     plan |-> generation_plan(r.machine, stocks, r.registrations, r.program),
     dfm |-> dfm,
     status |-> IF code = "" THEN generated_design_review_package_status(r.program)
                             ELSE blocked_design_review_package_status(code),
     readiness |-> build_workshop_readiness_report(r.design, dfm, cam, code = "" /\ r.program,
                                                  r.evidence),
     cam |-> cam,
     program |-> IF code = "" /\ r.program THEN [of |-> cam] ELSE Nothing]
BuiltUnder(r, parts, stocks, code) ==
    DocumentsOf(r, parts, stocks, code, ReportOf(r, parts, stocks, code),
        IF code = "" THEN CamOf(r.design, stocks, r.machine, Layouts(parts, stocks)) ELSE Nothing)
Built(r) == BuiltUnder(r, r.design.parts, Selected(r), ReviewBlocker(r))

-----------------------------------------------------------------------------
\* read_and_verify_package, check by check.
ManifestHolds(p) ==
    /\ p.manifest.inventory = p.docs /\ p.manifest.handoff = p.handoff
    /\ p.manifest.contextHash = p.manifest.context

ReviewCoreHolds(p) ==
    LET context == p.manifest.context
    IN  /\ context.design = p.docs.spec.id
        /\ p.docs.core = review_core(p.docs.spec, context)
        /\ context.materials = Materials(p.docs.spec.parts)

\* A furniture source must describe the frozen design; the signed statement
\* must be the one the frozen contract names; the provenance the manifest's.
SourcesHold(p) ==
    /\ p.docs.caller.furniture \in {0, p.docs.spec.id}
    /\ p.docs.caller.provenance = p.manifest.context.source
StatementHolds(p) ==
    LET contract == p.docs.spec.contract
    IN  p.docs.caller.statement = (IF contract = Nothing THEN 0 ELSE contract.statement)

StockSelectionHolds(p) ==
    LET stocks == p.docs.stock.stocks
    IN  /\ \A s \in stocks :
            /\ s.kerf >= MIN_VALIDATION_CONTOUR_KERF
            /\ \A zone \in s.defects \cup s.clamps : Within(zone, StockRect(s))
        /\ StockIdentitiesUnique(stocks)
        /\ p.docs.stock = stock_selection(p.docs.spec.parts, stocks)

\* Mutant: the generation plan is only held against the machine library.
GenerationPlanUnbound(p) == p.docs.plan.machine \in ReferenceMachines
GenerationPlanHolds(p) ==
    LET plan == p.docs.plan
        Pins(k) == PinFootprints(plan.registrations[k])
    IN  /\ plan.machine \in ReferenceMachines
        /\ plan.machine.id = p.manifest.context.machine
        /\ plan.stocks = p.docs.stock.stocks
        /\ \A k \in DOMAIN plan.registrations :
            /\ \E s \in plan.stocks : s.id = k[1] /\ k[2] \in 0 .. s.quantity - 1
            /\ LET stock == StockOf(k[1], plan.stocks)
                   all == PinsOn(k[1], plan.registrations)
               IN  /\ Pins(k) \subseteq stock.clamps
                   /\ \A pin \in Pins(k) :
                        /\ Within(pin, StockRect(stock))
                        /\ \A zone \in stock.defects \cup (stock.clamps \ all) :
                                ~Intersects(pin, zone, 0)

CadHolds(p) ==
    LET cad == p.docs.cad
    IN  /\ cad.geometry = p.docs.spec.id
        /\ cad.requested = (p.docs.fcstd # Nothing)
        /\ cad.step = (IF cad.requested THEN cad.geometry ELSE 0)

ArtifactIdentitiesHold(p) == DOMAIN p.docs.enclosed \subseteq SafeCallerArtifacts

\* The status against the frozen joints, the inventory and the readiness report.
RetentionBindingHolds(p) ==
    LET code == retention_evidence_blocker_code(p.docs.spec)
        status == p.docs.status
    IN  /\ status.cam = "VALIDATION_GENERATED" => code = ""
        /\ status.blockers \cap {"DADO_RETENTION", "BACK_PANEL_RETENTION"} # {} =>
                status.blockers = {code}
GeneratedInventoryHolds(p) ==
    p.docs.cam # Nothing /\ p.docs.status.program = (p.docs.program # Nothing)
InventoryHolds(p) ==
    IF p.docs.status.cam = "BLOCKED"
    THEN p.docs.cam = Nothing /\ p.docs.program = Nothing
    ELSE GeneratedInventoryHolds(p)
StatusReadinessHolds(p) ==
    LET status == p.docs.status
        readiness == p.docs.readiness.software
    IN  /\ readiness.dfm = (status.blockers \cap {"STOCK_PROFILE_MISSING", "DFM-GRAIN-001"} = {})
        /\ (readiness.operations > 0) = (status.cam = "VALIDATION_GENERATED")
        /\ (readiness.setups > 0) = (status.cam = "VALIDATION_GENERATED")
        /\ readiness.backplot = (status.cam = "VALIDATION_GENERATED")
        /\ readiness.program = status.program
EvidenceBindingHolds(p) ==
    p.docs.readiness.workshop = workshop_evidence(p.docs.spec, p.manifest.context.evidence)

\* The report: what the status lets it hold, what stock and grain make of the
\* frozen parts, what the bill of materials says of the grain, and the whole
\* screen once more.
StatusAllowsReport(p) ==
    LET blockers == p.docs.status.blockers
        report == p.docs.dfm
    IN  CASE blockers = {"STOCK_PROFILE_MISSING"} ->
                /\ "STOCK_PROFILE_MISSING" \in Codes(report)
                /\ Codes(report) \subseteq {"STOCK_PROFILE_MISSING", "DFM-GRAIN-001"}
                /\ Codes(Blocking(report)) = {"STOCK_PROFILE_MISSING"}
          [] blockers = {"DFM-GRAIN-001"} ->
                Codes(Blocking(report)) = {"DFM-GRAIN-001"} /\ Blocking(report) = report
          [] OTHER -> Blocking(report) = {}

SelectionReportHolds(p) ==
    LET docs == p.docs
        grain == GrainIssues(docs.spec.parts, docs.stock.stocks)
    IN  IF docs.status.blockers = {"STOCK_PROFILE_MISSING"}
        THEN docs.stock.unmatched # {}
             /\ docs.dfm = SelectionIssues(docs.spec.parts, docs.stock.stocks)
        ELSE /\ docs.stock.unmatched = {}
             /\ IF docs.status.blockers = {"DFM-GRAIN-001"}
                THEN grain # {} /\ docs.dfm = grain
                ELSE /\ grain = {}
                     /\ Codes(docs.dfm) \cap {"STOCK_PROFILE_MISSING", "DFM-GRAIN-001"} = {}

\* The grouped bill of materials holds identical blanks together, whether they may be
\* turned or not.
BomSignature(part) ==
    [name |-> part.name, w |-> part.w, l |-> part.l, thickness |-> part.thickness,
     material |-> part.material, grain |-> part.grain]
GroupedWith(parts, all) ==
    {q \in all : \E a \in parts : BomSignature(q) = BomSignature(a)}
GrainIssuesMatchBOM(p) ==
    LET grain == {i \in p.docs.dfm : i.code = "DFM-GRAIN-001"}
        Affected(i) == {q \in p.docs.core.parts : q.id \in i.affected}
    IN  /\ \A i, k \in grain : i # k => i.affected \cap k.affected = {}
        /\ \A i \in grain :
            /\ {q.id : q \in Affected(i)} = i.affected
            /\ GroupedWith(Affected(i), p.docs.core.parts) \subseteq Affected(i)
            /\ {q.grain : q \in Affected(i)} = i.axes /\ "NONE" \notin i.axes
            /\ {q.material : q \in Affected(i)} = {i.material}
            /\ i.stock = 0 => Affected(i) = {q \in p.docs.core.parts :
                                                q.material = i.material /\ q.grain # "NONE"}

ReportRebuilt(p) ==
    LET docs == p.docs
        parts == docs.spec.parts
        stocks == docs.stock.stocks
    IN  docs.status.blockers \cap {"STOCK_PROFILE_MISSING", "DFM-GRAIN-001"} = {} =>
            docs.dfm = run_dfm_screen(parts, stocks, docs.plan.machine, Layouts(parts, stocks))

CamHolds(p) ==
    LET docs == p.docs
        stocks == docs.stock.stocks
        layouts == Layouts(docs.spec.parts, stocks)
    IN  docs.status.cam = "VALIDATION_GENERATED" =>
            /\ SetupBlocker(docs.spec, stocks, docs.plan.machine, docs.plan.registrations,
                            layouts) = ""
            /\ docs.status.program = docs.plan.program
            /\ docs.cam = CamOf(docs.spec, stocks, docs.plan.machine, layouts)
            /\ docs.program = (IF docs.plan.program THEN [of |-> docs.cam] ELSE Nothing)

ReadinessHolds(p) ==
    LET docs == p.docs
    IN  docs.readiness = build_workshop_readiness_report(docs.spec, docs.dfm, docs.cam,
                            docs.cam # Nothing /\ docs.plan.program, p.manifest.context.evidence)

\* The cover sheet is built again from the documents accepted so far.
HandoffHolds(p) == p.handoff = supplier_handoff(p.manifest.context, p.docs)

StatusInventoryHolds(p) ==
    /\ RetentionBindingHolds(p)
    /\ InventoryHolds(p)
    /\ StatusAllowsReport(p)
    /\ SelectionReportHolds(p)
    /\ ReportRebuilt(p)
    /\ GrainIssuesMatchBOM(p)
    /\ StatusReadinessHolds(p)

Verifies(p) ==
    /\ ManifestHolds(p)
    /\ ReviewCoreHolds(p)
    /\ SourcesHold(p)
    /\ StatementHolds(p)
    /\ StockSelectionHolds(p)
    /\ GenerationPlanHolds(p)
    /\ CadHolds(p)
    /\ ArtifactIdentitiesHold(p)
    /\ EvidenceBindingHolds(p)
    /\ StatusInventoryHolds(p)
    /\ CamHolds(p)
    /\ ReadinessHolds(p)
    /\ HandoffHolds(p)

-----------------------------------------------------------------------------
\* The bundles that may be mixed, built once: packages that were really built, in
\* which a design's id, the hash of its canonical content, names one design.
ASSUME SplicedAreBuilt == \A r \in Spliced : r \in Requests /\ Blocker(r) = ""
ASSUME DesignIdNamesContent ==
    \A q, r \in Spliced : q.design.id = r.design.id => q.design = r.design

Bundles == [r \in Spliced |-> Sealed(FrozenContext(r), Built(r))]

PackageInit == request \in Requests /\ parcel = Nothing /\ verdict = "none"

\* The builder verifies what it returns.
build_production_bundle ==
    /\ verdict = "none"
    /\ \/ /\ Blocker(request) # ""
          /\ verdict' = Blocker(request) /\ UNCHANGED parcel
       \/ /\ Blocker(request) = ""
          /\ parcel' = Sealed(FrozenContext(request), Built(request))
          /\ verdict' = IF Verifies(parcel') THEN "built" ELSE "unverifiable"
    /\ UNCHANGED request

Documents == {"spec", "core", "caller", "enclosed", "cad", "fcstd", "stock", "plan", "dfm",
              "status", "readiness", "cam", "program"}
Mixtures == {names \in SUBSET Documents : Cardinality(names) <= MaxExchanged}

\* Documents, or the manifest's context, of another build take the place of
\* these; cover sheet and manifest are written anew, or left as they were.
Replaced(docs, other, names) ==
    [name \in DOMAIN docs |-> IF name \in names THEN other[name] ELSE docs[name]]
Splice(r, names, context) ==
    parcel' = Sealed(IF context THEN Bundles[r].manifest.context ELSE parcel.manifest.context,
                     Replaced(parcel.docs, Bundles[r].docs, names))
Exchange(r, name) ==
    parcel' = [parcel EXCEPT !.docs = Replaced(@, Bundles[r].docs, {name})]

receive_package ==
    /\ verdict = "built" /\ request \in Spliced
    /\ \E r \in Spliced :
          \/ \E names \in Mixtures, context \in BOOLEAN : Splice(r, names, context)
          \/ \E name \in Documents : Exchange(r, name)
    /\ parcel' # parcel
    /\ verdict' = "received"
    /\ UNCHANGED request

read_and_verify_package ==
    /\ verdict = "received"
    /\ verdict' = IF Verifies(parcel) THEN "accepted" ELSE "refused"
    /\ UNCHANGED <<request, parcel>>

PackageNext ==
    \/ build_production_bundle
    \/ receive_package
    \/ read_and_verify_package
PackageSpec == PackageInit /\ [][PackageNext]_packageVars

-----------------------------------------------------------------------------
\* The call of build_production_bundle that a package's own frozen inputs name.
FrozenRequest(p) ==
    LET context == p.manifest.context
        plan == p.docs.plan
    IN  [design |-> p.docs.spec, machine |-> plan.machine, registrations |-> plan.registrations,
         stocks |-> {[s EXCEPT !.clamps = @ \ PinsOn(s.id, plan.registrations)] :
                     s \in p.docs.stock.stocks},
         program |-> plan.program, freecad |-> p.docs.cad.requested,
         includeStep |-> TRUE, allowBlocked |-> TRUE, enclosed |-> p.docs.enclosed,
         release |-> FALSE,
         named |-> <<p.docs.spec.id, plan.machine.id>>,
         project |-> context.project, revision |-> context.revision,
         evidence |-> context.evidence, source |-> context.source,
         statement |-> p.docs.caller.statement, provenance |-> p.docs.caller.provenance,
         furniture |-> p.docs.caller.furniture]

InOrder(r) ==
    /\ r.machine \in ReferenceMachines
    /\ r.statement = (IF r.design.contract = Nothing THEN 0 ELSE r.design.contract.statement)
    /\ r.provenance = r.source /\ r.furniture \in {0, r.design.id}
    /\ \A s \in r.stocks : \A zone \in s.defects \cup s.clamps : Within(zone, StockRect(s))

\* Parts that the bill of materials groups may be turned alike.
GroupsTurnAlike(parts) ==
    \A p, q \in parts : BomSignature(p) = BomSignature(q) => p.rotate = q.rotate

\* What the builder forms from a call in order passes its own verifier, and the
\* nester's own check of its layouts never fails: the two, written separately,
\* agree on every rule (build_production_bundle ends in read_and_verify_package;
\* DeterministicNester raises on a layout that validate_layout rejects).  One thing is
\* asked of the design: of two blanks in one BOM group only one of which may be turned,
\* each may take a stock of its own, and a grain issue of one of these stocks then
\* leaves out a part of the group (_validate_grain_issues_against_grouped_bom).
BuilderMeetsVerifier ==
    /\ verdict # "NESTER"
    /\ verdict = "unverifiable" => ~InOrder(request) \/ ~GroupsTurnAlike(request.design.parts)

\* An accepted package, however it was put together, is one package: with
\* machining documents everything the verifier reads is the build of the frozen
\* inputs it carries, a call that the builder accepts and that is in order;
\* without them the reason it gives is true of these inputs (the verifier does not
\* ask whether a missing registration is really missing).  The FreeCAD project is
\* there when it was asked for, and the enclosed documents of the caller are
\* inputs of the build; what they say is nobody's promise: they may come from a
\* build of another design (_validate_cad_semantics, the identities allowed by
\* read_and_verify_package).
AcceptedIsOfOneBuild ==
    LET status == parcel.docs.status
        call == FrozenRequest(parcel)
    IN  verdict \in {"built", "accepted"} =>
            IF status.cam = "VALIDATION_GENERATED"
            THEN /\ InOrder(call) /\ Blocker(call) = "" /\ ReviewBlocker(call) = ""
                 /\ call.freecad = (parcel.docs.fcstd # Nothing)
                 /\ parcel = Sealed(FrozenContext(call),
                                    [Built(call) EXCEPT !.fcstd = parcel.docs.fcstd])
            ELSE /\ parcel.docs.cam = Nothing /\ parcel.docs.program = Nothing
                 /\ \/ status.blockers = {ReviewBlocker(call)}
                    \/ status.blockers = {"TWO_SIDED_REGISTRATION_MISSING"}

\* The sheet as it lies on the machine, independently of the screen: in sheet
\* coordinates no operation reaches into another part, opposite cuts of a part leave the
\* wall between them, and the cutter that releases a part stays clear of its
\* neighbours and of the fixtures; on the machine every cut of a setup misses
\* the keep-outs; the sheet is turned at most once and holds its parts until
\* only releases are left (OPPOSING_FEATURE_WALL_TOO_THIN, transform_rect_to_
\* machine, _require_compatible_global_order).
SheetCut(o, stock) == IF o.side = "B" THEN Flipped(o.envelope, stock) ELSE o.envelope
PlannedSheetIsSound ==
    verdict \in {"built", "accepted"} /\ parcel.docs.cam # Nothing =>
        LET operations == parcel.docs.cam.operations
            Stock(o) == StockOf(o.stock, parcel.docs.stock.stocks)
            Placed(o) == {p \in parcel.docs.cam.layouts[o.stock].placed : p.sheet = o.sheet}
            Own(o) == {p \in Placed(o) : p.part = o.part /\ p.n = o.n}
            SameSheet(a, b) == <<a.stock, a.sheet>> = <<b.stock, b.sheet>>
        IN  /\ \A i \in DOMAIN operations :
                LET o == operations[i]
                    cut == SheetCut(o, Stock(o))
                IN  /\ \A p \in Placed(o) \ Own(o) :
                            ~Intersects(cut, p.rect, IF o.release THEN Stock(o).kerf ELSE 0)
                    /\ \A zone \in Stock(o).clamps \cup parcel.docs.plan.machine.keepouts :
                            ~Intersects(o.envelope, zone, 0)
                    /\ o.release => \A zone \in Stock(o).clamps \cup Stock(o).defects :
                            ~Intersects(cut, zone, Stock(o).kerf)
            /\ \A i, j \in DOMAIN operations :
                LET a == operations[i]
                    b == operations[j]
                IN  /\ /\ <<a.part, a.n>> = <<b.part, b.n>> /\ a.side = "A" /\ b.side = "B"
                       /\ ~a.through /\ ~b.through
                       /\ Intersects(SheetCut(a, Stock(a)), SheetCut(b, Stock(b)), 0)
                       => Stock(a).thickness - a.depth - b.depth >= MinRemainingWall
                    /\ SameSheet(a, b) /\ i < j =>
                        /\ a.release => b.release
                        /\ a.side = "A" => b.side = "A"
=============================================================================
