----------------------------- MODULE SheetPlan -----------------------------
(***************************************************************************)
(* From the parts of a design to the semantic operations of its sheets:    *)
(* stock selection, the deterministic nester, the design-for-manufacturing *)
(* screen and the setup plan of custombuild_manufacturing.  Everything is  *)
(* a pure function of parts, stock profiles and machine profile.  Part,    *)
(* stock, feature and tool identities are numbers, so that the code's      *)
(* tie-breaks by identity keep their meaning.  A blank has the size of its *)
(* part.                                                                   *)
(***************************************************************************)
EXTENDS Geometry, FiniteSets

CONSTANTS
    MIN_VALIDATION_CONTOUR_KERF,   \* a stock with a narrower kerf is refused
    MinRemainingWall,              \* minimum_remaining_wall_um
    MaximumOvercut,                \* maximum_overcut_um
    MinimumEdgeDistance,           \* minimum_edge_distance_um of a hole
    DiameterTolerance              \* diameter_tolerance_um of a hole

ASSUME SheetPlanBounds ==
    {MIN_VALIDATION_CONTOUR_KERF, MinRemainingWall, MaximumOvercut, MinimumEdgeDistance,
     DiameterTolerance} \subseteq Nat

Least(S, Key(_)) == CHOOSE x \in S : \A y \in S : y = x \/ Before(Key(x), Key(y))

Issue(code, part) == [code |-> code, part |-> part, severity |-> "BLOCK"]
When(code, part, holds) == IF holds THEN {Issue(code, part)} ELSE {}
Blocking(issues) == {i \in issues : i.severity = "BLOCK"}
Codes(issues) == {i.code : i \in issues}

-----------------------------------------------------------------------------
\* Features.  A hole is [kind, side, x, y, dia, count, pitch, ...] (dia 0 when no
\* diameter is declared), everything else has the rectangle "rect"; "open" are the
\* ends left open, "relief" the radius of the corner strategy (0 for none).
Holes == {"DRILL", "DRILL_PATTERN", "COUNTERSINK"}
OperationOf(f) ==
    CASE f.kind \in {"DRILL", "DRILL_PATTERN"} -> "DRILL"
      [] f.kind \in {"GROOVE", "RABBET"} -> "GROOVE"
      [] f.kind \in {"INNER_CONTOUR", "OUTER_CONTOUR"} -> "CONTOUR"
      [] f.kind \in {"ENGRAVE", "LABEL"} -> "ENGRAVE"
      [] OTHER -> f.kind

Points(f) == {<<f.x + i * f.pitch, f.y>> : i \in 0 .. f.count - 1}
Bounds(f) ==
    IF f.kind \in Holes
    THEN Rect(f.x - f.dia \div 2, f.y - f.dia \div 2,
              (f.count - 1) * f.pitch + 2 * (f.dia \div 2), 2 * (f.dia \div 2))
    ELSE f.rect

Dogbones == {"dogbone-v1", "dogbone-v2"}

\* The corners whose dogbone is not suppressed by an open end.
Corners(r) ==
    {<<"u_min", "v_min", r.x, r.y>>, <<"u_max", "v_min", Right(r), r.y>>,
     <<"u_min", "v_max", r.x, Top(r)>>, <<"u_max", "v_max", Right(r), Top(r)>>}
ReliefCorners(f) ==
    {c \in Corners(Bounds(f)) :
        /\ f.strategy \in Dogbones /\ f.relief # 0
        /\ IF f.strategy = "dogbone-v1" THEN ~({c[1], c[2]} \subseteq f.open)
                                        ELSE {c[1], c[2]} \cap f.open = {}}

\* The cutter leaves the nominal rectangle at its dogbones and its open ends.
Widened(r, ends, by) ==
    LET Out(end) == IF end \in ends THEN by ELSE 0
    IN  Rect(r.x - Out("u_min"), r.y - Out("v_min"),
             r.w + Out("u_min") + Out("u_max"), r.l + Out("v_min") + Out("v_max"))
MachiningBounds(f) ==
    Widened(Bounds(f),
            (UNION {{c[1], c[2]} : c \in ReliefCorners(f)})
                \cup IF f.strategy \in Dogbones THEN f.open ELSE {},
            f.relief)

Square(n) == n * n
CircleMeetsRect(c, radius, r) ==
    LET x == Smaller(Larger(c[3], r.x), Right(r))
        y == Smaller(Larger(c[4], r.y), Top(r))
    IN  Square(c[3] - x) + Square(c[4] - y) < Square(radius)

MachiningFeaturesIntersect(f, g) ==
    \/ Intersects(Bounds(f), Bounds(g), 0)
    \/ \E c \in ReliefCorners(f) : CircleMeetsRect(c, f.relief, Bounds(g))
    \/ \E c \in ReliefCorners(g) : CircleMeetsRect(c, g.relief, Bounds(f))
    \/ \E c \in ReliefCorners(f), d \in ReliefCorners(g) :
            Square(c[3] - d[3]) + Square(c[4] - d[4]) < Square(f.relief + g.relief)

-----------------------------------------------------------------------------
\* Nesting.
compatible(part, stock) == part.material = stock.material /\ part.thickness = stock.thickness

grain_allows(part, stock, rotated) ==
    \/ part.grain = "NONE"
    \/ /\ part.grain \in {"X", "Y"} /\ stock.grain \in {"X", "Y"}
       /\ (part.grain = stock.grain) = ~rotated

Orientations(part, stock) ==
    {o \in {[rotated |-> FALSE, w |-> part.w, l |-> part.l],
            [rotated |-> TRUE, w |-> part.l, l |-> part.w]} :
        /\ o.rotated => part.rotate /\ stock.rotate
        /\ grain_allows(part, stock, o.rotated)}

UsableRect(stock) ==
    Rect(stock.margin, stock.margin, stock.w - 2 * stock.margin, stock.l - 2 * stock.margin)
StockRect(stock) == Rect(0, 0, stock.w, stock.l)

CandidateOrigins(stock, occupied) ==
    LET obstacles == {p.rect : p \in occupied} \cup stock.defects \cup stock.clamps
        usable == UsableRect(stock)
        xs == {usable.x} \cup {Right(o) + stock.kerf : o \in obstacles}
        ys == {usable.y} \cup {Top(o) + stock.kerf : o \in obstacles}
    IN  {o \in xs \X ys : o[1] < Right(usable) /\ o[2] < Top(usable)}

\* Mutant: the kerf around a part is not kept free.
FitsTight(rect, occupied, stock) ==
    /\ Within(rect, UsableRect(stock))
    /\ \A zone \in stock.defects \cup stock.clamps : ~Intersects(rect, zone, 0)
    /\ \A other \in occupied : ~Intersects(rect, other.rect, 0)
Fits(rect, occupied, stock) ==
    /\ Within(rect, UsableRect(stock))
    /\ \A zone \in stock.defects \cup stock.clamps : ~Intersects(rect, zone, stock.kerf)
    /\ \A other \in occupied : ~Intersects(rect, other.rect, stock.kerf)

Instances(parts) == UNION {{[part |-> p, n |-> n] : n \in 1 .. p.quantity} : p \in parts}
NestingKey(i) ==
    <<- (i.part.w * i.part.l), - Larger(i.part.w, i.part.l), - Smaller(i.part.w, i.part.l),
      i.part.id, i.n>>

Placements(i, placed, stock) ==
    LET On(sheet) == {p \in placed : p.sheet = sheet}
        At(sheet, o, xy) ==
            [part |-> i.part.id, n |-> i.n, stock |-> stock.id, sheet |-> sheet,
             rotated |-> o.rotated, rect |-> Rect(xy[1], xy[2], o.w, o.l)]
    IN  IF ~compatible(i.part, stock) THEN {}
        ELSE {p \in UNION {{At(sheet, o, xy) : o \in Orientations(i.part, stock),
                                               xy \in CandidateOrigins(stock, On(sheet))} :
                           sheet \in 0 .. stock.quantity - 1} :
                Fits(p.rect, On(p.sheet), stock)}
Score(p) == <<p.sheet, p.rect.y, p.rect.x, Top(p.rect), IF p.rotated THEN 1 ELSE 0>>

\* One instance after the other, in the order of their keys, takes its best
\* placement, if there is one.
WithInstance(layout, i, choices) ==
    IF choices = {} THEN [layout EXCEPT !.unplaced = @ \cup {<<i.part.id, i.n>>}]
    ELSE [layout EXCEPT !.placed = @ \cup {Least(choices, Score)}]
LastOf(taken) ==
    CHOOSE i \in taken : \A j \in taken : j = i \/ Before(NestingKey(j), NestingKey(i))
Extended(layout, i, stock) == WithInstance(layout, i, Placements(i, layout.placed, stock))
nest(parts, stock) ==
    LET layout[taken \in SUBSET Instances(parts)] ==
            IF taken = {} THEN [placed |-> {}, unplaced |-> {}]
            ELSE Extended(layout[taken \ {LastOf(taken)}], LastOf(taken), stock)
    IN  layout[Instances(parts)]

\* validate_layout: what is wrong with a layout of these parts on this stock.
PlacementIssues(p, part, stock) ==
    LET size == IF p.rotated THEN <<part.l, part.w>> ELSE <<part.w, part.l>>
    IN  When("NESTING_STOCK_BINDING_MISMATCH", part.id, p.stock # stock.id)
        \cup When("NESTING_DIMENSION_MISMATCH", part.id, <<p.rect.w, p.rect.l>> # size)
        \cup When("NESTING_GRAIN_MISMATCH", part.id, ~grain_allows(part, stock, p.rotated))
        \cup When("NESTING_INVALID_SHEET", part.id, p.sheet \notin 0 .. stock.quantity - 1)
        \cup When("NESTING_OUT_OF_BOUNDS", part.id, ~Within(p.rect, UsableRect(stock)))
        \cup When("NESTING_DEFECT_COLLISION", part.id,
                  \E zone \in stock.defects : Intersects(p.rect, zone, stock.kerf))
        \cup When("NESTING_CLAMP_COLLISION", part.id,
                  \E zone \in stock.clamps : Intersects(p.rect, zone, stock.kerf))

validate_layout(layout, parts, stock) ==
    LET placed == layout.placed
        Named(p) == {q \in parts : q.id = p.part /\ p.n \in 1 .. q.quantity}
        expected == {<<i.part.id, i.n>> : i \in Instances(parts)}
        Again(p) == {q \in placed \ {p} : <<q.part, q.n>> = <<p.part, p.n>>}
    IN  (UNION {UNION {PlacementIssues(p, q, stock) : q \in Named(p)} : p \in placed})
        \cup (UNION {When("NESTING_UNKNOWN_INSTANCE", p.part, Named(p) = {}) : p \in placed})
        \cup (UNION {When("NESTING_DUPLICATE_INSTANCE", p.part, Again(p) # {}) : p \in placed})
        \cup When("NESTING_OVERLAP", 0,
                  \E p, q \in placed : p # q /\ p.sheet = q.sheet
                                       /\ Intersects(p.rect, q.rect, stock.kerf))
        \cup When("NESTING_ACCOUNTING", 0,
                  expected \ {<<p.part, p.n>> : p \in placed} # layout.unplaced)
        \cup {Issue("NESTING_UNPLACED", u[1]) : u \in layout.unplaced}

\* The nester checks its own layout and raises on anything but unplaced parts.
NesterRaises(parts, stock) ==
    Codes(validate_layout(nest(parts, stock), parts, stock)) \ {"NESTING_UNPLACED"} # {}

-----------------------------------------------------------------------------
\* Stock selection and the grain rule.
GrainIssue(material, stock, parts, severity) ==
    [code |-> "DFM-GRAIN-001", part |-> 0, severity |-> severity, material |-> material,
     stock |-> stock, affected |-> {p.id : p \in parts}, axes |-> {p.grain : p \in parts}]

Directional(parts) == {p \in parts : p.grain # "NONE"}

stock_grain_binding_issues(parts, stock) ==
    IF Directional(parts) = {} \/ stock.grain \in {"X", "Y"} THEN {}
    ELSE {GrainIssue(stock.material, stock.id, Directional(parts), "BLOCK")}

\* Without a matched stock: one warning for each material.
GrainWarnings(parts) ==
    {GrainIssue(m, 0, {p \in Directional(parts) : p.material = m}, "WARNING") :
        m \in {p.material : p \in Directional(parts)}}

\* One exemplar must fit; its grain is judged later.
StockFits(part, stock) ==
    /\ compatible(part, stock)
    /\ nest({[part EXCEPT !.quantity = 1, !.grain = "NONE"]}, stock).unplaced = {}
SelectedStock(part, stocks) ==
    Least({s \in stocks : StockFits(part, s)}, LAMBDA s : <<s.w * s.l, s.id>>)
Unmatched(parts, stocks) == {p \in parts : \A s \in stocks : ~StockFits(p, s)}
PartsOn(stock, parts, stocks) ==
    {p \in parts \ Unmatched(parts, stocks) : SelectedStock(p, stocks) = stock}
UsedStocks(parts, stocks) == {s \in stocks : PartsOn(s, parts, stocks) # {}}

StockMissing(part) ==
    [code |-> "STOCK_PROFILE_MISSING", part |-> part.id, severity |-> "BLOCK",
     material |-> part.material, thickness |-> part.thickness, blank |-> <<part.w, part.l>>]

-----------------------------------------------------------------------------
\* The screen for manufacturability.
select_tool(f, machine) ==
    {t \in machine.tools :
        /\ OperationOf(f) \in t.operations
        /\ t.length >= f.depth
        /\ LET slack == Larger(machine.accuracy, DiameterTolerance)
           IN  IF f.kind \in Holes THEN f.dia > 0 /\ t.dia - f.dia \in -slack .. slack
                                  ELSE t.dia <= Bounds(f).w}
ToolKey(t) == <<t.dia, t.id>>
ToolOf(f, machine) == Least(select_tool(f, machine), ToolKey)

EnvelopeDeclared(part, f) ==
    LET nominal == Bounds(f)
        actual == MachiningBounds(f)
    IN  /\ "u_min" \in f.open => nominal.x = 0
        /\ "v_min" \in f.open => nominal.y = 0
        /\ "u_max" \in f.open => Right(nominal) = part.w
        /\ "v_max" \in f.open => Top(nominal) = part.l
        /\ actual.x >= 0 \/ "u_min" \in f.open
        /\ actual.y >= 0 \/ "v_min" \in f.open
        /\ Right(actual) <= part.w \/ "u_max" \in f.open
        /\ Top(actual) <= part.l \/ "v_max" \in f.open

AccessIssues(part, f, machine) ==
    When("FEATURE_INVALID_GEOMETRY", part.id,
         MachiningBounds(f).w <= 0 \/ MachiningBounds(f).l <= 0)
    \cup When("FEATURE_OUTSIDE_PART", part.id,
         /\ MachiningBounds(f).w > 0 /\ MachiningBounds(f).l > 0
         /\ ~EnvelopeDeclared(part, f))
    \cup When("EDGE_ACCESS_UNAVAILABLE", part.id, f.side = "EDGE" /\ ~machine.edge)
    \cup When("B_SIDE_ACCESS_UNAVAILABLE", part.id,
         f.side = "B" /\ ~("B" \in machine.sides \/ machine.flip))
    \cup When("FEATURE_SIDE_UNSUPPORTED", part.id,
         /\ f.side \notin machine.sides \cup {"B"}
         /\ ~(f.side = "EDGE" /\ ~machine.edge))
    \cup When("OPERATION_UNSUPPORTED", part.id, OperationOf(f) \notin machine.operations)

DepthIssues(part, f) ==
    When("THROUGH_DEPTH_INCOMPLETE", part.id, f.through /\ f.depth < part.thickness)
    \cup When("THROUGH_DEPTH_EXCESSIVE", part.id,
              f.through /\ f.depth > part.thickness + MaximumOvercut)
    \cup When("NONTHROUGH_DEPTH", part.id, ~f.through /\ f.depth >= part.thickness)
    \cup When("REMAINING_WALL_TOO_THIN", part.id,
              /\ ~f.through /\ f.depth < part.thickness
              /\ part.thickness - f.depth < MinRemainingWall)

ToolIssues(part, f, machine) ==
    LET tool == ToolOf(f, machine)
        found == select_tool(f, machine) # {}
        edge == Smaller(Smaller(f.x, f.y),
                        Smaller(part.w - f.x - (f.count - 1) * f.pitch, part.l - f.y))
    IN  When("DRILL_DIAMETER_MISSING", part.id, f.kind \in Holes /\ f.dia = 0)
        \cup When("INNER_CORNER_STRATEGY_MISSING", part.id, f.square /\ f.strategy = "none")
        \cup When("INNER_CORNER_STRATEGY_UNSUPPORTED", part.id,
                  f.square /\ f.strategy # "none" /\ (f.strategy \notin Dogbones \/ f.relief = 0))
        \cup When("COMPATIBLE_TOOL_MISSING", part.id, ~found)
        \cup When("TOOL_SPINDLE_LIMIT", part.id, found /\ tool.rpm > machine.max_rpm)
        \cup When("CORNER_RELIEF_TOO_SMALL", part.id,
                  /\ found /\ tool.rpm <= machine.max_rpm
                  /\ f.strategy \in Dogbones /\ f.relief > 0 /\ 2 * f.relief < tool.dia)
        \cup When("FIT_TOLERANCE_BUDGET_EXHAUSTED", part.id,
                  /\ found /\ f.clearance > 0
                  /\ f.clearance - 2 * (f.tolerance + machine.accuracy + tool.runout) <= 0)
        \cup When("HOLE_EDGE_DISTANCE", part.id,
                  f.kind \in Holes /\ f.dia > 0 /\ edge < f.dia \div 2 + MinimumEdgeDistance)

\* Mutant: each side is judged on its own.
OpposingWallIgnored(part) == {}

\* Where both sides are cut, a wall must stay between them.
OpposingWall(part) ==
    LET Cuts(side) == {f \in part.features : f.side = side /\ ~f.through}
    IN  UNION {When("OPPOSING_FEATURE_WALL_TOO_THIN", part.id,
                    /\ Intersects(MachiningBounds(f), MachiningBounds(g), 0)
                    /\ part.thickness - f.depth - g.depth < MinRemainingWall) :
               f \in Cuts("A"), g \in Cuts("B")}

FeatureCollisions(part) ==
    UNION {When("FEATURE_COLLISION", part.id,
                /\ f # g /\ f.side = g.side
                /\ "OUTER_CONTOUR" \notin {f.kind, g.kind}
                /\ f.id \notin g.overlaps /\ g.id \notin f.overlaps
                /\ MachiningFeaturesIntersect(f, g)) :
           f \in part.features, g \in part.features}

\* Dogbones of neighbours that the declared uncertainties may join: supplier review,
\* never a block.
AdjacentReliefWarnings(part, machine) ==
    LET Budget(f, g) ==
            f.relief + g.relief + f.tolerance + g.tolerance + 2 * machine.accuracy
                + ToolOf(f, machine).runout + ToolOf(g, machine).runout
        Close(f, g) ==
            /\ f # g /\ f.side = g.side
            /\ "OUTER_CONTOUR" \notin {f.kind, g.kind}
            /\ f.id \notin g.overlaps /\ g.id \notin f.overlaps
            /\ ~MachiningFeaturesIntersect(f, g)
            /\ select_tool(f, machine) # {} /\ select_tool(g, machine) # {}
            /\ \E c \in ReliefCorners(f), d \in ReliefCorners(g) :
                    Square(c[3] - d[3]) + Square(c[4] - d[4]) < Square(Budget(f, g) + 1)
    IN  IF \E f, g \in part.features : Close(f, g)
        THEN {[Issue("ADJACENT_RELIEF_CLEARANCE", part.id) EXCEPT !.severity = "WARNING"]}
        ELSE {}

\* Part coordinates through nesting, and the flip of the sheet about its X axis.
Flipped(r, stock) == Rect(r.x, stock.l - Top(r), r.w, r.l)
OnSheet(r, p) ==
    IF p.rotated THEN Rect(p.rect.x + p.rect.w - Top(r), p.rect.y + r.x, r.l, r.w)
                 ELSE Rect(p.rect.x + r.x, p.rect.y + r.y, r.w, r.l)
ToMachine(r, p, stock, side) ==
    IF side = "B" THEN Flipped(OnSheet(r, p), stock) ELSE OnSheet(r, p)
PlacementToMachine(p, stock, side) == IF side = "B" THEN Flipped(p.rect, stock) ELSE p.rect

KeepOutIssues(part, p, layout, stock, machine) ==
    UNION {LET cut == ToMachine(MachiningBounds(f), p, stock, f.side)
               others == {q \in layout.placed \ {p} : q.sheet = p.sheet}
           IN  When("FEATURE_KEEPOUT_COLLISION", part.id,
                    \E zone \in machine.keepouts \cup stock.clamps : Intersects(cut, zone, 0))
               \cup When("OPEN_END_RELIEF_STOCK_CLEARANCE", part.id,
                         f.open # {} /\ ~Within(cut, StockRect(stock)))
               \cup When("OPEN_END_RELIEF_PART_CLEARANCE", part.id,
                         /\ f.open # {}
                         /\ \E q \in others :
                                Intersects(cut, PlacementToMachine(q, stock, f.side), 0)) :
           f \in {g \in part.features : g.side # "EDGE"}}

MachineEnvelope(stock, machine) ==
    When("MACHINE_STOCK_ENVELOPE", 0, stock.w > machine.w \/ stock.l > machine.l)
    \cup When("MACHINE_Z_ENVELOPE", 0, stock.thickness + machine.safe_z > machine.z)

\* DFMValidator.validate.
Screen(parts, layout, stock, machine) ==
    stock_grain_binding_issues(parts, stock)
    \cup validate_layout(layout, parts, stock)
    \cup MachineEnvelope(stock, machine)
    \cup (UNION {(UNION {AccessIssues(p, f, machine) \cup DepthIssues(p, f)
                          \cup ToolIssues(p, f, machine) : f \in p.features})
                 \cup OpposingWall(p) \cup FeatureCollisions(p)
                 \cup AdjacentReliefWarnings(p, machine) : p \in parts})
    \cup (UNION {KeepOutIssues(CHOOSE p \in parts : p.id = q.part, q, layout, stock, machine) :
                 q \in layout.placed})

-----------------------------------------------------------------------------
\* The setup plan.  A registration is [pin, tolerance, points].
PinRadius(registration) == (registration.pin + 1) \div 2 + registration.tolerance
PinFootprints(registration) ==
    {Rect(pin[1] - PinRadius(registration), pin[2] - PinRadius(registration),
          2 * PinRadius(registration), 2 * PinRadius(registration)) : pin \in registration.points}

SidesOn(sheet, layout, parts) ==
    {f.side : f \in UNION {p.features : p \in
                {q \in parts : \E l \in layout.placed : l.sheet = sheet /\ l.part = q.id}}}
        \ {"EDGE"}

\* The flip side first; nothing else is machined after the first release.
SideSequence(side) == CASE side = "B" -> 0 [] side = "A" -> 1 [] OTHER -> 2
Pieces(f) == {[f EXCEPT !.x = hole[1], !.count = 1] : hole \in Points(f)}
IsRelease(f) == f.kind = "OUTER_CONTOUR" /\ f.through

OperationsFor(layout, parts, stock, machine) ==
    UNION {LET part == CHOOSE q \in parts : q.id = p.part
           IN  UNION {{[stock |-> stock.id, sheet |-> p.sheet, part |-> p.part, n |-> p.n,
                        feature |-> f.id, hole |-> piece.x, kind |-> OperationOf(f),
                        side |-> f.side, tool |-> ToolOf(f, machine).id, depth |-> f.depth,
                        through |-> f.through, release |-> IsRelease(f),
                        nominal |-> ToMachine(Bounds(piece), p, stock, f.side),
                        envelope |-> ToMachine(MachiningBounds(piece), p, stock, f.side)] :
                       piece \in Pieces(f)} : f \in part.features} : p \in layout.placed}
KindOrder == [CONTOUR |-> 0, COUNTERSINK |-> 1, DRILL |-> 2, ENGRAVE |-> 3, GROOVE |-> 4,
              POCKET |-> 5]
OperationKey(o) ==
    <<o.stock, o.sheet, IF o.release THEN 1 ELSE 0, SideSequence(o.side),
      IF o.kind = "CONTOUR" THEN 1 ELSE 0, o.tool, KindOrder[o.kind],
      o.part, o.n, o.feature, o.hole>>

SequenceConflicts(sheet, operations) ==
    /\ \E o \in operations : o.sheet = sheet /\ o.side = "B" /\ o.release
    /\ \E o \in operations : o.sheet = sheet /\ o.side = "A" /\ ~o.release

\* generate_operations_document: the code it is blocked with, or "".  The sheets
\* are taken in order; their registrations are judged before any operation.
PlanBlocker(layout, parts, stock, machine, registrations) ==
    LET sheets == {p.sheet : p \in layout.placed}
        TwoSided(s) == {"A", "B"} \subseteq SidesOn(s, layout, parts)
        Unbound(s) == TwoSided(s) /\ <<stock.id, s>> \notin DOMAIN registrations
        Misplaced(s) ==
            /\ TwoSided(s) /\ ~Unbound(s)
            /\ \E pin \in PinFootprints(registrations[<<stock.id, s>>]) :
                    ~Within(pin, StockRect(stock)) \/ pin \notin stock.clamps
        wrong == {s \in sheets : Unbound(s) \/ Misplaced(s)}
        operations == OperationsFor(layout, parts, stock, machine)
    IN  IF wrong # {}
        THEN IF Unbound(Least(wrong, LAMBDA s : <<s>>)) THEN "TWO_SIDED_REGISTRATION_MISSING"
                                                        ELSE "TWO_SIDED_REGISTRATION_INVALID"
        ELSE IF \E p \in parts : \E f \in p.features :
                    f.side = "EDGE" \/ select_tool(f, machine) = {}
        THEN "UNSUPPORTED"
        ELSE IF \E s \in sheets : SequenceConflicts(s, operations)
        THEN "SETUP_SEQUENCE_CONFLICT" ELSE ""

\* Sorted: an operation's place is the number of operations before it.
Sequenced(operations) ==
    [n \in 1 .. Cardinality(operations) |->
        CHOOSE o \in operations :
            Cardinality({q \in operations : Before(OperationKey(q), OperationKey(o))}) = n - 1]
=============================================================================
