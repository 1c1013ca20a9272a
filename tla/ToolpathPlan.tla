--------------------------- MODULE ToolpathPlan ---------------------------
(***************************************************************************)
(* From the operations of a nested sheet to cutting moves, and the         *)
(* independent verification of those moves (custombuild_cam: toolpaths.py, *)
(* production_verification.py, production_model.py).                       *)
(*                                                                         *)
(* Lengths are small integers: a unit stands for the process accuracy of   *)
(* the recipes.  A point is <<x, y>>; z is 0 at the stock top and negative *)
(* in the material.  Identities, versions and fingerprints are abstracted  *)
(* to whether a document still carries the current one.  A corner arc of   *)
(* an outside contour is one chord, and operations have no corner reliefs, *)
(* open ends or countersinks.                                              *)
(*                                                                         *)
(* A job is a record:                                                      *)
(*   setups   sequence of [stock, sheet, side, material, origin]           *)
(*   ops      set of operations [id, kind, setup, tool, part, rect, depth, *)
(*            through, outside], rect = [x, y, w, l], a drill's w = l = 0  *)
(*   tools    function to [geometry, diameter, cutting, stickout, holder,  *)
(*            assembly, table]                                             *)
(*   recipes  function <<tool, kind>> to [material, rpm, feed, plunge,     *)
(*            step, stepover, accuracy, tolerance, overtravel, tabHeight,  *)
(*            tabWidth, approach]                                          *)
(*   machine  [bed, low, high, minRpm, rpm, feed, plunge]: its travel in   *)
(*            the plane and along Z, and its limits                        *)
(*   width, height, thickness, allowance, spoilboard, fixtures, safe,      *)
(*   clearance, keepOut, and the profile of MachineProgram                 *)
(***************************************************************************)
EXTENDS Geometry, FiniteSets
LOCAL INSTANCE SequencesExt
LOCAL INSTANCE FiniteSetsExt

Bindings == {"design", "operations", "machine", "tools", "recipes", "authority"}

IsReleaseContour(op) == op.kind = "contour" /\ op.through /\ op.outside

Recipe(job, op) == job.recipes[<<op.tool, op.kind>>]
Binding(job, op) == job.tools[op.tool]
SetupOf(job, op) == job.setups[op.setup]
Radius(job, op) == Binding(job, op).diameter \div 2
SheetOf(setup) == <<setup.stock, setup.sheet>>

\* Only a setup with through cuts declares how far they may enter its spoilboard.
Allowance(job, i) ==
    IF \E op \in job.ops : op.setup = i /\ op.through THEN job.allowance ELSE 0

(***************************************************************************)
(* The stock's coordinates.  Side B lies mirrored on the machine.          *)
(***************************************************************************)
Swept(p, q, radius) ==
    Rect(Smaller(p[1], q[1]) - radius, Smaller(p[2], q[2]) - radius,
         Larger(p[1], q[1]) - Smaller(p[1], q[1]) + 2 * radius,
         Larger(p[2], q[2]) - Smaller(p[2], q[2]) + 2 * radius)

Stock(job) == Rect(0, 0, job.width, job.height)

\* The stock top lies at Z 0 of the machine and every tool is measured from there.
WithinTravel(job, z) == job.machine.low <= z /\ z <= job.machine.high

ToPhysical(job, setup, r) ==
    IF setup.side = "B" THEN [r EXCEPT !.y = job.height - Top(r)] ELSE r

PointToPhysical(job, setup, p) ==
    IF setup.side = "B" THEN <<p[1], job.height - p[2]>> ELSE p

(***************************************************************************)
(* The execution context of a workshop: what its constructors refuse.      *)
(***************************************************************************)
ToolBindingHolds(tool) ==
    /\ tool.cutting <= tool.stickout
    /\ tool.holder < tool.stickout
    /\ 2 * tool.assembly >= tool.diameter

RecipeHolds(kind, recipe) ==
    /\ recipe.accuracy <= recipe.tolerance
    /\ kind = "contour" => recipe.overtravel > 0 /\ recipe.tabWidth > 2 * recipe.accuracy

BoundSetupHolds(job) ==
    /\ job.fixtures + job.clearance <= job.safe
    /\ job.allowance > 0 => job.spoilboard
    /\ \A k \in job.keepOut : k.w > 0 /\ k.l > 0 /\ Within(k, Stock(job))

ContextHolds(job) ==
    /\ job.machine.low < job.machine.high /\ job.machine.minRpm <= job.machine.rpm
    /\ \A t \in DOMAIN job.tools : ToolBindingHolds(job.tools[t])
    /\ \A t, u \in DOMAIN job.tools : job.tools[t].table = job.tools[u].table
    /\ BoundSetupHolds(job)
    /\ \A i \in 1 .. Len(job.setups) :
          Within(Rect(job.setups[i].origin[1], job.setups[i].origin[2], job.width, job.height), job.machine.bed)
    /\ \A i, j \in 1 .. Len(job.setups) :
          SheetOf(job.setups[i]) = SheetOf(job.setups[j]) => job.setups[i].material = job.setups[j].material
    /\ \A k \in DOMAIN job.recipes :
          LET recipe == job.recipes[k]
          IN  /\ RecipeHolds(k[2], recipe)
              /\ k[1] \in DOMAIN job.tools
              /\ job.machine.minRpm <= recipe.rpm /\ recipe.rpm <= job.machine.rpm
              /\ recipe.feed <= job.machine.feed /\ recipe.plunge <= job.machine.plunge
              /\ k[2] = "pocket" =>
                    recipe.stepover + 2 * recipe.accuracy <= job.tools[k[1]].diameter

\* Every operation finds a recipe for the material of its setup and its tool.
SourceBindingHolds(job) ==
    \A op \in job.ops :
       /\ <<op.tool, op.kind>> \in DOMAIN job.recipes
       /\ Recipe(job, op).material = SetupOf(job, op).material
       /\ op.through => job.allowance > 0
       /\ Binding(job, op).diameter % 2 = 0

(***************************************************************************)
(* The release contours are the only record of where the parts lie.        *)
(***************************************************************************)
Releases(job, part) == {op \in job.ops : op.part = part /\ IsReleaseContour(op)}
Outline(job, part) ==
    LET op == CHOOSE o \in Releases(job, part) : TRUE
    IN  ToPhysical(job, SetupOf(job, op), op.rect)
Parts(job) == {op.part : op \in job.ops}
PartSheet(job, part) ==
    SheetOf(SetupOf(job, CHOOSE op \in job.ops : op.part = part))

OutlinesBound(job) ==
    /\ \A part \in Parts(job) :
          /\ Cardinality(Releases(job, part)) = 1
          /\ \A op \in job.ops : op.part = part => SheetOf(SetupOf(job, op)) = PartSheet(job, part)
    /\ \A a, b \in Parts(job) :
          a # b /\ PartSheet(job, a) = PartSheet(job, b)
             => ~Touch(Outline(job, a), Outline(job, b))

OperationInsideOutline(job, op) ==
    Within(ToPhysical(job, SetupOf(job, op), op.rect), Outline(job, op.part))

FootprintClear(job, r) == Within(r, Stock(job)) /\ \A k \in job.keepOut : ~Touch(r, k)

\* A cut stays in the stock, off the clamps, off the other parts, and, but for
\* the contour that frees it, inside its own part.
CutSegmentClear(job, op, p, q) ==
    LET recipe == Recipe(job, op)
        sweep == Swept(p, q, Radius(job, op) + recipe.accuracy)
        assembly == Swept(p, q, Binding(job, op).assembly + recipe.accuracy)
        physical == ToPhysical(job, SetupOf(job, op), sweep)
    IN  /\ FootprintClear(job, sweep)
        /\ \A k \in job.keepOut : ~Touch(assembly, k)
        /\ ~IsReleaseContour(op) => Within(physical, Outline(job, op.part))
        /\ \A other \in Parts(job) \ {op.part} :
              PartSheet(job, other) = PartSheet(job, op.part)
                 => ~Touch(physical, Outline(job, other))

(***************************************************************************)
(* What the generator demands of an operation and its recipe.              *)
(***************************************************************************)
TargetDepth(job, op) ==
    IF op.through THEN job.thickness + Recipe(job, op).overtravel ELSE op.depth

TabFloor(job, recipe) == -(job.thickness - recipe.tabHeight)

DepthContract(job, op) ==
    LET recipe == Recipe(job, op)
        tool == Binding(job, op)
        worst == TargetDepth(job, op) + recipe.accuracy
    IN  /\ op.depth > 0
        /\ recipe.approach < job.safe
        /\ recipe.accuracy < job.clearance
        /\ worst <= tool.cutting
        /\ worst + tool.holder <= tool.stickout
        /\ op.through => /\ op.depth >= job.thickness
                         /\ recipe.overtravel > recipe.accuracy
                         /\ recipe.overtravel + recipe.accuracy <= job.allowance
        /\ ~op.through => op.depth < job.thickness /\ worst < job.thickness

DrillContract(job, op) ==
    /\ ~op.through
    /\ Binding(job, op).geometry = "drill"
    /\ FootprintClear(job, Swept(<<op.rect.x, op.rect.y>>, <<op.rect.x, op.rect.y>>, Radius(job, op)))

AreaContract(job, op) ==
    LET recipe == Recipe(job, op)
        tool == Binding(job, op)
    IN  /\ ~op.through
        /\ tool.geometry = "end mill"
        /\ Smaller(op.rect.w, op.rect.l) > tool.diameter
        /\ recipe.stepover + 2 * recipe.accuracy <= tool.diameter
        /\ FootprintClear(job, op.rect)

ContourContract(job, op) ==
    LET recipe == Recipe(job, op)
        tool == Binding(job, op)
        edge == Smaller(op.rect.w, op.rect.l)
        sweep == IF op.outside
                 THEN Rect(op.rect.x - tool.diameter, op.rect.y - tool.diameter,
                           op.rect.w + 2 * tool.diameter, op.rect.l + 2 * tool.diameter)
                 ELSE op.rect
    IN  /\ tool.geometry = "end mill"
        /\ op.through => op.outside
        /\ edge > tool.diameter
        /\ FootprintClear(job, sweep)
        /\ IsReleaseContour(op) =>
              /\ recipe.tabHeight < job.thickness
              /\ recipe.tabHeight > recipe.accuracy
              /\ recipe.tabWidth > 2 * recipe.accuracy
              /\ edge > recipe.tabWidth + 3 * tool.diameter

OperationContract(job, op) ==
    /\ DepthContract(job, op)
    /\ CASE op.kind = "drill" -> DrillContract(job, op)
         [] op.kind = "pocket" -> AreaContract(job, op)
         [] op.kind = "contour" -> ContourContract(job, op)

(***************************************************************************)
(* The moves of one operation.                                             *)
(***************************************************************************)
Move(op, pass, kind, role, p, z, feed) ==
    [op |-> op.id, pass |-> pass, kind |-> kind, role |-> role, p |-> p, z |-> z, feed |-> feed]

Position(job, op, pass, p) ==
    << Move(op, pass, "rapid", "position", p, job.safe, 0),
       Move(op, pass, "rapid", "approach", p, Recipe(job, op).approach, 0) >>
Plunge(job, op, pass, p, z) ==
    << Move(op, pass, "linear", "cut", p, z, Recipe(job, op).plunge) >>
Retract(job, op, pass, p) == << Move(op, pass, "rapid", "retract", p, job.safe, 0) >>

Feeds(job, op, pass, points, z) ==
    [i \in 1 .. Len(points) |-> Move(op, pass, "linear", "cut", points[i], z, Recipe(job, op).feed)]

\* Mutant: a last, shallower level is forgotten.
WholeSteps(depth, step) == [i \in 1 .. depth \div step |-> -Smaller(i * step, depth)]

depth_levels_um(depth, step) ==
    [i \in 1 .. (depth + step - 1) \div step |-> -Smaller(i * step, depth)]

PeckMoves(job, op) ==
    LET levels == depth_levels_um(TargetDepth(job, op), Recipe(job, op).step)
        p == <<op.rect.x, op.rect.y>>
        Peck(i) == Plunge(job, op, i, p, levels[i]) \o
                   IF i = Len(levels) THEN << >>
                   ELSE <<Move(op, i, "rapid", "peck", p, Recipe(job, op).approach, 0)>>
    IN  Position(job, op, 1, p) \o FlattenSeq([i \in 1 .. Len(levels) |-> Peck(i)])
           \o Retract(job, op, Len(levels), p)

\* The cutter's centre in a pocket, and the lanes it takes through it.
RasterBounds(job, op) ==
    LET r == Radius(job, op)
    IN  Rect(op.rect.x + r, op.rect.y + r, op.rect.w - 2 * r, op.rect.l - 2 * r)

InclusiveLanes(from, to, step) ==
    [i \in 1 .. (to - from + step - 1) \div step + 1 |-> Smaller(from + (i - 1) * step, to)]

RasterPoints(job, op) ==
    LET b == RasterBounds(job, op)
        across == b.w >= b.l
        lanes == IF across THEN InclusiveLanes(b.y, Top(b), Recipe(job, op).stepover)
                           ELSE InclusiveLanes(b.x, Right(b), Recipe(job, op).stepover)
        Ends(i) == IF across THEN <<<<b.x, lanes[i]>>, <<Right(b), lanes[i]>>>>
                             ELSE <<<<lanes[i], b.y>>, <<lanes[i], Top(b)>>>>
    IN  FlattenSeq([i \in 1 .. Len(lanes) |->
                       IF i % 2 = 1 THEN Ends(i) ELSE Reverse(Ends(i))])

BoundaryPoints(job, op) ==
    LET b == RasterBounds(job, op)
        lap == << <<b.x, b.y>>, <<Right(b), b.y>>, <<Right(b), Top(b)>>, <<b.x, Top(b)>>, <<b.x, b.y>> >>
    IN  IF Last(RasterPoints(job, op)) = lap[1] THEN Tail(lap) ELSE lap

RasterMoves(job, op) ==
    LET levels == depth_levels_um(TargetDepth(job, op), Recipe(job, op).step)
        points == RasterPoints(job, op)
        boundary == BoundaryPoints(job, op)
        Pass(i) == Position(job, op, i, points[1]) \o Plunge(job, op, i, points[1], levels[i])
                      \o Feeds(job, op, i, Tail(points) \o boundary, levels[i])
                      \o Retract(job, op, i, Last(boundary))
    IN  FlattenSeq([i \in 1 .. Len(levels) |-> Pass(i)])

\* The eight vertices of the centreline round an outline, edge and corner in turn.
OutsideVertices(r, radius) ==
    << <<r.x, r.y - radius>>, <<Right(r), r.y - radius>>,
       <<Right(r) + radius, r.y>>, <<Right(r) + radius, Top(r)>>,
       <<Right(r), Top(r) + radius>>, <<r.x, Top(r) + radius>>,
       <<r.x - radius, Top(r)>>, <<r.x - radius, r.y>> >>

Along(p, q, d) ==
    << p[1] + (IF q[1] > p[1] THEN d ELSE IF q[1] < p[1] THEN -d ELSE 0),
       p[2] + (IF q[2] > p[2] THEN d ELSE IF q[2] < p[2] THEN -d ELSE 0) >>
Length(p, q) == Larger(p[1], q[1]) - Smaller(p[1], q[1]) + Larger(p[2], q[2]) - Smaller(p[2], q[2])

\* One edge at depth z, over a tab in its middle when the pass is below the tabs.
EdgeWithOptionalTab(job, op, pass, p, q, z) ==
    LET recipe == Recipe(job, op)
        floor == TabFloor(job, recipe)
        width == recipe.tabWidth + Binding(job, op).diameter
        before == (Length(p, q) - width) \div 2
        start == Along(p, q, before)
        end == Along(p, q, before + width)
    IN  IF IsReleaseContour(op) /\ z < floor
        THEN << Move(op, pass, "linear", "cut", start, z, recipe.feed),
                Move(op, pass, "linear", "tab ramp", start, floor, recipe.plunge),
                Move(op, pass, "linear", "tab bridge", end, floor, recipe.feed),
                Move(op, pass, "linear", "tab ramp", end, z, recipe.plunge),
                Move(op, pass, "linear", "cut", q, z, recipe.feed) >>
        ELSE << Move(op, pass, "linear", "cut", q, z, recipe.feed) >>

OutsideMoves(job, op, pass, z) ==
    LET v == OutsideVertices(op.rect, Radius(job, op))
        Corner(k) == Feeds(job, op, pass, <<v[((2 * k) % 8) + 1]>>, z)
    IN  FlattenSeq([k \in 1 .. 4 |->
            EdgeWithOptionalTab(job, op, pass, v[2 * k - 1], v[2 * k], z) \o Corner(k)])

InsidePoints(job, op) ==
    LET b == RasterBounds(job, op)
    IN  << <<b.x, b.y>>, <<b.x, Top(b)>>, <<Right(b), Top(b)>>, <<Right(b), b.y>>, <<b.x, b.y>> >>

ContourMoves(job, op) ==
    LET levels == depth_levels_um(TargetDepth(job, op), Recipe(job, op).step)
        start == IF op.outside THEN OutsideVertices(op.rect, Radius(job, op))[1]
                               ELSE InsidePoints(job, op)[1]
        Pass(i) == Position(job, op, i, start) \o Plunge(job, op, i, start, levels[i])
                      \o (IF op.outside THEN OutsideMoves(job, op, i, levels[i])
                          ELSE Feeds(job, op, i, Tail(InsidePoints(job, op)), levels[i]))
                      \o Retract(job, op, i, start)
    IN  FlattenSeq([i \in 1 .. Len(levels) |-> Pass(i)])

OperationMoves(job, op) ==
    CASE op.kind = "drill" -> PeckMoves(job, op)
      [] op.kind = "pocket" -> RasterMoves(job, op)
      [] op.kind = "contour" -> ContourMoves(job, op)

(***************************************************************************)
(* Programs: one per setup, phase, tool and spindle speed, in run order.   *)
(***************************************************************************)
GroupKey(job, op) ==
    <<op.setup, IF IsReleaseContour(op) THEN 1 ELSE 0, op.tool, Recipe(job, op).rpm>>

GroupKeys(job) == SetToSortSeq({GroupKey(job, op) : op \in job.ops}, Before)

KindRank(op) == CASE op.kind = "drill" -> 1 [] op.kind = "pocket" -> 2 [] op.kind = "contour" -> 3

GroupOperations(job, key) ==
    SetToSortSeq({op \in job.ops : GroupKey(job, op) = key},
                 LAMBDA a, b : Before(<<KindRank(a), a.id>>, <<KindRank(b), b.id>>))

SafePhysicalSheetOrder(job, keys) ==
    \A i, j \in 1 .. Len(keys) :
       i < j /\ SheetOf(job.setups[keys[i][1]]) = SheetOf(job.setups[keys[j][1]]) => keys[i][2] = 0

Program(job, key) ==
    LET ops == GroupOperations(job, key)
    IN  [setup |-> key[1], tool |-> key[3], rpm |-> key[4],
         operations |-> [i \in 1 .. Len(ops) |-> ops[i].id],
         release |-> key[2] = 1,
         moves |-> FlattenSeq([i \in 1 .. Len(ops) |-> OperationMoves(job, ops[i])])]

\* Every cut the builder adds is clear of what it must not touch.
MovesClear(job, program) ==
    \A i \in 2 .. Len(program.moves) :
       program.moves[i].kind = "linear" =>
          LET op == CHOOSE o \in job.ops : o.id = program.moves[i].op
          IN  CutSegmentClear(job, op, program.moves[i - 1].p, program.moves[i].p)

\* The controlled point of every move, work offset added, is within the travel.
EndpointsWithinMachine(job, program) ==
    LET origin == job.setups[program.setup].origin
    IN  \A i \in 1 .. Len(program.moves) :
           /\ Within(Rect(origin[1] + program.moves[i].p[1], origin[2] + program.moves[i].p[2], 0, 0),
                     job.machine.bed)
           /\ WithinTravel(job, program.moves[i].z)

(***************************************************************************)
(* What the constructors of moves, programs and documents refuse, so that  *)
(* no document without it can exist.                                       *)
(***************************************************************************)
MoveHolds(move) ==
    /\ {move.p[1], move.p[2], move.z} \subseteq Int
    /\ IF move.kind = "rapid"
       THEN move.feed = 0 /\ move.role \in {"position", "approach", "peck", "retract"}
       ELSE move.feed > 0 /\ move.role \notin {"position", "retract"}

ProgramHolds(job, program) ==
    /\ program.setup \in 1 .. Len(job.setups) /\ program.tool \in DOMAIN job.tools
    /\ Len(program.moves) \in Nat \ {0}
    /\ {program.moves[i].op : i \in 1 .. Len(program.moves)}
          = {program.operations[i] : i \in 1 .. Len(program.operations)}
    /\ \A i \in 1 .. Len(program.moves) : MoveHolds(program.moves[i])

DocumentHolds(job, doc) ==
    /\ doc.bound["authority"]
    /\ Len(doc.programs) \in Nat \ {0}
    /\ \A i \in 1 .. Len(doc.programs) : ProgramHolds(job, doc.programs[i])
    /\ \A i, j \in 1 .. Len(doc.programs) :
          i < j /\ doc.programs[i].release
             => SheetOf(job.setups[doc.programs[i].setup]) # SheetOf(job.setups[doc.programs[j].setup])

\* What generate_production_toolpaths accepts, and what it then returns.
generate_production_toolpaths(job) ==
    [bound |-> [b \in Bindings |-> TRUE],
     programs |-> [i \in 1 .. Len(GroupKeys(job)) |-> Program(job, GroupKeys(job)[i])]]

Plannable(job) ==
    /\ ContextHolds(job)
    /\ SourceBindingHolds(job)
    /\ OutlinesBound(job)
    /\ \A op \in job.ops : OperationInsideOutline(job, op) /\ OperationContract(job, op)
    /\ SafePhysicalSheetOrder(job, GroupKeys(job))
    /\ \A i \in 1 .. Len(GroupKeys(job)) :
          LET program == Program(job, GroupKeys(job)[i])
          IN  MovesClear(job, program) /\ EndpointsWithinMachine(job, program)
    /\ DocumentHolds(job, generate_production_toolpaths(job))
===========================================================================
