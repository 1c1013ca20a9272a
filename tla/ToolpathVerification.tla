----------------------- MODULE ToolpathVerification -----------------------
(***************************************************************************)
(* The independent check of a toolpath document against its source job     *)
(* (custombuild_cam/production_verification.py).  It shares the data and   *)
(* the rectangles of ToolpathPlan but none of the generator's decisions:   *)
(* levels, groups, bridges and laps are derived again.                     *)
(***************************************************************************)
EXTENDS ToolpathPlan
LOCAL INSTANCE SequencesExt

Steps(s) == 1 .. Len(s)
OpOf(job, move) == CHOOSE op \in job.ops : op.id = move.op
MovesOf(program, op) == SelectSeq(program.moves, LAMBDA m : m.op = op.id)
PassOf(moves, pass) == SelectSeq(moves, LAMBDA m : m.pass = pass)
Linear(moves) == SelectSeq(moves, LAMBDA m : m.kind = "linear")

SourceBound(doc) == \A b \in Bindings : doc.bound[b]

\* The catalogs of the context, looked at again: tool table, tools and recipes.
CatalogsBound(job) ==
    /\ Cardinality({job.tools[t].table : t \in DOMAIN job.tools}) = 1
    /\ \A t \in DOMAIN job.tools :
          LET tool == job.tools[t]
          IN  /\ tool.diameter % 2 = 0 /\ tool.cutting <= tool.stickout
              /\ tool.holder < tool.stickout /\ 2 * tool.assembly >= tool.diameter
    /\ \A k \in DOMAIN job.recipes :
          LET recipe == job.recipes[k]
          IN  /\ job.machine.minRpm <= recipe.rpm /\ recipe.rpm <= job.machine.rpm
              /\ recipe.feed <= job.machine.feed
              /\ recipe.plunge <= job.machine.plunge /\ recipe.accuracy <= recipe.tolerance

\* The setups: one material per sheet, room above the clamps, a spoilboard below
\* through cuts only, and the stock within the machine's travel, down to the
\* whole allowance and up to the rapid plane.
SetupsBound(job) ==
    /\ job.machine.low < job.machine.high
    /\ job.fixtures + job.clearance <= job.safe
    /\ \A i \in Steps(job.setups) :
          LET setup == job.setups[i]
              cutsThrough == \E op \in job.ops : op.setup = i /\ op.through
          IN  /\ \A j \in Steps(job.setups) :
                    SheetOf(job.setups[j]) = SheetOf(setup) => job.setups[j].material = setup.material
              /\ cutsThrough => job.spoilboard /\ Allowance(job, i) > 0
              /\ ~cutsThrough => Allowance(job, i) = 0
              /\ Within(Rect(setup.origin[1], setup.origin[2], job.width, job.height), job.machine.bed)
              /\ (\E op \in job.ops : op.setup = i) =>
                    /\ job.safe <= job.machine.high
                    /\ -(job.thickness + Allowance(job, i)) >= job.machine.low

\* One physical outline per part, on one sheet, apart from the others and round
\* every operation of the part.
PartOutlinesReconstruct(job) ==
    /\ \A part \in Parts(job) : Cardinality(Releases(job, part)) = 1
    /\ \A op \in job.ops : Within(ToPhysical(job, SetupOf(job, op), op.rect), Outline(job, op.part))
    /\ \A a, b \in job.ops :
          a.part = b.part => SheetOf(SetupOf(job, a)) = SheetOf(SetupOf(job, b))
    /\ \A a, b \in Parts(job) :
          a # b /\ PartSheet(job, a) = PartSheet(job, b)
             => ~Touch(Outline(job, a), Outline(job, b))

\* The deterministic partition into programs, rebuilt.
ProgramPartition(job, doc) ==
    LET keys == GroupKeys(job)
    IN  /\ Len(doc.programs) = Len(keys)
        /\ \A i \in Steps(keys) :
              LET ops == GroupOperations(job, keys[i])
              IN  /\ doc.programs[i].setup = keys[i][1]
                  /\ doc.programs[i].tool = keys[i][3]
                  /\ doc.programs[i].rpm = keys[i][4]
                  /\ doc.programs[i].release = (keys[i][2] = 1)
                  /\ doc.programs[i].operations = [j \in Steps(ops) |-> ops[j].id]

\* Contours that free parts come last on their sheet, in a program of their own.
ReleaseOrder(job, doc) ==
    \A i \in Steps(doc.programs) :
       LET program == doc.programs[i]
           Frees(id) == \E op \in job.ops : op.id = id /\ IsReleaseContour(op)
       IN  /\ program.release =>
                 /\ \A j \in Steps(program.operations) : Frees(program.operations[j])
                 /\ \A k \in i + 1 .. Len(doc.programs) :
                       SheetOf(job.setups[doc.programs[k].setup]) # SheetOf(job.setups[program.setup])
           /\ ~program.release => \A j \in Steps(program.operations) : ~Frees(program.operations[j])

ProgramEntry(job, program) ==
    /\ program.moves # << >>
    /\ LET entry == program.moves[1]
       IN  /\ entry.kind = "rapid" /\ entry.role = "position"
           /\ entry.pass = 1 /\ entry.z = job.safe
           /\ entry.op = program.operations[1]
           /\ WithinTravel(job, entry.z)

MoveOrder(program) ==
    LET first == SelectSeq([i \in Steps(program.moves) |->
                     IF i = 1 \/ program.moves[i].op # program.moves[i - 1].op
                     THEN program.moves[i].op ELSE 0], LAMBDA id : id # 0)
    IN  first = program.operations

Removes(previous, move) == move.kind = "linear" /\ Smaller(previous.z, move.z) < 0

\* Travel, tool and clamps, move by move.
MotionSafety(job, program) ==
    \A i \in Steps(program.moves) :
       LET move == program.moves[i]
           previous == IF i = 1 THEN [move EXCEPT !.z = job.safe] ELSE program.moves[i - 1]
           op == OpOf(job, move)
           accuracy == Recipe(job, op).accuracy
           tool == Binding(job, op)
           slack == IF Removes(previous, move) THEN accuracy ELSE 0
           deepest == Smaller(previous.z, move.z)
           sweep == Swept(previous.p, move.p, tool.diameter \div 2 + accuracy)
           assembly == Swept(previous.p, move.p, tool.assembly + accuracy)
       IN  /\ Within(Rect(move.p[1], move.p[2], 0, 0), Stock(job))
           /\ deepest >= job.machine.low /\ Larger(previous.z, move.z) <= job.machine.high
           /\ deepest - slack >= -(job.thickness + Allowance(job, program.setup))
           /\ slack - Smaller(deepest, 0) <= tool.cutting
           /\ slack - Smaller(deepest, 0) + tool.holder <= tool.stickout
           /\ move.kind = "rapid" =>
                 /\ move.z >= 0
                 /\ previous.p # move.p => previous.z = job.safe /\ move.z = job.safe
           /\ move.kind = "linear" => move.role \in {"cut", "tab ramp", "tab bridge"}
           /\ Removes(previous, move) =>
                 Within(sweep, Stock(job)) /\ \A k \in job.keepOut : ~Touch(sweep, k)
           /\ move.kind = "linear" \/ deepest < job.safe => \A k \in job.keepOut : ~Touch(assembly, k)

\* No cut reaches another part, and only its own contour may leave a part.
InterPartCollisions(job, program) ==
    \A i \in 2 .. Len(program.moves) :
       LET move == program.moves[i]
           previous == program.moves[i - 1]
           op == OpOf(job, move)
           sweep == ToPhysical(job, SetupOf(job, op),
                       Swept(previous.p, move.p, Radius(job, op) + Recipe(job, op).accuracy))
       IN  Removes(previous, move) =>
             /\ IsReleaseContour(op) \/ Within(sweep, Outline(job, op.part))
             /\ \A other \in Parts(job) \ {op.part} :
                   PartSheet(job, other) = PartSheet(job, op.part)
                      => ~Touch(sweep, Outline(job, other))

\* The source operation, checked again: its tool can cut it.
SourceOperationContract(job, op) ==
    LET tool == Binding(job, op)
    IN  /\ op.kind = "drill" => ~op.through /\ tool.geometry = "drill"
        /\ op.kind # "drill" => /\ tool.geometry = "end mill"
                               /\ Smaller(op.rect.w, op.rect.l) > tool.diameter
        /\ op.kind = "pocket" => ~op.through
        /\ op.kind = "contour" /\ op.through => op.outside

\* Its recipe, checked again: what it removes, how deep and beside which tabs.
RecipeOperationContract(job, op) ==
    LET recipe == Recipe(job, op)
        tool == Binding(job, op)
        depth == IF op.through THEN job.thickness + recipe.overtravel ELSE op.depth
    IN  /\ op.depth > 0 /\ recipe.approach < job.safe /\ recipe.accuracy < job.clearance
        /\ op.through <=> op.depth >= job.thickness
        /\ op.through => /\ recipe.overtravel > recipe.accuracy
                         /\ recipe.overtravel + recipe.accuracy <= job.allowance
        /\ ~op.through => depth + recipe.accuracy < job.thickness
        /\ depth + recipe.accuracy <= Smaller(tool.cutting, tool.stickout - tool.holder)
        /\ op.kind = "pocket" => recipe.stepover + 2 * recipe.accuracy <= tool.diameter
        /\ IsReleaseContour(op) =>
              /\ recipe.tabHeight \in recipe.accuracy + 1 .. job.thickness - 1
              /\ recipe.tabWidth > 2 * recipe.accuracy

DepthLevels(depth, step) ==
    LET count == CHOOSE n \in 1 .. depth : (n - 1) * step < depth /\ n * step >= depth
    IN  [i \in 1 .. count |-> IF i * step < depth THEN -(i * step) ELSE -depth]

ExpectedLevels(job, op) ==
    DepthLevels(IF op.through THEN job.thickness + Recipe(job, op).overtravel ELSE op.depth,
                Recipe(job, op).step)

\* An operation begins with a position, ends at the rapid plane, and its passes
\* first appear in order; a pass cuts at its level or, over a tab, at the tab floor.
PassDepths(job, op, moves) ==
    LET levels == ExpectedLevels(job, op)
        floor == -(job.thickness - Recipe(job, op).tabHeight)
    IN  /\ moves[1].kind = "rapid" /\ moves[1].role = "position"
        /\ Last(moves).kind = "rapid" /\ Last(moves).role = "retract" /\ Last(moves).z = job.safe
        /\ {moves[i].pass : i \in Steps(moves)} = Steps(levels)
        /\ \A i \in Steps(moves) :
              moves[i].pass > 1 => \E k \in 1 .. i - 1 : moves[k].pass = moves[i].pass - 1
        /\ \A pass \in Steps(levels) :
              LET cutting == Linear(PassOf(moves, pass))
              IN  /\ \E i \in Steps(cutting) : cutting[i].z = levels[pass]
                  /\ \A i \in Steps(cutting) :
                        \/ cutting[i].z = levels[pass]
                        \/ /\ IsReleaseContour(op) /\ levels[pass] < floor
                           /\ cutting[i].role \in {"tab ramp", "tab bridge"}
                           /\ cutting[i].z = floor

RapidHeightsAndFeeds(job, op, moves) ==
    LET recipe == Recipe(job, op)
    IN  \A i \in Steps(moves) :
           LET axial == i > 1 /\ moves[i - 1].p = moves[i].p /\ moves[i - 1].z # moves[i].z
           IN  IF moves[i].kind = "rapid"
               THEN moves[i].z = IF moves[i].role \in {"position", "retract"}
                                 THEN job.safe ELSE recipe.approach
               ELSE moves[i].feed = IF axial THEN recipe.plunge ELSE recipe.feed

\* The phases of a lap round an outline that the segment from p to q can be.
SegmentPhases(r, radius, p, q) ==
    LET v == OutsideVertices(r, radius)
        To(k) == v[(k % 8) + 1]
        On(k) == \/ k % 2 = 0 /\ p = v[k] /\ q = To(k)
                 \/ /\ k % 2 = 1
                    /\ Length(v[k], p) + Length(p, q) + Length(q, To(k)) = Length(v[k], To(k))
    IN  {k \in 1 .. 8 : On(k)}

\* Mutant: the end points of a pocket's cuts are not looked at.
SegmentIsAxialOrFlat(job, op, previous, move) ==
    /\ previous.p = move.p \/ previous.z = move.z
    /\ op.kind = "drill" => move.p = <<op.rect.x, op.rect.y>> /\ previous.p = move.p
    /\ op.kind = "contour" =>
          previous.p = move.p \/ SegmentPhases(op.rect, Radius(job, op), previous.p, move.p) # {}

\* A cutting end point, and the segment that leads to it, belong to the operation.
SegmentAllowed(job, op, previous, move) ==
    LET bounds == RasterBounds(job, op)
        In(p) == Within(Rect(p[1], p[2], 0, 0), bounds)
        v == OutsideVertices(op.rect, Radius(job, op))
    IN  /\ previous.p = move.p \/ previous.z = move.z
        /\ CASE op.kind = "drill" -> move.p = <<op.rect.x, op.rect.y>> /\ previous.p = move.p
             [] op.kind = "pocket" -> In(move.p) /\ In(previous.p)
             [] op.kind = "contour" /\ op.outside ->
                   previous.p = move.p \/ SegmentPhases(op.rect, Radius(job, op), previous.p, move.p) # {}
             [] OTHER -> In(move.p) /\ (move.p[1] \in {bounds.x, Right(bounds)}
                                          \/ move.p[2] \in {bounds.y, Top(bounds)})

OperationGeometry(job, op, moves) ==
    \A i \in 2 .. Len(moves) :
       Removes(moves[i - 1], moves[i]) => SegmentAllowed(job, op, moves[i - 1], moves[i])

DrillSequence(job, op, moves) ==
    LET levels == ExpectedLevels(job, op)
        cuts == Linear(moves)
        approach == Recipe(job, op).approach
    IN  /\ Len(moves) >= 4 /\ Len(cuts) = Len(levels)
        /\ moves[2].kind = "rapid" /\ moves[2].role = "approach" /\ moves[2].z = approach
        /\ \A i \in Steps(levels) :
              /\ cuts[i].pass = i /\ cuts[i].role = "cut" /\ cuts[i].z = levels[i]
              /\ cuts[i].p = <<op.rect.x, op.rect.y>>
        /\ \A i \in 1 .. Len(moves) - 2 :
              moves[i].kind = "linear" /\ moves[i].pass < Len(levels) =>
                 /\ moves[i + 1].kind = "rapid" /\ moves[i + 1].role = "peck"
                 /\ moves[i + 1].pass = moves[i].pass /\ moves[i + 1].p = moves[i].p

PassSequence(job, op, moves) ==
    \A pass \in Steps(ExpectedLevels(job, op)) :
       LET own == PassOf(moves, pass)
       IN  /\ Len(own) >= 4
           /\ own[1].kind = "rapid" /\ own[1].role = "position" /\ own[1].z = job.safe
           /\ own[2].kind = "rapid" /\ own[2].role = "approach"
           /\ Last(own).kind = "rapid" /\ Last(own).role = "retract" /\ Last(own).z = job.safe

\* The two ends of the bridge in the middle of each edge.
ExpectedBridges(job, op) ==
    LET v == OutsideVertices(op.rect, Radius(job, op))
        width == Recipe(job, op).tabWidth + Binding(job, op).diameter
        Edge(k) == LET p == v[2 * k - 1]
                       q == v[2 * k]
                       before == (Length(p, q) - width) \div 2
                   IN  <<Along(p, q, before), Along(q, p, Length(p, q) - width - before)>>
    IN  [k \in 1 .. 4 |-> Edge(k)]

\* Mutant: tab moves must lie at the tab floor, but need not be there.
TabsWhereMarked(job, op, moves) ==
    \A i \in Steps(moves) : moves[i].role = "tab bridge" =>
       moves[i].z = -(job.thickness - Recipe(job, op).tabHeight)

TabContract(job, op, moves) ==
    LET floor == -(job.thickness - Recipe(job, op).tabHeight)
        levels == ExpectedLevels(job, op)
        Bridge(i) == moves[i].role = "tab bridge"
        Tab(i) == moves[i].role \in {"tab ramp", "tab bridge"}
        BridgesOf(pass) == SelectSeq([i \in Steps(moves) |-> i],
                                     LAMBDA i : Bridge(i) /\ moves[i].pass = pass)
        Held(pass, i) == /\ moves[i - 2].kind = "linear" /\ moves[i - 2].role = "cut"
                         /\ moves[i - 2].z = levels[pass] /\ moves[i - 2].p = moves[i - 1].p
                         /\ moves[i - 1].role = "tab ramp" /\ moves[i - 1].z = floor
                         /\ moves[i].z = floor
                         /\ moves[i + 1].role = "tab ramp" /\ moves[i + 1].z = levels[pass]
                         /\ moves[i + 1].p = moves[i].p
                         /\ moves[i + 2].kind = "linear" /\ moves[i + 2].role = "cut"
                         /\ moves[i + 2].z = levels[pass]
    IN  IF ~IsReleaseContour(op) THEN \A i \in Steps(moves) : ~Tab(i)
        ELSE /\ floor < 0
             /\ \A pass \in Steps(levels) :
                   LET bridges == BridgesOf(pass)
                       ramps == {i \in Steps(moves) : moves[i].pass = pass /\ moves[i].role = "tab ramp"}
                   IN  IF levels[pass] < floor
                       THEN /\ Cardinality(ramps) = 8
                            /\ \A i \in Steps(bridges) : Held(pass, bridges[i])
                            /\ [i \in Steps(bridges) |-> <<moves[bridges[i] - 1].p, moves[bridges[i]].p>>]
                                  = ExpectedBridges(job, op)
                       ELSE \A i \in Steps(moves) : moves[i].pass = pass => ~Tab(i)

\* Mutant: the lanes inside the border are not asked for.
BorderOnly(job, op, moves) ==
    LET b == RasterBounds(job, op)
    IN  \A corner \in {b.x, Right(b)} \X {b.y, Top(b)} :
           \E i \in Steps(moves) : moves[i].kind = "linear" /\ moves[i].p = corner

\* Every level of a pocket has its border and lanes close enough to leave nothing.
AreaCoverage(job, op, moves) ==
    LET b == RasterBounds(job, op)
        recipe == Recipe(job, op)
        corners == << <<b.x, b.y>>, <<Right(b), b.y>>, <<Right(b), Top(b)>>, <<b.x, Top(b)>> >>
        reach == Smaller(recipe.stepover, Binding(job, op).diameter - 2 * recipe.accuracy)
        SegmentsAt(pass, z) ==
            {{moves[i - 1].p, moves[i].p} : i \in {j \in 2 .. Len(moves) :
                /\ moves[j].kind = "linear" /\ moves[j - 1].kind = "linear"
                /\ moves[j].pass = pass /\ moves[j - 1].pass = pass
                /\ moves[j].z = z /\ moves[j - 1].z = z}}
        Covered(cut) ==
            LET across == b.w >= b.l
                from == IF across THEN b.y ELSE b.x
                to == IF across THEN Top(b) ELSE Right(b)
                Lane(c) == (IF across THEN {<<b.x, c>>, <<Right(b), c>>}
                                      ELSE {<<c, b.y>>, <<c, Top(b)>>}) \in cut
            IN  /\ Lane(from) /\ Lane(to)
                /\ \A c \in from .. to - 1 : Lane(c) =>
                      \E d \in c + 1 .. Smaller(c + reach, to) : Lane(d)
    IN  \A pass \in Steps(ExpectedLevels(job, op)) :
           LET cut == SegmentsAt(pass, ExpectedLevels(job, op)[pass])
           IN  /\ \A k \in 1 .. 4 : {corners[k], corners[(k % 4) + 1]} \in cut
               /\ Covered(cut)

\* Every pass of a contour is one unbroken lap in order.
ContourCoverage(job, op, moves) ==
    \A pass \in Steps(ExpectedLevels(job, op)) :
       LET own == PassOf(moves, pass)
           cuts == Linear(own)
           points == [i \in Steps(cuts) |-> cuts[i].p]
           Phases(i) == SegmentPhases(op.rect, Radius(job, op), points[i - 1], points[i])
           moved == SelectSeq([i \in Steps(cuts) |-> i], LAMBDA i : i > 1 /\ points[i] # points[i - 1])
       IN  /\ cuts = SubSeq(own, 3, Len(own) - 1)
           /\ \A i \in 2 .. Len(cuts) : points[i] = points[i - 1] =>
                 cuts[i].role = "tab ramp" /\ cuts[i].z # cuts[i - 1].z
           /\ IF op.outside
              THEN /\ points[1] = OutsideVertices(op.rect, Radius(job, op))[1]
                   /\ Last(points) = points[1]
                   /\ UNION {Phases(i) : i \in ToSet(moved)} = 1 .. 8
                   /\ \A i \in 2 .. Len(moved) :
                         \E k \in Phases(moved[i - 1]), n \in Phases(moved[i]) : n - k \in {0, 1}
              ELSE points = InsidePoints(job, op)

OperationMotion(job, op, moves) ==
    /\ moves # << >>
    /\ PassDepths(job, op, moves)
    /\ RapidHeightsAndFeeds(job, op, moves)
    /\ OperationGeometry(job, op, moves)
    /\ op.kind = "drill" => DrillSequence(job, op, moves)
    /\ op.kind # "drill" => PassSequence(job, op, moves) /\ TabContract(job, op, moves)
    /\ op.kind = "pocket" => AreaCoverage(job, op, moves)
    /\ op.kind = "contour" => ContourCoverage(job, op, moves)

OperationCoverage(job, doc) ==
    \A op \in job.ops :
       Cardinality({place \in UNION {{i} \X Steps(doc.programs[i].operations) : i \in Steps(doc.programs)} :
                       doc.programs[place[1]].operations[place[2]] = op.id}) = 1

\* verify_production_toolpaths reports PASS.
VerificationPasses(job, doc) ==
    /\ SourceBound(doc) /\ CatalogsBound(job) /\ SetupsBound(job) /\ PartOutlinesReconstruct(job)
    /\ ProgramPartition(job, doc) /\ ReleaseOrder(job, doc) /\ OperationCoverage(job, doc)
    /\ \A i \in Steps(doc.programs) :
          LET program == doc.programs[i]
          IN  /\ ProgramEntry(job, program) /\ MoveOrder(program)
              /\ MotionSafety(job, program) /\ InterPartCollisions(job, program)
              /\ \A op \in job.ops : op.id \in ToSet(program.operations) =>
                    /\ SourceOperationContract(job, op)
                    /\ RecipeOperationContract(job, op)
                    /\ OperationMotion(job, op, MovesOf(program, op))
===========================================================================
