--------------------------- MODULE MCProduction ---------------------------
(***************************************************************************)
(* An instance of MachineProgram for TLC.                                  *)
(***************************************************************************)
EXTENDS MachineProgram

Drill == 1
Mill == 2

MCTools ==
    [t \in {Drill, Mill} |->
       [geometry |-> IF t = Drill THEN "drill" ELSE "end mill", diameter |-> 4,
        cutting |-> 8, stickout |-> 10, holder |-> 2, assembly |-> 3, table |-> 1]]

MCRecipe(step) ==
    [material |-> 1, tolerance |-> 1, rpm |-> 1, feed |-> 2, plunge |-> 1, step |-> step, stepover |-> 2, accuracy |-> 1,
     overtravel |-> 2, tabHeight |-> 2, tabWidth |-> 3, approach |-> 1]

MCRecipes ==
    [k \in {<<Drill, "drill">>, <<Mill, "pocket">>, <<Mill, "contour">>} |->
       MCRecipe(CASE k[2] = "contour" -> 4 [] OTHER -> 1)]

Op(id, kind, setup, tool, part, rect, depth) ==
    [id |-> id, kind |-> kind, setup |-> setup, tool |-> tool, part |-> part, rect |-> rect,
     depth |-> depth, through |-> kind = "contour", outside |-> TRUE]

Part1 == Rect(6, 6, 16, 16)
OnePart ==
    { Op(1, "drill", 1, Drill, 1, Rect(18, 10, 0, 0), 2),
      Op(2, "pocket", 1, Mill, 1, Rect(8, 10, 8, 9), 2),
      Op(3, "contour", 1, Mill, 1, Part1, 4) }

MCProfile(setups) ==
    [attested |-> Policies, offsets |-> [i \in 1 .. Len(setups) |-> setups[i].origin], changeZ |-> 5]

MCJob(setups, ops, recipes, width) ==
    [profile |-> MCProfile(setups),
     machine |-> [bed |-> Rect(-2, -2, 60, 40), low |-> -7, high |-> 5, minRpm |-> 1, rpm |-> 1,
                  feed |-> 2, plunge |-> 1],
     spoilboard |-> TRUE, fixtures |-> 1, setups |-> setups, ops |-> ops, tools |-> MCTools, recipes |-> recipes,
     width |-> width, height |-> 28, thickness |-> 4, allowance |-> 3, safe |-> 3,
     clearance |-> 2, keepOut |-> {}]

SideA(sheet) == [stock |-> 1, sheet |-> sheet, side |-> "A", material |-> 1, origin |-> <<1, 2>>]
SideB(sheet) == [stock |-> 1, sheet |-> sheet, side |-> "B", material |-> 1, origin |-> <<2, 1>>]

Plain1 == MCJob(<<SideA(1)>>, OnePart, MCRecipes, 28)

\* A drilled underside of the same sheet, after or before the contour that frees the part.
Underside(setup) == Op(4, "drill", setup, Drill, 1, Rect(12, 14, 0, 0), 2)
OnSetup(n, op) == [op EXCEPT !.setup = n]
FreedFirst == MCJob(<<SideA(1), SideB(1)>>, OnePart \cup {Underside(2)}, MCRecipes, 28)
FreedLast ==
    MCJob(<<SideB(1), SideA(1)>>,
          {OnSetup(2, op) : op \in {o \in OnePart : o.kind # "pocket"}} \cup {Underside(1)},
          MCRecipes, 28)

\* A clamp beside the part and a blind groove inside it.
Clamped ==
    [MCJob(<<SideA(1)>>,
           { [Op(6, "contour", 1, Mill, 1, Rect(9, 9, 9, 8), 2) EXCEPT !.through = FALSE, !.outside = FALSE],
             Op(3, "contour", 1, Mill, 1, Part1, 4) }, MCRecipes, 34)
       EXCEPT !.keepOut = {Rect(30, 6, 2, 4)}]

\* The hole alone, and the pocket alone with the outline cut in one pass.
ForContours(recipe) == [MCRecipes EXCEPT ![<<Mill, "contour">>] = recipe]
Without(kind, recipes) == MCJob(<<SideA(1)>>, {op \in OnePart : op.kind # kind}, recipes, 28)
Drilled == Without("pocket", MCRecipes)
Pocketed == Without("drill", ForContours(MCRecipe(6)))

\* A second part, too near or near enough, each outline in one pass; and recipes
\* that do not allow for the accuracy.
Crowded(x) == MCJob(<<SideA(1)>>, {Op(3, "contour", 1, Mill, 1, Part1, 4),
                                   Op(5, "contour", 1, Mill, 2, Rect(x, 6, 16, 16), 4)},
                    ForContours(MCRecipe(6)), 50)
WithContour(recipe) == MCJob(<<SideA(1)>>, OnePart, ForContours(recipe), 28)
ThinTabs == WithContour([MCRecipe(4) EXCEPT !.tabHeight = 1])
ShortOvertravel == WithContour([MCRecipe(4) EXCEPT !.overtravel = 1])
DeepHole == MCJob(<<SideA(1)>>, {IF op.kind = "drill" THEN [op EXCEPT !.depth = 3] ELSE op : op \in OnePart},
                  MCRecipes, 28)

\* One outline alone, for the runs that are disturbed; and the same with one
\* policy not attested, with an offset that is not where the stock is, with
\* tools changed below the rapid plane, at it, or out of reach, with a travel
\* that ends below the moves or among them, and with bindings its context refuses.
Outline1 == MCJob(<<SideA(1)>>, {Op(3, "contour", 1, Mill, 1, Part1, 4)}, MCRecipes, 28)
Unattested(policy) == [Outline1 EXCEPT !.profile.attested = @ \ {policy}]
Misplaced == [Outline1 EXCEPT !.profile.offsets = <<<<2, 2>>>>]
ChangeAt(z) == [Outline1 EXCEPT !.profile.changeZ = z]
TravelTo(low) == [Outline1 EXCEPT !.machine.low = low]
NoSpoilboard == [Outline1 EXCEPT !.spoilboard = FALSE]
OtherTable == [Outline1 EXCEPT !.tools[Mill].table = 2]
OtherMaterial == [Outline1 EXCEPT !.setups[1].material = 2]

MCJobs == {Plain1, Drilled, Pocketed, Clamped, FreedFirst, FreedLast, Crowded(24), Crowded(28),
           ThinTabs, ShortOvertravel, DeepHole, Outline1, Misplaced, ChangeAt(2), ChangeAt(3), ChangeAt(6), TravelTo(-6), TravelTo(-5),
           NoSpoilboard, OtherTable, OtherMaterial}
             \cup {Unattested(policy) : policy \in Policies}
MCUnluckyJobs == {Outline1} \cup {Unattested(policy) : policy \in Policies}
MCEditedJobs == {Drilled, Pocketed, Clamped}
===========================================================================
