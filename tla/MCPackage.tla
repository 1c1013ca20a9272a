------------------------------ MODULE MCPackage ------------------------------
(***************************************************************************)
(* Small sheets, cutters and designs for the review package.               *)
(***************************************************************************)
EXTENDS ReviewPackage

-----------------------------------------------------------------------------
\* Features and parts; lengths in units of the cutter's diameter.
Feature(id, kind, side, rect, depth, through) ==
    [id |-> id, kind |-> kind, side |-> side, rect |-> rect, x |-> rect.x, y |-> rect.y,
     dia |-> 0, count |-> 1, pitch |-> 0, depth |-> depth, through |-> through,
     open |-> {}, strategy |-> "none", relief |-> 0, square |-> FALSE, overlaps |-> {},
     clearance |-> 0, tolerance |-> 0]
Hole(id, side, x, y, count, depth) ==
    [Feature(id, "DRILL_PATTERN", side, Rect(x, y, 0, 0), depth, FALSE)
        EXCEPT !.dia = 2, !.count = count, !.pitch = 2]
Panel(id, w, l, features, release) ==
    [id |-> id, name |-> 1, material |-> 1, w |-> w, l |-> l, thickness |-> 4, quantity |-> 1,
     grain |-> "NONE", rotate |-> TRUE,
     features |-> features \cup
        {Feature(9, "OUTER_CONTOUR", release, Rect(0, 0, w, l), 4, TRUE)}]

Groove(id, side, x, depth) == Feature(id, "GROOVE", side, Rect(x, 1, 1, 2), depth, FALSE)
OpenGroove(id, side, x, depth) ==
    [Feature(id, "GROOVE", side, Rect(x, 0, 1, 2), depth, FALSE)
        EXCEPT !.open = {"v_min"}, !.strategy = "dogbone-v2", !.relief = 1, !.square = TRUE]

-----------------------------------------------------------------------------
Contract(statement) ==
    [statement |-> statement, mechanical |-> TRUE, rated |-> 2, capacity |-> 4, factor |-> 2,
     hardware |-> 1, thicknesses |-> {4}, materials |-> {1, 2}]
Dado(contract) ==
    [type |-> "dado", class |-> "load_bearing_carcass_dado", members |-> {1, 2},
     contract |-> contract, hardware |-> 1, onBack |-> FALSE]
Joint(type) == [Dado(Nothing) EXCEPT !.type = type, !.onBack = type = "rabbet"]
Design(id, parts, contract) ==
    [id |-> id, parts |-> parts, contract |-> contract, joints |-> {Dado(contract)},
     load |-> 2, factor |-> 2, back |-> "none", captive |-> FALSE, adjustable |-> FALSE,
     edgeBand |-> FALSE]

SheetStock(id) ==
    [id |-> id, material |-> 1, w |-> 12, l |-> 8, thickness |-> 4, quantity |-> 1, margin |-> 1,
     kerf |-> 1, grain |-> "X", rotate |-> TRUE, defects |-> {}, clamps |-> {}]
Machine(id, zones) ==
    [id |-> id, w |-> 12, l |-> 10, z |-> 8, safe_z |-> 2, accuracy |-> 0, max_rpm |-> 5,
     keepouts |-> zones, sides |-> {"A"}, flip |-> TRUE, edge |-> FALSE,
     operations |-> {"DRILL", "GROOVE", "CONTOUR"},
     tools |-> {[id |-> 1, dia |-> 1, length |-> 5, rpm |-> 5, runout |-> 0,
                 operations |-> {"GROOVE", "CONTOUR"}],
                [id |-> 2, dia |-> 2, length |-> 3, rpm |-> 4, runout |-> 0,
                 operations |-> {"DRILL"}]}]
Router == Machine(1, {})
WideRouter == Machine(2, {Rect(10, 8, 2, 2)})
MCReferenceMachines == {Router, WideRouter}

Pins(x) == [pin |-> 1, tolerance |-> 0, points |-> {<<x, 1>>, <<x, 7>>}]
NoPins == [k \in {} |-> 0]
Registered(x) == [k \in {<<1, 0>>} |-> Pins(x)]

Request(design, stocks, machine, registrations, revision) ==
    [design |-> design, stocks |-> stocks, machine |-> machine, registrations |-> registrations,
     program |-> TRUE, freecad |-> FALSE, includeStep |-> TRUE, allowBlocked |-> TRUE,
     enclosed |-> [k \in {"bom.pdf"} |-> design.id], release |-> FALSE,
     named |-> <<design.id, machine.id>>, project |-> 1, revision |-> revision, evidence |-> {},
     source |-> 1,
     statement |-> IF design.contract = Nothing THEN 0 ELSE design.contract.statement,
     provenance |-> 1, furniture |-> 0]

-----------------------------------------------------------------------------
\* Calls whose packages are mixed.
PlainParts == {Panel(1, 4, 3, {Groove(1, "A", 1, 2)}, "A"), Panel(2, 3, 3, {}, "A")}
TwoSided ==
    {Panel(1, 4, 3, {Groove(1, "A", 1, 2), Groove(2, "B", 1, 1)}, "A"), Panel(2, 3, 3, {}, "A")}
Veneered == {[p EXCEPT !.grain = "X"] : p \in PlainParts}

Bound == Design(1, PlainParts, Contract(7))
Loose == Design(2, PlainParts, Nothing)
Turned == Design(3, TwoSided, Contract(7))
Grained == Design(4, Veneered, Contract(7))
Large == {[SheetStock(1) EXCEPT !.l = 10]}

Good == [Request(Bound, {SheetStock(1)}, Router, NoPins, 1) EXCEPT !.freecad = TRUE]
MCSpliced ==
    {Good, [Good EXCEPT !.freecad = FALSE, !.program = FALSE],
     [Request(Bound, Large, WideRouter, NoPins, 1) EXCEPT !.evidence = {"hardware"}],
     Request(Loose, {SheetStock(1)}, Router, NoPins, 1),
     Request(Bound, {[SheetStock(1) EXCEPT !.w = 4]}, Router, NoPins, 1),
     Request(Grained, {[SheetStock(1) EXCEPT !.grain = "none"]}, Router, NoPins, 2),
     Request(Turned, {SheetStock(1)}, Router, NoPins, 1),
     [Request(Turned, {SheetStock(1)}, Router, Registered(11), 1) EXCEPT !.freecad = TRUE]}

-----------------------------------------------------------------------------
\* Calls that plan sheets: cuts of both sides, with and without room between
\* them, open ends, fixtures and pins; and calls that are refused.
Cuts ==
    {{Groove(1, "A", x, d)} : x \in {1, 2}, d \in {2, 3}}
    \cup {{Groove(1, "A", 1, 2), Groove(2, "B", x, d)} : x \in {1, 2}, d \in {1, 2}}
    \cup {{OpenGroove(1, side, 1, 2)} : side \in {"A", "B"}}
    \cup {{Hole(1, "A", 2, 1, 1, 2), Groove(2, "B", 3, 2)}}
Sheets == {SheetStock(1), [SheetStock(1) EXCEPT !.clamps = {Rect(0, 0, 2, 2)}],
           [SheetStock(1) EXCEPT !.defects = {Rect(5, 1, 1, 2)}, !.l = 9]}
Planned ==
    {Request(Design(5, {Panel(1, 4, 3, cuts, side), Panel(2, 3, 4, {}, "A")}, Contract(7)),
             {sheet}, Router, pins, 1) :
        cuts \in Cuts, side \in {"A", "B"}, sheet \in Sheets, pins \in {NoPins, Registered(10)}}

\* Two identical veneered blanks, which fit the narrow stock only when they are turned.
Twins(alike) ==
    Request(Design(6, {[Panel(1, 4, 3, {}, "A") EXCEPT !.grain = "X"],
                       [Panel(2, 4, 3, {}, "A") EXCEPT !.grain = "X", !.rotate = alike]},
                   Contract(7)),
            {[SheetStock(1) EXCEPT !.w = 5, !.l = 7, !.grain = "none"],
             [SheetStock(2) EXCEPT !.grain = "none"]}, Router, NoPins, 1)
Refused ==
    {[Good EXCEPT !.includeStep = FALSE], [Good EXCEPT !.freecad = FALSE],
     [Good EXCEPT !.freecad = FALSE, !.includeStep = FALSE],
     [Good EXCEPT !.enclosed = [k \in {"notes.pdf"} |-> 1]],
     [Good EXCEPT !.named = <<2, 1>>], [Good EXCEPT !.stocks = {}],
     [Good EXCEPT !.stocks = {SheetStock(1), [SheetStock(1) EXCEPT !.l = 9]}],
     [Good EXCEPT !.stocks = {[SheetStock(1) EXCEPT !.kerf = 0]}],
     [Good EXCEPT !.registrations = Registered(12)],
     [Good EXCEPT !.machine = Machine(3, {}), !.named = <<1, 3>>],
     [Good EXCEPT !.release = TRUE], [Good EXCEPT !.statement = 8], [Good EXCEPT !.provenance = 2],
     [Good EXCEPT !.design.joints = {Joint("dowel")}],
     [Good EXCEPT !.design.joints = {Joint("rabbet")}, !.design.back = "surface_mounted"],
     [Good EXCEPT !.design.back = "inset_groove"],
     [Good EXCEPT !.design.back = "inset_groove", !.design.captive = TRUE],
     [Good EXCEPT !.design.joints = {Joint("shelf_pin")}],
     [Good EXCEPT !.design.load = 3],
     [Request(Loose, {SheetStock(1)}, Router, NoPins, 1) EXCEPT !.allowBlocked = FALSE],
     [Request(Turned, {SheetStock(1)}, Router, NoPins, 1) EXCEPT !.allowBlocked = FALSE],
     [Good EXCEPT !.design.parts = {[p EXCEPT !.quantity = 2] : p \in PlainParts}],
     [Good EXCEPT !.stocks = {SheetStock(1), [SheetStock(2) EXCEPT !.w = 6, !.l = 5]}],
     Twins(TRUE), Twins(FALSE)}

MCRequests == MCSpliced \cup Planned \cup Refused
=============================================================================
