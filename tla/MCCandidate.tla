---- MODULE MCCandidate ----
(***************************************************************************)
(* Two reviews of one stock: sheet 0 is cut from both sides, sheet 1 from  *)
(* one.  A third review is blocked before CAM.                             *)
(***************************************************************************)
EXTENDS CamCandidate

Setup(sheet, side) ==
    [id |-> <<1, sheet, side>>, stock |-> 1, sheet |-> sheet, side |-> side, material |-> 5]
Operation(id, sheet, side, tool, kind) ==
    [id |-> id, setup |-> <<1, sheet, side>>, tool |-> tool, kind |-> kind,
     through |-> kind = "contour", release |-> kind = "contour"]
Engine(n) == [vcs |-> "digest", source |-> n, lock |-> 1]
Review(sha, operations) ==
    [sha |-> sha, sound |-> TRUE, cam |-> TRUE, unblocked |-> TRUE, design |-> sha,
     machine |-> 1, engine |-> Engine(2),
     setups |-> <<Setup(0, "A"), Setup(0, "B"), Setup(1, "A")>>, operations |-> operations,
     tools |-> {[id |-> 1, version |-> 1], [id |-> 2, version |-> 1]}]

PlainReview == Review(1, {Operation(1, 0, "A", 1, "pocket"), Operation(2, 0, "B", 2, "drill"),
                    Operation(3, 0, "B", 1, "contour"), Operation(4, 1, "A", 1, "contour")})
Denser == Review(2, {Operation(1, 0, "A", 1, "pocket"), Operation(2, 0, "B", 2, "drill"),
                     Operation(3, 0, "B", 1, "contour"), Operation(4, 1, "A", 1, "contour"),
                     Operation(5, 1, "A", 2, "drill")})
Blocked == [Review(3, {}) EXCEPT !.cam = FALSE, !.unblocked = FALSE, !.engine = Engine(1)]
MCReviews == {PlainReview, Denser, Blocked}

-----------------------------------------------------------------------------
\* One workshop's facts.  Sheet 1 is of material m1: that of sheet 0 (7) in the plain
\* review, another (8) in the denser one.
OriginOf(side) == IF side = "A" THEN 2 ELSE 3
SetupRows(review, m1) ==
    {[id |-> s.id, stock |-> 1, sheet |-> s.sheet, side |-> s.side, source |-> 5, hash |-> s,
      material |-> IF s.sheet = 0 THEN 7 ELSE m1, evidence |-> 1,
      wcs |-> IF s.side = "A" THEN 54 ELSE 55, origin |-> OriginOf(s.side),
      allowance |-> IF HasThroughCut(review, s.id) THEN 3 ELSE 0] : s \in Rows(review.setups)}
Tool(review, id, number) ==
    [source |-> id, hash |-> [id |-> id, version |-> 1], id |-> 10 + id, number |-> number,
     offset |-> number, length |-> 5, geometry |-> IF id = 2 THEN "drill" ELSE "end_mill",
     table |-> 1]
ToolRows(review) == {Tool(review, 1, 1), Tool(review, 2, 2)}
RecipeRow(id, material, tool, kind) ==
    [id |-> id, machine |-> 9, material |-> material, tool |-> 10 + tool, kind |-> kind,
     rpm |-> IF kind = "drill" THEN 2 ELSE 3, step |-> 2,
     overtravel |-> IF kind = "contour" THEN 2 ELSE 0, accuracy |-> 1]
RecipeRows(review, m1) ==
    {RecipeRow(1, 7, 1, "pocket"), RecipeRow(2, 7, 2, "drill"), RecipeRow(3, 7, 1, "contour")}
    \cup (IF m1 = 7 THEN {}
          ELSE {RecipeRow(4, m1, 1, "contour")}
               \cup {RecipeRow(5, m1, 2, "drill") : o \in {p \in review.operations : p.id = 5}})
PostRow == [machine |-> 9, controller |-> "linuxcnc", travel |-> 4, rpm |-> <<1, 4>>,
            offsets |-> (54 :> 2 @@ 55 :> 3), attested |-> TRUE]
MachineRow(review) ==
    [source |-> review.machine, id |-> 9, controller |-> "linuxcnc", travel |-> 4,
     rpm |-> <<1, 4>>, post |-> Computed]
Accepted == [status |-> "WORKSHOP_ACCEPTED", words |-> "exact"]

Correct(rows) == [slips |-> 0, rows |-> rows]
Slip(rows) == [slips |-> 1, rows |-> rows]
WrongSetups(review, m1) ==
    {{IF s.side = "B" THEN [s EXCEPT !.material = 8] ELSE s : s \in SetupRows(review, m1)},
     {IF s.side = "B" THEN [s EXCEPT !.origin = 4] ELSE s : s \in SetupRows(review, m1)},
     {[s EXCEPT !.allowance = 0] : s \in SetupRows(review, m1)},
     {IF s.sheet = 1 THEN [s EXCEPT !.hash = [@ EXCEPT !.material = 6], !.source = 6] ELSE s :
        s \in SetupRows(review, m1)},
     {s \in SetupRows(review, m1) : s.sheet = 0}}
\* The recipes of the other material are among them.
WrongRecipes(review, m1) ==
    {RecipeRows(review, 15 - m1),
     RecipeRows(review, m1) \cup {RecipeRow(4, 7, 1, "contour")},
     {r \in RecipeRows(review, m1) : r.kind # "drill"},
     RecipeRows(review, m1) \cup {RecipeRow(4, 7, 2, "pocket")},
     {[r EXCEPT !.overtravel = 3] : r \in RecipeRows(review, m1)},
     {[r EXCEPT !.accuracy = 2] : r \in RecipeRows(review, m1)},
     {[r EXCEPT !.rpm = 5] : r \in RecipeRows(review, m1)}}
EditsOf(review, m1) ==
    [acceptance |-> {Correct(Accepted), Slip([Accepted EXCEPT !.words = "placeholder"]),
                     Slip([Accepted EXCEPT !.status = "TEST_ONLY"])},
     machine |-> {Correct(MachineRow(review)), Slip([MachineRow(review) EXCEPT !.rpm = <<1, 3>>]),
                  Slip([MachineRow(review) EXCEPT !.post = PostRow]),
                  Slip([MachineRow(review) EXCEPT !.source = 2])},
     post |-> {Correct(PostRow), Slip([PostRow EXCEPT !.offsets = 54 :> 2]),
               Slip([PostRow EXCEPT !.machine = 8]), Slip([PostRow EXCEPT !.attested = FALSE])},
     setups |-> {Correct(SetupRows(review, m1))}
                    \cup {Slip(rows) : rows \in WrongSetups(review, m1)},
     tools |-> {Correct(ToolRows(review)), Slip({Tool(review, 1, 1), Tool(review, 2, 1)}),
                Slip({Tool(review, 1, 1)})},
     recipes |-> {Correct(RecipeRows(review, m1))}
                    \cup {Slip(rows) : rows \in WrongRecipes(review, m1)}]
MCEdits == <<EditsOf(PlainReview, 7), EditsOf(Denser, 8)>>

-----------------------------------------------------------------------------
Payload(review, m1, class) ==
    [class |-> class,
     acceptance |-> IF class = "TEST_ONLY" THEN [Accepted EXCEPT !.status = "TEST_ONLY"] ELSE Accepted,
     machine |-> [MachineRow(review) EXCEPT !.post = PostRow], post |-> PostRow,
     setups |-> SetupRows(review, m1), tools |-> ToolRows(review),
     recipes |-> RecipeRows(review, m1)]
\* The same workshop with side B clamped elsewhere.
Moved(payload) ==
    LET post == [payload.post EXCEPT !.offsets[55] = 4]
    IN  [payload EXCEPT !.post = post, !.machine.post = post,
                        !.setups = {IF s.wcs = 55 THEN [s EXCEPT !.origin = 4] ELSE s : s \in @}]
Standard == ProductionDocument(Payload(PlainReview, 7, "SERVER_OWNED"))
Elsewhere == ProductionDocument(Moved(Payload(PlainReview, 7, "SERVER_OWNED")))
TestProfile == ProductionDocument(Payload(PlainReview, 7, "TEST_ONLY"))
MCHandWritten ==
    {TestProfile, [Standard EXCEPT !.form = "pretty"], [Standard EXCEPT !.form = "unknown_key"],
     [Standard EXCEPT !.payload = Elsewhere.payload],
     ProductionDocument([Standard.payload EXCEPT !.machine.post = Elsewhere.payload.post])}

Identity(n) == [vcs |-> "digest", source |-> n, lock |-> 1]
MCIdentities == {Identity(1), Identity(2), TestOnlyIdentity}
MCLocalSource == [source |-> 1, lock |-> 1]
MCSiblings ==
    {[review |-> 2, profile |-> Standard, identity |-> Identity(1)],
     [review |-> 1, profile |-> Elsewhere, identity |-> Identity(1)],
     [review |-> 1, profile |-> TestProfile, identity |-> TestOnlyIdentity]}
====
