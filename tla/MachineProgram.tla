-------------------------- MODULE MachineProgram --------------------------
(***************************************************************************)
(* A job on its way to the machine: planned, verified, posted as LinuxCNC  *)
(* programs, checked again when the candidate is packed, and run by a      *)
(* controller (worker cam_candidate.py, custombuild_postprocessors:        *)
(* linuxcnc_production.py, production_parser.py, production_model.py).     *)
(*                                                                         *)
(* The plan and the posted text may be altered on their way (MaxEdits),    *)
(* the tool change of the controller is remappable and may leave any modal *)
(* state behind, a program may be aborted and the spindle may slow down    *)
(* (MaxIncidents), and the machine cuts up to the process accuracy too     *)
(* deep or too shallow.  What the workshop did not attest of its           *)
(* controller, the controller may do otherwise.                            *)
(*                                                                         *)
(* Positions in G53 lines and of the controller are machine coordinates,   *)
(* those of the other lines are relative to the work offset of the setup.  *)
(* The profile of a job is [attested, offsets, changeZ]: the attested      *)
(* policies, the work offset the controller's table holds for each setup   *)
(* and the height at which tools are changed.                              *)
(***************************************************************************)
EXTENDS ToolpathVerification
LOCAL INSTANCE SequencesExt

CONSTANTS Jobs,       \* the jobs that may arrive
          EditedJobs, \* the jobs whose plan or text is altered
          MaxEdits,   \* bound on the alterations of one job
          UnluckyJobs,  \* the jobs whose programs are disturbed while they run
          MaxIncidents  \* bound on the disturbances of one job

\* What the constructors of the context let through: whole micrometres.
ASSUME JobsAreTyped ==
    \A j \in Jobs :
        /\ {j.safe, j.width, j.height} \subseteq Nat
        /\ {j.machine.bed.x, j.machine.bed.y, j.machine.bed.w, j.machine.bed.l} \subseteq Int
        /\ {j.machine.low, j.machine.high, j.profile.changeZ} \subseteq Int
        /\ \A i \in Steps(j.setups) : {j.setups[i].origin[1], j.setups[i].origin[2]} \subseteq Int

VARIABLES job, doc, text, stage, edits, incidents, at, ctl, removed, harm

machineVars == <<job, doc, text, stage, edits, incidents, at, ctl, removed, harm>>

(***************************************************************************)
(* The machine profile.  It exists only with every policy attested.        *)
(***************************************************************************)
Policies == {"clearance", "work offsets", "offset reset", "overrides", "external offsets", "homing",
             "full restart", "tool table", "offset table", "kinematics", "at speed", "interlock"}

ToolChangeZ(j) == j.profile.changeZ
ToolChange == <<-1, -1>>        \* where M6 happens, off the stock

ToolChangeHolds(j) ==
    /\ Within(Rect(ToolChange[1], ToolChange[2], 0, 0), j.machine.bed)
    /\ WithinTravel(j, ToolChangeZ(j)) /\ WithinTravel(j, 0)
    /\ \A i \in Steps(j.setups) :
          Within(Rect(j.profile.offsets[i][1], j.profile.offsets[i][2], 0, 0), j.machine.bed)

\* Mutant: a profile with an attestation missing is taken.
ProfileOfAnyKind(j) == ToolChangeHolds(j)

ProfileHolds(j) == j.profile.attested = Policies /\ ToolChangeHolds(j)

\* The controller's work offset of a setup is where the stock was set up, and
\* tools are changed no lower than the rapid plane.
SetupOffsetAndClearance(j, program) ==
    /\ j.profile.offsets[program.setup] = j.setups[program.setup].origin
    /\ WithinTravel(j, j.safe)
    /\ ToolChangeZ(j) >= j.safe

(***************************************************************************)
(* Executable lines.                                                       *)
(***************************************************************************)
Nowhere == <<-2, -2>>           \* where a program finds the machine

Shifted(p, offset) == <<p[1] + offset[1], p[2] + offset[2]>>
EntryPoint(j, program) == Shifted(program.moves[1].p, j.setups[program.setup].origin)

Line(code, p, z, n) == [code |-> code, p |-> p, z |-> z, n |-> n]
Plain(code) == Line(code, << >>, 0, 0)

\* The lines that restate the live state, one entry for each mode they set.
Modes == {"units", "radius", "modal", "path", "coolant", "overrides", "adaptive", "hold", "offsets"}
CanonicalState ==
    << Plain("units"), Plain("radius"), Plain("modal"), Plain("path"), Plain("M5"), Plain("coolant"),
       Plain("overrides"), Plain("adaptive"), Plain("hold"), Plain("offsets") >>

MoveLine(m) == Line(IF m.kind = "rapid" THEN "G0" ELSE "G1", m.p, m.z, m.feed)

Preamble(j, program) ==
    CanonicalState
    \o << Line("G53 Z", << >>, ToolChangeZ(j), 0), Line("G53 XY", ToolChange, 0, 0),
          Line("M6", << >>, 0, program.tool) >>
    \o CanonicalState
    \o << Line("G53 Z", << >>, ToolChangeZ(j), 0), Line("G53 XY", EntryPoint(j, program), 0, 0),
          Line("G43", << >>, 0, program.tool), Line("WCS", << >>, 0, program.setup),
          Line("G0 Z", << >>, j.safe, 0), Line("M3", << >>, 0, program.rpm), Plain("G4") >>

Trailer(j) ==
    << Line("G0 Z", << >>, j.safe, 0), Plain("M5"), Plain("coolant"), Plain("G49"),
       Line("G53 Z", << >>, ToolChangeZ(j), 0), Plain("M2") >>

EmitProgram(j, program) ==
    Preamble(j, program) \o [i \in Steps(program.moves) |-> MoveLine(program.moves[i])] \o Trailer(j)

\* The postprocessor writes a program only from a plan that enters at the rapid plane.
EntryBound(j, program) ==
    /\ program.moves # << >>
    /\ program.moves[1].kind = "rapid" /\ program.moves[1].role = "position"
    /\ program.moves[1].z = j.safe
    /\ Within(Rect(EntryPoint(j, program)[1], EntryPoint(j, program)[2], 0, 0), j.machine.bed)

(***************************************************************************)
(* The validator of posted text.                                           *)
(***************************************************************************)
PreambleBound(j, program, lines) ==
    SubSeq(lines, 1, Len(Preamble(j, program))) = Preamble(j, program)

TrailerBound(j, lines) ==
    SubSeq(lines, Len(lines) - Len(Trailer(j)) + 1, Len(lines)) = Trailer(j)

Body(j, program, lines) ==
    SubSeq(lines, Len(Preamble(j, program)) + 1, Len(lines) - Len(Trailer(j)))

RoundTrip(j, program, lines) ==
    LET body == Body(j, program, lines)
        PreviousZ(i) == IF i = 1 THEN j.safe ELSE body[i - 1].z
        PreviousP(i) == IF i = 1 THEN <<0, 0>> ELSE body[i - 1].p
    IN  \A i \in Steps(body) :
           LET move == program.moves[i]
               to == Shifted(body[i].p, j.setups[program.setup].origin)
           IN  /\ body[i] = MoveLine(move)
               /\ Within(Rect(body[i].p[1], body[i].p[2], 0, 0), Stock(j))
               /\ Within(Rect(to[1], to[2], 0, 0), j.machine.bed)
               /\ WithinTravel(j, body[i].z)
               /\ j.safe + Larger(0, -body[i].z) <= j.machine.high - j.machine.low
               /\ body[i].z <= j.safe /\ body[i].z >= -(j.thickness + Allowance(j, program.setup))
               /\ move.kind = "rapid" =>
                     /\ body[i].z >= 0
                     /\ body[i].p # PreviousP(i) => PreviousZ(i) >= j.safe /\ body[i].z >= j.safe
                     /\ body[i].z < j.safe => move.role \in {"approach", "peck"}
                     /\ move.role = "retract" => body[i].z = j.safe
               /\ move.kind = "linear" => body[i].n > 0

\* One line of the modal execution check.  An M6 forgets every mode.
ModalLine(j, program, s, line) ==
    LET moves == line.code \in {"G53 Z", "G53 XY", "G0 Z", "G0", "G1"}
        ready == Modes \ {"units", "path"} \subseteq s.modes
        atChange == s.p = ToolChange /\ s.z = ToolChangeZ(j)
        refused ==
            \/ moves /\ ~ready
            \/ line.code = "M6" /\ (s.spindle \/ "coolant" \notin s.modes \/ s.comp \/ ~atChange)
            \/ line.code = "G53 XY" /\ s.tool /\ ~(s.clear /\ s.z = ToolChangeZ(j))
            \/ line.code = "G43" /\ ~(s.tool /\ s.entry /\ s.z = ToolChangeZ(j))
            \/ line.code = "M3" /\ ~(/\ s.tool /\ s.comp /\ s.wcsZ = j.safe /\ line.n > 0
                                     /\ {"overrides", "adaptive", "hold", "modal"} \subseteq s.modes)
            \/ line.code = "G4" /\ ~s.spindle
            \/ line.code \in {"G0", "G1"} /\ ~(s.spindle /\ s.dwell)
    IN  [ok |-> s.ok /\ ~refused,
         modes |-> CASE line.code = "M6" -> {}
                     [] line.code \in Modes -> s.modes \cup {line.code}
                     [] OTHER -> s.modes,
         tool |-> s.tool \/ line.code = "M6",
         comp |-> CASE line.code = "G43" -> TRUE
                    [] line.code \in {"G49", "M6", "modal"} -> FALSE
                    [] OTHER -> s.comp,
         clear |-> s.clear \/ (line.code = "G53 Z" /\ s.tool /\ line.z = ToolChangeZ(j)),
         entry |-> IF line.code = "G53 XY" /\ s.tool THEN line.p = EntryPoint(j, program) ELSE s.entry,
         spindle |-> CASE line.code = "M3" -> TRUE
                       [] line.code \in {"M5", "M6"} -> FALSE
                       [] OTHER -> s.spindle,
         dwell |-> CASE line.code = "G4" -> TRUE
                     [] line.code \in {"M3", "M6"} -> FALSE
                     [] OTHER -> s.dwell,
         p |-> IF line.code = "G53 XY" THEN line.p ELSE s.p,
         z |-> IF line.code = "G53 Z" THEN line.z ELSE s.z,
         wcsZ |-> CASE line.code \in {"G0 Z", "G0", "G1"} -> line.z
                    [] line.code = "M6" -> -1
                    [] OTHER -> s.wcsZ]

ModalExecution(j, program, lines) ==
    LET start == [ok |-> TRUE, modes |-> {}, tool |-> FALSE, comp |-> FALSE, clear |-> FALSE,
                  entry |-> FALSE, spindle |-> FALSE, dwell |-> FALSE, p |-> Nowhere, z |-> -1, wcsZ |-> -1]
        after[n \in 0 .. Len(lines)] ==
            IF n = 0 THEN start ELSE ModalLine(j, program, after[n - 1], lines[n])
    IN  after[Len(lines)].ok /\ "offsets" \in after[Len(lines)].modes

\* One spindle speed, the material of the setup, and feeds of the bound recipes.
FeedsBound(j, program) ==
    LET recipes == {Recipe(j, op) : op \in {o \in j.ops : \E i \in Steps(program.operations) :
                                                              program.operations[i] = o.id}}
    IN  /\ \A r \in recipes : r.rpm = program.rpm /\ r.material = j.setups[program.setup].material
        /\ \A i \in Steps(program.moves) : program.moves[i].kind = "linear" =>
              \E r \in recipes : program.moves[i].feed \in {r.feed, r.plunge}

\* validate_production_program accepts the text of a program.
ValidProgram(j, program, lines) ==
    /\ Len(lines) = Len(Preamble(j, program)) + Len(program.moves) + Len(Trailer(j))
    /\ PreambleBound(j, program, lines)
    /\ TrailerBound(j, lines)
    /\ ProfileHolds(j) /\ SetupOffsetAndClearance(j, program) /\ EntryBound(j, program)
    /\ Within(Rect(j.setups[program.setup].origin[1], j.setups[program.setup].origin[2], j.width, j.height),
              j.machine.bed)
    /\ FeedsBound(j, program)
    /\ RoundTrip(j, program, lines)
    /\ ModalExecution(j, program, lines)

(***************************************************************************)
(* The controller.  z is the real height of the tool over the stock top.   *)
(***************************************************************************)
Attested(j, policies) == policies \subseteq j.profile.attested

\* What a program finds: any mode, the spindle running, the axes referenced.
Home(j) == [modes |-> {}, spindle |-> "on", comp |-> TRUE, tool |-> 0, setup |-> 0,
            exact |-> Attested(j, {"homing", "kinematics", "external offsets"}),
            p |-> Nowhere, z |-> ToolChangeZ(j), error |-> 0]

NoControl == [modes |-> {}, spindle |-> "off", comp |-> FALSE, tool |-> 0, setup |-> 0,
              exact |-> FALSE, p |-> Nowhere, z |-> 0, error |-> 0]

\* A work coordinate is where it says only with G43, a setup's offset, tables as
\* they were attested and no other offset left over.
WorkZ(c, z) == IF c.comp /\ c.setup # 0 /\ c.exact /\ "offsets" \in c.modes THEN z ELSE z - 3
WorkP(j, c, p) == IF c.setup = 0 THEN p ELSE Shifted(p, j.profile.offsets[c.setup])

\* A mode line does what it says only when the workshop verified that it does.
Effective(j, code) ==
    /\ code = "offsets" => Attested(j, {"offset reset"})
    /\ code \in {"overrides", "adaptive", "hold"} => Attested(j, {"overrides"})

Executed(j, c, line) ==
    CASE line.code \in Modes ->
            [c EXCEPT !.modes = IF Effective(j, line.code) THEN @ \cup {line.code} ELSE @,
                      !.comp = @ /\ line.code # "modal"]
      [] line.code = "G53 Z" -> [c EXCEPT !.z = line.z]
      [] line.code = "G53 XY" -> [c EXCEPT !.p = line.p]
      [] line.code = "G43" -> [c EXCEPT !.comp = (line.n = c.tool)]
      [] line.code = "WCS" -> [c EXCEPT !.setup = line.n, !.exact = @ /\ Attested(j, {"work offsets"})]
      [] line.code = "G0 Z" -> [c EXCEPT !.z = WorkZ(c, line.z)]
      [] line.code \in {"G0", "G1"} -> [c EXCEPT !.z = WorkZ(c, line.z), !.p = WorkP(j, c, line.p)]
      [] line.code = "M3" -> [c EXCEPT !.spindle = "on"]
      [] line.code = "G4" ->
            [c EXCEPT !.spindle = IF @ = "on" /\ Attested(j, {"at speed"}) THEN "at speed" ELSE @]
      [] line.code = "M5" -> [c EXCEPT !.spindle = "off"]
      [] line.code = "G49" -> [c EXCEPT !.comp = FALSE]
      [] OTHER -> c

\* What the M6 of this controller may leave behind.
Remapped(j, c, line) ==
    {[c EXCEPT !.tool = line.n, !.modes = left.modes, !.comp = left.comp, !.spindle = left.spindle,
               !.exact = @ /\ Attested(j, {"tool table", "offset table"})] :
       left \in [modes : {{}, Modes, Modes \ {"offsets"}}, comp : BOOLEAN, spindle : {"off", "on"}]}

Between(p, q) ==
    {c \in (Smaller(p[1], q[1]) .. Larger(p[1], q[1])) \X (Smaller(p[2], q[2]) .. Larger(p[2], q[2])) :
        p[1] = q[1] \/ p[2] = q[2] \/ c \in {p, q}}

\* The material under the cutter: every point nearer than its radius.
UnderCutter(cells, radius) ==
    UNION {(c[1] - radius + 1 .. c[1] + radius - 1) \X (c[2] - radius + 1 .. c[2] + radius - 1) : c \in cells}

CutSheet(j) == SheetOf(j.setups[doc.programs[at[1]].setup])
CutSide(j) == j.setups[doc.programs[at[1]].setup].side

\* The depth to which a G1 leaves the cells it passes.
CutAway(j, c, line) ==
    LET program == doc.programs[at[1]]
        origin == j.setups[program.setup].origin
        InStock(p) == <<p[1] - origin[1], p[2] - origin[2]>>
        path == Between(InStock(c.p), InStock(WorkP(j, c, line.p)))
        cells == UnderCutter(path, j.tools[program.tool].diameter \div 2)
        depth == -Larger(c.z, WorkZ(c, line.z)) + c.error
        deep == IF c.p = WorkP(j, c, line.p) THEN -Smaller(c.z, WorkZ(c, line.z)) + c.error ELSE depth
        Place(cell) == <<CutSheet(j), CutSide(j), PointToPhysical(j, j.setups[program.setup], cell)>>
        places == {Place(cell) : cell \in cells}
    IN  [k \in DOMAIN removed \cup places |->
           Larger(IF k \in DOMAIN removed THEN removed[k] ELSE 0, IF k \in places THEN deep ELSE 0)]

\* What no line may do to machine, tool and stock.
Harm(j, c, line) ==
    LET d == Executed(j, c, line)
        axes == line.code \in {"G53 Z", "G53 XY", "G0 Z", "G0", "G1"}
        rapid == axes /\ line.code # "G1"
        freed == \E i \in 1 .. at[1] - 1 :
                    /\ doc.programs[i].release
                    /\ SheetOf(j.setups[doc.programs[i].setup]) = CutSheet(j)
    IN  (IF axes /\ c.modes # Modes THEN {"moved in an unknown state"} ELSE {})
        \cup (IF rapid /\ c.p # d.p /\ (Smaller(c.z, d.z) < j.safe \/ ~Attested(j, {"clearance"}))
                THEN {"traversed low"} ELSE {})
        \cup (IF axes /\ c.p # d.p /\ ~Within(Rect(d.p[1], d.p[2], 0, 0), j.machine.bed)
                THEN {"left the bed"} ELSE {})
        \cup (IF axes /\ ~WithinTravel(j, d.z) THEN {"left the Z travel"} ELSE {})
        \cup (IF rapid /\ d.z < 0 THEN {"rapid into stock"} ELSE {})
        \cup (IF line.code = "G1" /\ (c.spindle # "at speed" \/ c.tool # doc.programs[at[1]].tool)
                THEN {"cut without speed or tool"} ELSE {})
        \cup (IF line.code = "G1" /\ freed THEN {"cut a freed sheet"} ELSE {})
        \cup (IF line.code = "M6" /\ (c.spindle # "off" \/ c.p # ToolChange \/ c.z # ToolChangeZ(j)
                                        \/ "coolant" \notin c.modes)
                THEN {"unsafe tool change"} ELSE {})
        \cup (IF line.code = "M2" /\ (c.spindle # "off" \/ c.comp \/ c.z # ToolChangeZ(j))
                THEN {"left unsafe"} ELSE {})

(***************************************************************************)
(* The life of a job.                                                      *)
(***************************************************************************)
NoDoc == [bound |-> << >>, programs |-> << >>]

MachineInit ==
    /\ job \in Jobs
    /\ doc = NoDoc /\ text = << >> /\ stage = "source" /\ edits = 0 /\ incidents = 0
    /\ at = <<1, 1>> /\ ctl = NoControl /\ removed = << >> /\ harm = {}

\* build_worker_cam_candidate: a profile that cannot be loaded, and then a job
\* that the generator cannot plan, raise.
PlanToolpaths ==
    /\ stage = "source"
    /\ IF ProfileHolds(job) /\ Plannable(job)
       THEN doc' = generate_production_toolpaths(job) /\ stage' = "planned"
       ELSE doc' = doc /\ stage' = "refused"
    /\ UNCHANGED <<job, text, edits, incidents, at, ctl, removed, harm>>

WithMove(i, k, move) == [doc EXCEPT !.programs[i].moves[k] = move]
AlteredMoves(i, k) ==
    LET move == doc.programs[i].moves[k]
    IN  {WithMove(i, k, [move EXCEPT !.z = @ - 1]),
         WithMove(i, k, [move EXCEPT !.z = @ + 1]),
         WithMove(i, k, [move EXCEPT !.p = <<@[1] + 1, @[2]>>]),
         WithMove(i, k, [move EXCEPT !.role = "cut"]),
         [doc EXCEPT !.programs[i].moves = RemoveAt(@, k)],
         [doc EXCEPT !.programs[i].moves = InsertAt(@, k + 1, [move EXCEPT !.p = <<@[1] + 1, @[2]>>])]}
        \cup IF move.role = "tab bridge"
             THEN {[doc EXCEPT !.programs[i].moves = SubSeq(@, 1, k - 2) \o SubSeq(@, k + 2, Len(@))]}
             ELSE {}

\* A move changed, left out or added, a tab left out, two programs exchanged,
\* or an identity out of date: a document that is not the one the generator returned.
AlterPlan ==
    /\ stage = "planned" /\ edits < MaxEdits /\ job \in EditedJobs
    /\ \/ \E i \in Steps(doc.programs) : \E k \in Steps(doc.programs[i].moves) : doc' \in AlteredMoves(i, k)
       \/ \E i \in 1 .. Len(doc.programs) - 1 :
             doc' = [doc EXCEPT !.programs[i] = doc.programs[i + 1], !.programs[i + 1] = doc.programs[i]]
       \/ \E b \in Bindings : doc' = [doc EXCEPT !.bound[b] = FALSE]
    /\ DocumentHolds(job, doc')
    /\ edits' = edits + 1
    /\ UNCHANGED <<job, text, stage, incidents, at, ctl, removed, harm>>

VerifyToolpaths ==
    /\ stage = "planned"
    /\ stage' = IF VerificationPasses(job, doc) THEN "verified" ELSE "blocked"
    /\ UNCHANGED <<job, doc, text, edits, incidents, at, ctl, removed, harm>>

\* LinuxCNCProductionPostprocessor.generate validates each program it wrote.
PostPrograms ==
    /\ stage = "verified"
    /\ LET written == [i \in Steps(doc.programs) |-> EmitProgram(job, doc.programs[i])]
       IN  IF \A i \in Steps(written) : /\ SetupOffsetAndClearance(job, doc.programs[i])
                                        /\ EntryBound(job, doc.programs[i])
                                        /\ ValidProgram(job, doc.programs[i], written[i])
           THEN text' = written /\ stage' = "posted"
           ELSE text' = text /\ stage' = "unpostable"
    /\ UNCHANGED <<job, doc, edits, incidents, at, ctl, removed, harm>>

\* Program text that is not what the postprocessor wrote.
AlterText ==
    /\ stage = "posted" /\ edits < MaxEdits /\ job \in EditedJobs
    /\ \E i \in Steps(text) : \E k \in Steps(text[i]) :
          \/ text' = [text EXCEPT ![i] = RemoveAt(@, k)]
          \/ text' = [text EXCEPT ![i][k] = Plain("M9")]
          \/ k < Len(text[i]) /\ text' = [text EXCEPT ![i][k] = text[i][k + 1], ![i][k + 1] = text[i][k]]
    /\ edits' = edits + 1
    /\ UNCHANGED <<job, doc, stage, incidents, at, ctl, removed, harm>>

\* _build_cutting_program_report verifies plan and text again.
PackPrograms ==
    /\ stage = "posted"
    /\ stage' = IF /\ VerificationPasses(job, doc)
                   /\ \A i \in Steps(text) : ValidProgram(job, doc.programs[i], text[i])
                THEN "packed" ELSE "blocked"
    /\ UNCHANGED <<job, doc, text, edits, incidents, at, ctl, removed, harm>>

Accuracy(j, program) == Recipe(j, CHOOSE op \in j.ops : op.id = program.operations[1]).accuracy

\* The operator starts the programs in run order; the machine errs all one way.
StartProgram ==
    /\ stage = "packed"
    /\ \E e \in {-Accuracy(job, doc.programs[at[1]]), Accuracy(job, doc.programs[at[1]])} :
          ctl' = [Home(job) EXCEPT !.error = e]
    /\ stage' = "running"
    /\ UNCHANGED <<job, doc, text, edits, incidents, at, removed, harm>>

RunLine ==
    /\ stage = "running" /\ at[2] <= Len(text[at[1]])
    /\ LET line == text[at[1]][at[2]]
       IN  /\ line.code = "G1" /\ Attested(job, {"interlock"}) => ctl.spindle # "slow"
           /\ ctl' \in IF line.code = "M6" THEN Remapped(job, ctl, line) ELSE {Executed(job, ctl, line)}
           /\ removed' = IF line.code = "G1" THEN CutAway(job, ctl, line) ELSE removed
           /\ harm' = harm \cup Harm(job, ctl, line)
    /\ at' = <<at[1], at[2] + 1>>
    /\ UNCHANGED <<job, doc, text, stage, edits, incidents>>

FinishProgram ==
    /\ stage = "running" /\ at[2] > Len(text[at[1]])
    /\ stage' = IF at[1] = Len(text) THEN "done" ELSE "packed"
    /\ at' = <<at[1] + 1, 1>>
    /\ ctl' = NoControl
    /\ UNCHANGED <<job, doc, text, edits, incidents, removed, harm>>

\* The spindle loses speed under load; the interlock then holds the feed.
SpindleSlows ==
    /\ stage = "running" /\ ctl.spindle = "at speed"
    /\ job \in UnluckyJobs /\ incidents < MaxIncidents
    /\ ctl' = [ctl EXCEPT !.spindle = "slow"]
    /\ incidents' = incidents + 1
    /\ UNCHANGED <<job, doc, text, stage, edits, at, removed, harm>>

\* An aborted program is started again from its first line, unless the
\* controller lets the operator run it from a line.
AbortProgram ==
    /\ stage = "running"
    /\ job \in UnluckyJobs
    /\ \/ incidents < MaxIncidents /\ incidents' = incidents + 1
       \/ ctl.spindle = "slow" /\ incidents' = incidents
    /\ stage' = "packed"
    /\ at' \in {<<at[1], 1>>} \cup IF Attested(job, {"full restart"}) THEN {} ELSE {at}
    /\ ctl' = NoControl
    /\ UNCHANGED <<job, doc, text, edits, removed, harm>>

MachineNext ==
    \/ SpindleSlows \/ AbortProgram
    \/ PlanToolpaths \/ AlterPlan \/ VerifyToolpaths \/ PostPrograms \/ AlterText \/ PackPrograms
    \/ StartProgram \/ RunLine \/ FinishProgram

MachineSpec == MachineInit /\ [][MachineNext]_machineVars

-----------------------------------------------------------------------------
(***************************************************************************)
(* Where the design lets material go, and how deep.                        *)
(***************************************************************************)
PlacesOf(op, cells) ==
    {<<SheetOf(SetupOf(job, op)), SetupOf(job, op).side, PointToPhysical(job, SetupOf(job, op), c)>> : c \in cells}

Ring(op) ==
    LET v == IF op.outside THEN OutsideVertices(op.rect, Radius(job, op)) ELSE InsidePoints(job, op)
    IN  UNION {Between(v[k], v[(k % Len(v)) + 1]) : k \in Steps(v)}

\* The material of the four tabs: what the cutter misses between the ends of a bridge.
TabCells(op) ==
    LET r == Radius(job, op)
        v == OutsideVertices(op.rect, r)
        width == Recipe(job, op).tabWidth + 2 * r
        Tab(k) == LET p == v[2 * k - 1]
                      q == v[2 * k]
                      before == (Length(p, q) - width) \div 2
                  IN  Between(Along(p, q, before + r), Along(p, q, before + width - r))
    IN  UNION {Tab(k) : k \in 1 .. 4}

Region(op) ==
    LET b == RasterBounds(job, op)
    IN  CASE op.kind = "drill" -> PlacesOf(op, UnderCutter({<<op.rect.x, op.rect.y>>}, Radius(job, op)))
          [] op.kind = "pocket" -> PlacesOf(op, UnderCutter((b.x .. Right(b)) \X (b.y .. Top(b)), Radius(job, op)))
          [] op.kind = "contour" -> PlacesOf(op, UnderCutter(Ring(op), Radius(job, op)))

DeepestAllowed(op) ==
    IF op.through THEN job.thickness + Allowance(job, op.setup) ELSE op.depth + Recipe(job, op).accuracy

AtRest == stage \in {"packed", "done"}

\* Whatever plan and text were accepted and however the tool change is
\* remapped, the machine never moves in an unknown modal state, never rapids
\* low, into stock or beyond its travel, never cuts without a tool at speed or on a sheet whose
\* parts are free, and is left safe (_validate_modal_execution,
\* _validate_and_round_trip_moves, RELEASE_ORDER_INVALID).
SafeMotion == harm = {}

\* Nothing is cut outside the operations of the source or deeper than their
\* depth, accuracy included.
NeverOvercut ==
    AtRest =>
      LET allowed == [op \in job.ops |-> Region(op)]
      IN  \A place \in DOMAIN removed : removed[place] > 0 =>
             \E op \in job.ops : place \in allowed[op] /\ removed[place] <= DeepestAllowed(op)

\* A part whose outline was cut still hangs on its four tabs.
PartsStayHeld ==
    AtRest =>
      \A op \in job.ops : IsReleaseContour(op) =>
         \A place \in PlacesOf(op, TabCells(op)) :
            place \in DOMAIN removed => removed[place] < job.thickness

\* Once every program ran, each pocket and hole is cleared over its whole area
\* and each outline cut through but for its tabs.
EverythingIsCut ==
    stage = "done" =>
      \A op \in job.ops :
         LET tabs == IF op.through THEN PlacesOf(op, UnderCutter(TabCells(op), Radius(job, op))) ELSE {}
         IN  \A place \in Region(op) \ tabs :
                /\ place \in DOMAIN removed
                /\ removed[place] >= IF op.through THEN job.thickness
                                     ELSE op.depth - Recipe(job, op).accuracy

\* However the plan was altered before it was verified and however the machine
\* used its accuracy, the material that is gone is the material the source
\* operations describe, and parts stay on their tabs between programs
\* (_validate_operation_motion, _validate_inter_part_collisions,
\* _validate_pass_sequences, _validate_area_coverage, _validate_contour_coverage).
MachinedAsDesigned == NeverOvercut /\ PartsStayHeld /\ EverythingIsCut

\* What the generator plans is refused later for three reasons only.  The
\* verifier blocks it when a setup, down to its whole spoilboard allowance, is
\* below the machine's travel, of which the generator asks only that its moves
\* are in it (SETUP_Z_LIMIT).  The postprocessor refuses the verified plan when
\* the attested work offset of a setup is another one, or when the tool change
\* is below the rapid plane (_require_exact_setup_offset_and_clearance).  In
\* every other case the independent verifier and the validator of posted
\* programs accept it.
GeneratedIsAccepted ==
    edits = 0 =>
      LET used == {op.setup : op \in job.ops}
          reachesTooLow == \E i \in used : -(job.thickness + Allowance(job, i)) < job.machine.low
          otherOffset == \E i \in used : job.profile.offsets[i] # job.setups[i].origin
          lowChange == job.profile.changeZ < job.safe
      IN  /\ stage = "blocked" => reachesTooLow
          /\ stage = "unpostable" => otherOffset \/ lowChange
          /\ stage \in {"verified", "unpostable", "posted", "packed", "running", "done"} => ~reachesTooLow
          /\ stage \in {"posted", "packed", "running", "done"} => ~otherOffset /\ ~lowChange
=============================================================================
