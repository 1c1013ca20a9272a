--------------------------- MODULE WorkshopProofs ---------------------------
(***************************************************************************)
(* What a workshop may rely on.                                            *)
(*                                                                         *)
(* The programs its machine runs, for any jobs, plans and edits of what    *)
(* was packed: whatever was accepted, every line of it runs without harm.  *)
(*                                                                         *)
(* The trust in joint retention evidence, for any issuers, keys,           *)
(* statements, processes and any number of activations.  An activation is  *)
(* only compared with the registry before it; that Monotonic is transitive *)
(* makes the last registry descend from all the earlier ones.              *)
(*                                                                         *)
(* The worth of an accepted workshop chain, for any keys, registries, runs *)
(* and bounds: the work happened in order, somebody really recorded it,    *)
(* separate people signed it with keys then in force, and nothing of it    *)
(* was accepted before.                                                    *)
(***************************************************************************)
EXTENDS MachineProgram, WorkshopTrust, JointRetention, SequenceTheorems, TLAPS
LOCAL INSTANCE SequencesExt

-----------------------------------------------------------------------------
\* The lines of a program, one by one.
LEMMA CanonicalLines ==
    /\ CanonicalState \in Seq({Plain(code) : code \in Modes \cup {"M5"}}) /\ Len(CanonicalState) = 10
    /\ \A n \in 1 .. 10 : CanonicalState[n].code \in Modes \/ (CanonicalState[n].code = "M5" /\ n = 5)
    /\ CanonicalState[5].code = "M5"
    /\ \A mode \in Modes : \E n \in 1 .. 10 : CanonicalState[n].code = mode
<1> DEFINE S == {Plain(code) : code \in Modes \cup {"M5"}}
<1>1. \A code : Plain(code).code = code
  BY DEF Plain, Line
<1>2. CanonicalState \in Seq(S) /\ Len(CanonicalState) = 10
  BY DEF CanonicalState, Modes
<1>3. /\ CanonicalState[1] = Plain("units") /\ CanonicalState[2] = Plain("radius")
      /\ CanonicalState[3] = Plain("modal") /\ CanonicalState[4] = Plain("path")
      /\ CanonicalState[5] = Plain("M5") /\ CanonicalState[6] = Plain("coolant")
      /\ CanonicalState[7] = Plain("overrides") /\ CanonicalState[8] = Plain("adaptive")
      /\ CanonicalState[9] = Plain("hold") /\ CanonicalState[10] = Plain("offsets")
  BY DEF CanonicalState
<1>4. \A n \in 1 .. 10 : n \in {1, 2, 3, 4, 5, 6, 7, 8, 9, 10}
  OBVIOUS
<1>5. ASSUME NEW n \in 1 .. 10
      PROVE  CanonicalState[n].code \in Modes \/ (CanonicalState[n].code = "M5" /\ n = 5)
  <2>1. n \in {1, 2, 3, 4, 5, 6, 7, 8, 9, 10}
    BY <1>4
  <2>2. CanonicalState[5].code = "M5"
    BY <1>1, <1>3
  <2>3. /\ CanonicalState[1].code \in Modes /\ CanonicalState[2].code \in Modes
        /\ CanonicalState[3].code \in Modes /\ CanonicalState[4].code \in Modes
    BY <1>1, <1>3 DEF Modes
  <2>4. /\ CanonicalState[6].code \in Modes /\ CanonicalState[7].code \in Modes
        /\ CanonicalState[8].code \in Modes /\ CanonicalState[9].code \in Modes
        /\ CanonicalState[10].code \in Modes
    BY <1>1, <1>3 DEF Modes
  <2> QED
    BY <2>1, <2>2, <2>3, <2>4, Zenon
<1>6. \A mode \in Modes : \E n \in 1 .. 10 : CanonicalState[n].code = mode
  BY <1>1, <1>3 DEF Modes
<1> QED
  BY <1>1, <1>2, <1>3, <1>5, <1>6

Joined(S, x, a, b) ==
    /\ x \in Seq(S) /\ Len(x) = Len(a) + Len(b)
    /\ \A n \in 1 .. Len(a) : x[n] = a[n]
    /\ \A n \in 1 .. Len(b) : x[Len(a) + n] = b[n]

LEMMA TwoParts ==
    ASSUME NEW S, NEW a \in Seq(S), NEW b \in Seq(S)
    PROVE  Joined(S, a \o b, a, b)
  BY DEF Joined

\* x consists of a, b, a again and c, of the lengths k, m, k and l.
Assembled(S, x, a, b, c, k, m, l) ==
    /\ x \in Seq(S) /\ Len(x) = k + m + k + l
    /\ \A n \in 1 .. k : x[n] = a[n]
    /\ \A n \in 1 .. m : x[k + n] = b[n]
    /\ \A n \in 1 .. k : x[k + m + n] = a[n]
    /\ \A n \in 1 .. l : x[k + m + k + n] = c[n]

LEMMA FourParts ==
    ASSUME NEW S, NEW a \in Seq(S), NEW b \in Seq(S), NEW c \in Seq(S), NEW k \in Nat, NEW m \in Nat, NEW l \in Nat,
           Len(a) = k, Len(b) = m, Len(c) = l
    PROVE  Assembled(S, a \o b \o a \o c, a, b, c, k, m, l)
<1> DEFINE ab == a \o b
           aba == ab \o a
           all == aba \o c
<1>1. Joined(S, ab, a, b) /\ ab \in Seq(S)
  <2>1. Joined(S, ab, a, b)
    BY TwoParts, Zenon
  <2> QED
    BY <2>1 DEF Joined
<1> HIDE DEF ab
<1>2. Joined(S, aba, ab, a) /\ aba \in Seq(S)
  <2>1. Joined(S, aba, ab, a)
    BY <1>1, TwoParts, Zenon
  <2> QED
    BY <2>1 DEF Joined
<1> HIDE DEF aba
<1>3. Joined(S, all, aba, c)
  BY <1>2, TwoParts, Zenon
<1> HIDE DEF all
<1>4. Len(ab) = k + m /\ Len(aba) = k + m + k /\ Len(all) = k + m + k + l
  BY <1>1, <1>2, <1>3, Zenon DEF Joined
<1>5. /\ \A n \in 1 .. k : ab[n] = a[n]
      /\ \A n \in 1 .. m : ab[k + n] = b[n]
  BY <1>1, Zenon DEF Joined
<1>6. /\ \A n \in 1 .. k + m : aba[n] = ab[n]
      /\ \A n \in 1 .. k : aba[k + m + n] = a[n]
  BY <1>2, <1>4, Zenon DEF Joined
<1>7. /\ \A n \in 1 .. k + m + k : all[n] = aba[n]
      /\ \A n \in 1 .. l : all[k + m + k + n] = c[n]
  BY <1>3, <1>4, Zenon DEF Joined
<1>8. \A n \in 1 .. k : all[n] = a[n]
  <2>1. \A n \in 1 .. k : n \in 1 .. k + m /\ n \in 1 .. k + m + k
    OBVIOUS
  <2> QED
    BY <2>1, <1>5, <1>6, <1>7, ZenonT(60)
<1>9. \A n \in 1 .. m : all[k + n] = b[n]
  <2>1. \A n \in 1 .. m : k + n \in 1 .. k + m /\ k + n \in 1 .. k + m + k
    OBVIOUS
  <2> QED
    BY <2>1, <1>5, <1>6, <1>7, ZenonT(60)
<1>10. \A n \in 1 .. k : all[k + m + n] = a[n]
  <2>1. \A n \in 1 .. k : k + m + n \in 1 .. k + m + k
    OBVIOUS
  <2> QED
    BY <2>1, <1>6, <1>7, Zenon
<1> QED
  BY <1>3, <1>4, <1>7, <1>8, <1>9, <1>10, Zenon DEF all, aba, ab, Joined, Assembled

\* The lines before the moves, and those after them.
IsPreamble(j, program, lines) ==
    /\ \E S : lines \in Seq(S)
    /\ Len(lines) = 30
    /\ \A n \in 1 .. 10 : lines[n] = CanonicalState[n] /\ lines[13 + n] = CanonicalState[n]
    /\ lines[11] = Line("G53 Z", << >>, ToolChangeZ(j), 0)
    /\ lines[12] = Line("G53 XY", ToolChange, 0, 0)
    /\ lines[13] = Line("M6", << >>, 0, program.tool)
    /\ lines[24] = Line("G53 Z", << >>, ToolChangeZ(j), 0)
    /\ lines[25] = Line("G53 XY", EntryPoint(j, program), 0, 0)
    /\ lines[26] = Line("G43", << >>, 0, program.tool)
    /\ lines[27] = Line("WCS", << >>, 0, program.setup)
    /\ lines[28] = Line("G0 Z", << >>, j.safe, 0)
    /\ lines[29] = Line("M3", << >>, 0, program.rpm)
    /\ lines[30] = Plain("G4")

IsTrailer(j, lines) ==
    /\ Len(lines) = 6
    /\ lines[1] = Line("G0 Z", << >>, j.safe, 0)
    /\ lines[2] = Plain("M5")
    /\ lines[3] = Plain("coolant")
    /\ lines[4] = Plain("G49")
    /\ lines[5] = Line("G53 Z", << >>, ToolChangeZ(j), 0)
    /\ lines[6] = Plain("M2")

LEMMA PreambleLines ==
    ASSUME NEW j, NEW program
    PROVE  IsPreamble(j, program, Preamble(j, program))
<1> DEFINE a == CanonicalState
           b1 == Line("G53 Z", << >>, ToolChangeZ(j), 0)
           b2 == Line("G53 XY", ToolChange, 0, 0)
           b3 == Line("M6", << >>, 0, program.tool)
           c1 == Line("G53 Z", << >>, ToolChangeZ(j), 0)
           c2 == Line("G53 XY", EntryPoint(j, program), 0, 0)
           c3 == Line("G43", << >>, 0, program.tool)
           c4 == Line("WCS", << >>, 0, program.setup)
           c5 == Line("G0 Z", << >>, j.safe, 0)
           c6 == Line("M3", << >>, 0, program.rpm)
           c7 == Plain("G4")
           b == <<b1, b2, b3>>
           c == <<c1, c2, c3, c4, c5, c6, c7>>
           A == {Plain(code) : code \in Modes \cup {"M5"}}
           S == A \cup {b1, b2, b3, c1, c2, c3, c4, c5, c6, c7}
           all == a \o b \o a \o c
<1>1. Preamble(j, program) = all
  BY DEF Preamble
<1>2. a \in Seq(A) /\ Len(a) = 10
  BY CanonicalLines
<1> HIDE DEF a, b1, b2, b3, c1, c2, c3, c4, c5, c6, c7
<1>3. b \in Seq(S) /\ Len(b) = 3 /\ b[1] = b1 /\ b[2] = b2 /\ b[3] = b3
  OBVIOUS
<1>4. /\ c \in Seq(S) /\ Len(c) = 7
      /\ c[1] = c1 /\ c[2] = c2 /\ c[3] = c3 /\ c[4] = c4 /\ c[5] = c5 /\ c[6] = c6 /\ c[7] = c7
  OBVIOUS
<1>5. A \subseteq S
  OBVIOUS
<1> HIDE DEF A, S, b, c
<1>6. a \in Seq(S)
  BY <1>2, <1>5, SeqMonotonic
<1> DEFINE k == 10
           m == 3
           l == 7
<1>7. /\ k \in Nat /\ m \in Nat /\ l \in Nat /\ Len(a) = k /\ Len(b) = m /\ Len(c) = l
      /\ a \in Seq(S) /\ b \in Seq(S) /\ c \in Seq(S)
  BY <1>2, <1>3, <1>4, <1>6, Zenon
<1> HIDE DEF k, m, l
<1>80. Assembled(S, all, a, b, c, k, m, l)
  BY <1>7, FourParts, Zenon
<1> HIDE DEF all
<1>8. /\ all \in Seq(S) /\ Len(all) = 10 + 3 + 10 + 7
      /\ \A n \in 1 .. 10 : all[n] = a[n]
      /\ \A n \in 1 .. 3 : all[10 + n] = b[n]
      /\ \A n \in 1 .. 10 : all[10 + 3 + n] = a[n]
      /\ \A n \in 1 .. 7 : all[10 + 3 + 10 + n] = c[n]
  BY <1>80, Zenon DEF Assembled, k, m, l
<1>9. 10 + 3 + 10 + 7 = 30 /\ 10 + 3 = 13 /\ 10 + 3 + 10 = 23
  OBVIOUS
<1> HIDE DEF all
<1>11. Len(all) = 30
  BY <1>8, <1>9, Zenon
<1>12. \A n \in 1 .. 10 : all[n] = a[n] /\ all[13 + n] = a[n]
  BY <1>8, <1>9, Zenon
<1>13. /\ \A n \in 1 .. 3 : all[10 + n] = b[n]
       /\ \A n \in 1 .. 7 : all[23 + n] = c[n]
  BY <1>8, <1>9, Zenon
<1>14. all[11] = b1 /\ all[12] = b2 /\ all[13] = b3
  <2>1. 1 \in 1 .. 3 /\ 2 \in 1 .. 3 /\ 3 \in 1 .. 3 /\ 10 + 1 = 11 /\ 10 + 2 = 12 /\ 10 + 3 = 13
    OBVIOUS
  <2> QED
    BY <2>1, <1>13, <1>3, Zenon
<1>15. /\ all[24] = c1 /\ all[25] = c2 /\ all[26] = c3 /\ all[27] = c4 /\ all[28] = c5
       /\ all[29] = c6 /\ all[30] = c7
  <2>1. /\ 1 \in 1 .. 7 /\ 2 \in 1 .. 7 /\ 3 \in 1 .. 7 /\ 4 \in 1 .. 7
        /\ 23 + 1 = 24 /\ 23 + 2 = 25 /\ 23 + 3 = 26 /\ 23 + 4 = 27
    OBVIOUS
  <2>2. /\ 5 \in 1 .. 7 /\ 6 \in 1 .. 7 /\ 7 \in 1 .. 7
        /\ 23 + 5 = 28 /\ 23 + 6 = 29 /\ 23 + 7 = 30
    OBVIOUS
  <2>3. all[24] = c1 /\ all[25] = c2
    BY <2>1, <1>13, <1>4, ZenonT(60)
  <2>4. all[26] = c3 /\ all[27] = c4
    BY <2>1, <1>13, <1>4, ZenonT(60)
  <2>5. all[28] = c5
    BY <2>2, <1>13, <1>4, ZenonT(60)
  <2>6. all[29] = c6
    BY <2>2, <1>13, <1>4, ZenonT(60)
  <2>7. all[30] = c7
    BY <2>2, <1>13, <1>4, Zenon
  <2> QED
    BY <2>3, <2>4, <2>5, <2>6, <2>7, Zenon
<1> QED
  BY <1>1, <1>8, <1>11, <1>12, <1>14, <1>15, Zenon DEF IsPreamble, a, b1, b2, b3, c1, c2, c3, c4, c5, c6, c7

LEMMA TrailerLines ==
    ASSUME NEW j
    PROVE  IsTrailer(j, Trailer(j))
  BY DEF Trailer, IsTrailer

\* The lines of a posted program, by their place.
LinesOf(j, program, lines, M) ==
    /\ Len(lines) = M + 36
    /\ \A n \in 1 .. 10 : lines[n] = CanonicalState[n] /\ lines[13 + n] = CanonicalState[n]
    /\ lines[11] = Line("G53 Z", << >>, ToolChangeZ(j), 0)
    /\ lines[12] = Line("G53 XY", ToolChange, 0, 0)
    /\ lines[13] = Line("M6", << >>, 0, program.tool)
    /\ lines[24] = Line("G53 Z", << >>, ToolChangeZ(j), 0)
    /\ lines[25] = Line("G53 XY", EntryPoint(j, program), 0, 0)
    /\ lines[26] = Line("G43", << >>, 0, program.tool)
    /\ lines[27] = Line("WCS", << >>, 0, program.setup)
    /\ lines[28] = Line("G0 Z", << >>, j.safe, 0)
    /\ lines[29] = Line("M3", << >>, 0, program.rpm)
    /\ lines[30] = Plain("G4")
    /\ \A i \in 1 .. M : lines[30 + i] = MoveLine(program.moves[i])
    /\ lines[M + 31] = Line("G0 Z", << >>, j.safe, 0)
    /\ lines[M + 32] = Plain("M5")
    /\ lines[M + 33] = Plain("coolant")
    /\ lines[M + 34] = Plain("G49")
    /\ lines[M + 35] = Line("G53 Z", << >>, ToolChangeZ(j), 0)
    /\ lines[M + 36] = Plain("M2")

LEMMA PostedLines ==
    ASSUME NEW j, NEW program, NEW S, NEW lines \in Seq(S),
           Len(program.moves) \in Nat, ValidProgram(j, program, lines)
    PROVE  LinesOf(j, program, lines, Len(program.moves))
<1> DEFINE M == Len(program.moves)
           pre == Preamble(j, program)
           post == Trailer(j)
<1>0. IsPreamble(j, program, pre) /\ IsTrailer(j, post)
  BY PreambleLines, TrailerLines, Zenon
<1>1. Len(pre) = 30 /\ Len(post) = 6
  BY <1>0, Zenon DEF IsPreamble, IsTrailer
<1>2. /\ Len(lines) = M + 36 /\ M \in Nat
      /\ SubSeq(lines, 1, 30) = pre
      /\ SubSeq(lines, M + 31, M + 36) = post
      /\ RoundTrip(j, program, lines)
  <2>1. /\ Len(lines) = Len(pre) + M + Len(post)
        /\ SubSeq(lines, 1, Len(pre)) = pre
        /\ SubSeq(lines, Len(lines) - Len(post) + 1, Len(lines)) = post
        /\ RoundTrip(j, program, lines)
    BY DEF ValidProgram, PreambleBound, TrailerBound
  <2> HIDE DEF pre, post, M
  <2>2. M \in Nat
    BY DEF M
  <2>3. Len(lines) = M + 36 /\ Len(lines) - Len(post) + 1 = M + 31
    BY <2>1, <2>2, <1>1
  <2> QED
    BY <2>1, <2>2, <2>3, <1>1, Zenon
<1> HIDE DEF pre, post, M
<1>3. /\ \A n \in 1 .. 30 : lines[n] = pre[n]
      /\ \A n \in 1 .. 6 : lines[M + 30 + n] = post[n]
  <2>1. \A i \in 1 .. Len(lines) : lines[i] \in S
    BY ElementOfSeq
  <2>2. \A i \in 1 .. 30 : lines[i] \in S
    <3> DEFINE n == M + 36
    <3>1. Len(lines) = n
      BY <1>2
    <3>2. M \in Nat
      BY <1>2
    <3>3. \A i \in 1 .. 30 : i \in 1 .. n
      BY <3>2
    <3> HIDE DEF n
    <3> QED
      BY <2>1, <3>1, <3>3, Zenon
  <2>3. \A i \in M + 31 .. M + 36 : lines[i] \in S
    BY <2>1, <1>2
  <2>4. \A i \in 1 .. 30 - 1 + 1 : SubSeq(lines, 1, 30)[i] = lines[1 + i - 1]
    BY <2>2, SubSeqProperties
  <2>5. \A i \in 1 .. (M + 36) - (M + 31) + 1 : SubSeq(lines, M + 31, M + 36)[i] = lines[(M + 31) + i - 1]
    <3>1. M + 31 \in Int /\ M + 36 \in Int
      BY <1>2
    <3> QED
      BY <3>1, <2>3, SubSeqProperties
  <2>6. \A n \in 1 .. 30 : n \in 1 .. 30 - 1 + 1 /\ 1 + n - 1 = n
    OBVIOUS
  <2>7. \A n \in 1 .. 6 : n \in 1 .. (M + 36) - (M + 31) + 1 /\ (M + 31) + n - 1 = M + 30 + n
    BY <1>2
  <2> QED
    BY <2>4, <2>5, <2>6, <2>7, <1>2, Zenon
<1>4. \A i \in 1 .. M : lines[30 + i] = MoveLine(program.moves[i])
  <2> DEFINE body == Body(j, program, lines)
  <2>1. body = SubSeq(lines, 31, M + 30)
    <3>1. Len(pre) + 1 = 31 /\ Len(lines) - Len(post) = M + 30
      BY <1>1, <1>2
    <3>2. body = SubSeq(lines, Len(pre) + 1, Len(lines) - Len(post))
      BY DEF Body, pre, post
    <3> QED
      BY <3>1, <3>2, Zenon
  <2>2. \A i \in 31 .. M + 30 : lines[i] \in S
    <3>1. \A i \in 1 .. Len(lines) : lines[i] \in S
      BY ElementOfSeq, Zenon
    <3> QED
      BY <3>1, <1>2
  <2>3. M + 30 \in Int
    BY <1>2
  <2>4. /\ Len(body) = IF 31 <= M + 30 THEN (M + 30) - 31 + 1 ELSE 0
        /\ \A i \in 1 .. (M + 30) - 31 + 1 : body[i] = lines[31 + i - 1]
    BY <2>1, <2>2, <2>3, SubSeqProperties
  <2>5. \A i \in Steps(body) : body[i] = MoveLine(program.moves[i])
    BY <1>2 DEF RoundTrip
  <2> HIDE DEF body
  <2>6. \A i \in 1 .. Len(body) : body[i] = MoveLine(program.moves[i])
    BY <2>5 DEF Steps
  <2> SUFFICES ASSUME NEW i \in 1 .. M
               PROVE  lines[30 + i] = MoveLine(program.moves[i])
    OBVIOUS
  <2>7. i \in 1 .. Len(body) /\ i \in 1 .. (M + 30) - 31 + 1 /\ 31 + i - 1 = 30 + i
    BY <2>4, <1>2
  <2> QED
    BY <2>4, <2>6, <2>7, Zenon
<1>5. /\ \A n \in 1 .. 10 : lines[n] = CanonicalState[n] /\ lines[13 + n] = CanonicalState[n]
      /\ lines[11] = Line("G53 Z", << >>, ToolChangeZ(j), 0)
      /\ lines[12] = Line("G53 XY", ToolChange, 0, 0)
      /\ lines[13] = Line("M6", << >>, 0, program.tool)
  <2>1. \A n \in 1 .. 10 : n \in 1 .. 30 /\ 13 + n \in 1 .. 30
    OBVIOUS
  <2>2. 11 \in 1 .. 30 /\ 12 \in 1 .. 30 /\ 13 \in 1 .. 30
    OBVIOUS
  <2> QED
    BY <2>1, <2>2, <1>3, <1>0, Zenon DEF IsPreamble
<1>6. /\ lines[24] = Line("G53 Z", << >>, ToolChangeZ(j), 0)
      /\ lines[25] = Line("G53 XY", EntryPoint(j, program), 0, 0)
      /\ lines[26] = Line("G43", << >>, 0, program.tool)
      /\ lines[27] = Line("WCS", << >>, 0, program.setup)
      /\ lines[28] = Line("G0 Z", << >>, j.safe, 0)
      /\ lines[29] = Line("M3", << >>, 0, program.rpm)
      /\ lines[30] = Plain("G4")
  <2>1. /\ 24 \in 1 .. 30 /\ 25 \in 1 .. 30 /\ 26 \in 1 .. 30 /\ 27 \in 1 .. 30
        /\ 28 \in 1 .. 30 /\ 29 \in 1 .. 30 /\ 30 \in 1 .. 30
    OBVIOUS
  <2> QED
    BY <2>1, <1>3, <1>0, Zenon DEF IsPreamble
<1>7. /\ lines[M + 31] = Line("G0 Z", << >>, j.safe, 0)
      /\ lines[M + 32] = Plain("M5")
      /\ lines[M + 33] = Plain("coolant")
      /\ lines[M + 34] = Plain("G49")
      /\ lines[M + 35] = Line("G53 Z", << >>, ToolChangeZ(j), 0)
      /\ lines[M + 36] = Plain("M2")
  <2>1. /\ 1 \in 1 .. 6 /\ 2 \in 1 .. 6 /\ 3 \in 1 .. 6 /\ 4 \in 1 .. 6 /\ 5 \in 1 .. 6 /\ 6 \in 1 .. 6
    OBVIOUS
  <2>2. /\ M + 30 + 1 = M + 31 /\ M + 30 + 2 = M + 32 /\ M + 30 + 3 = M + 33
        /\ M + 30 + 4 = M + 34 /\ M + 30 + 5 = M + 35 /\ M + 30 + 6 = M + 36
    BY <1>2
  <2> QED
    BY <2>1, <2>2, <1>3, <1>0, ZenonT(60) DEF IsTrailer
<1> QED
  BY <1>2, <1>4, <1>5, <1>6, <1>7, Zenon DEF LinesOf, M
-----------------------------------------------------------------------------
\* One line on the controller.
ControlFields == {"modes", "spindle", "comp", "tool", "setup", "exact", "p", "z", "error"}

\* The controller c holds these values.
Holds(c, modes, spindle, comp, tool, setup, exact, p, z) ==
    /\ DOMAIN c = ControlFields
    /\ c.modes = modes /\ c.spindle = spindle /\ c.comp = comp /\ c.tool = tool
    /\ c.setup = setup /\ c.exact = exact /\ c.p = p /\ c.z = z

LEMMA LineFields ==
    ASSUME NEW code, NEW p, NEW z, NEW n
    PROVE  /\ Line(code, p, z, n).code = code /\ Line(code, p, z, n).p = p
           /\ Line(code, p, z, n).z = z /\ Line(code, p, z, n).n = n
           /\ Plain(code).code = code
  BY DEF Line, Plain

LEMMA EveryPolicy ==
    ASSUME NEW j, j.profile.attested = Policies
    PROVE  /\ \A code : Effective(j, code)
           /\ Attested(j, {"work offsets"}) /\ Attested(j, {"at speed"}) /\ Attested(j, {"clearance"})
           /\ Attested(j, {"interlock"}) /\ Attested(j, {"full restart"})
           /\ Attested(j, {"tool table", "offset table"})
           /\ Attested(j, {"homing", "kinematics", "external offsets"})
  BY DEF Effective, Attested, Policies

LEMMA ModeExecuted ==
    ASSUME NEW j, NEW c, NEW line, DOMAIN c = ControlFields, line.code \in Modes,
           j.profile.attested = Policies
    PROVE  Holds(Executed(j, c, line), c.modes \cup {line.code}, c.spindle,
                 c.comp /\ line.code # "modal", c.tool, c.setup, c.exact, c.p, c.z)
<1>1. Effective(j, line.code)
  BY EveryPolicy
<1>2. Executed(j, c, line) = [c EXCEPT !.modes = c.modes \cup {line.code},
                                       !.comp = c.comp /\ line.code # "modal"]
  <2>1. line.code \notin {"G53 Z", "G53 XY", "G43", "WCS", "G0 Z", "G0", "G1", "M3", "G4", "M5", "G49"}
    BY DEF Modes
  <2>2. Executed(j, c, line) =
           [c EXCEPT !.modes = IF Effective(j, line.code) THEN @ \cup {line.code} ELSE @,
                     !.comp = @ /\ line.code # "modal"]
    BY <2>1, ZenonT(60) DEF Executed
  <2> QED
    BY <1>1, <2>2
<1> QED
  BY <1>2 DEF Holds, ControlFields

LEMMA AxesExecuted ==
    ASSUME NEW j, NEW c, NEW line, DOMAIN c = ControlFields
    PROVE  LET d == Executed(j, c, line)
           IN  /\ line.code = "G53 Z" =>
                     Holds(d, c.modes, c.spindle, c.comp, c.tool, c.setup, c.exact, c.p, line.z)
               /\ line.code = "G53 XY" =>
                     Holds(d, c.modes, c.spindle, c.comp, c.tool, c.setup, c.exact, line.p, c.z)
               /\ line.code = "G0 Z" =>
                     Holds(d, c.modes, c.spindle, c.comp, c.tool, c.setup, c.exact, c.p, WorkZ(c, line.z))
               /\ line.code \in {"G0", "G1"} =>
                     Holds(d, c.modes, c.spindle, c.comp, c.tool, c.setup, c.exact,
                           WorkP(j, c, line.p), WorkZ(c, line.z))
<1>1. line.code = "G53 Z" => Executed(j, c, line) = [c EXCEPT !.z = line.z]
  BY DEF Executed, Modes
<1>2. line.code = "G53 XY" => Executed(j, c, line) = [c EXCEPT !.p = line.p]
  BY DEF Executed, Modes
<1>3. line.code = "G0 Z" => Executed(j, c, line) = [c EXCEPT !.z = WorkZ(c, line.z)]
  BY DEF Executed, Modes
<1>4. line.code \in {"G0", "G1"} =>
        Executed(j, c, line) = [c EXCEPT !.z = WorkZ(c, line.z), !.p = WorkP(j, c, line.p)]
  BY DEF Executed, Modes
<1>5. line.code = "G53 Z" =>
        Holds(Executed(j, c, line), c.modes, c.spindle, c.comp, c.tool, c.setup, c.exact, c.p, line.z)
  BY <1>1 DEF Holds, ControlFields
<1>6. line.code = "G53 XY" =>
        Holds(Executed(j, c, line), c.modes, c.spindle, c.comp, c.tool, c.setup, c.exact, line.p, c.z)
  BY <1>2 DEF Holds, ControlFields
<1>7. line.code = "G0 Z" =>
        Holds(Executed(j, c, line), c.modes, c.spindle, c.comp, c.tool, c.setup, c.exact, c.p, WorkZ(c, line.z))
  BY <1>3 DEF Holds, ControlFields
<1>8. line.code \in {"G0", "G1"} =>
        Holds(Executed(j, c, line), c.modes, c.spindle, c.comp, c.tool, c.setup, c.exact,
              WorkP(j, c, line.p), WorkZ(c, line.z))
  BY <1>4 DEF Holds, ControlFields
<1> QED
  BY <1>5, <1>6, <1>7, <1>8

LEMMA OthersExecuted ==
    ASSUME NEW j, NEW c, NEW line, DOMAIN c = ControlFields, j.profile.attested = Policies
    PROVE  LET d == Executed(j, c, line)
           IN  /\ line.code = "G43" =>
                     Holds(d, c.modes, c.spindle, line.n = c.tool, c.tool, c.setup, c.exact, c.p, c.z)
               /\ line.code = "WCS" =>
                     Holds(d, c.modes, c.spindle, c.comp, c.tool, line.n, c.exact /\ TRUE, c.p, c.z)
               /\ line.code = "M3" =>
                     Holds(d, c.modes, "on", c.comp, c.tool, c.setup, c.exact, c.p, c.z)
               /\ line.code = "G4" =>
                     Holds(d, c.modes, IF c.spindle = "on" THEN "at speed" ELSE c.spindle,
                           c.comp, c.tool, c.setup, c.exact, c.p, c.z)
               /\ line.code = "M5" =>
                     Holds(d, c.modes, "off", c.comp, c.tool, c.setup, c.exact, c.p, c.z)
               /\ line.code = "G49" =>
                     Holds(d, c.modes, c.spindle, FALSE, c.tool, c.setup, c.exact, c.p, c.z)
               /\ line.code \in {"M2", "M6"} => d = c
<1>0. Attested(j, {"work offsets"}) /\ Attested(j, {"at speed"})
  BY EveryPolicy
<1>1. line.code = "G43" => Executed(j, c, line) = [c EXCEPT !.comp = (line.n = c.tool)]
  BY DEF Executed, Modes
<1>2. line.code = "WCS" => Executed(j, c, line) = [c EXCEPT !.setup = line.n, !.exact = c.exact /\ TRUE]
  BY <1>0 DEF Executed, Modes
<1>3. line.code = "M3" => Executed(j, c, line) = [c EXCEPT !.spindle = "on"]
  BY DEF Executed, Modes
<1>4. line.code = "G4" =>
        Executed(j, c, line) = [c EXCEPT !.spindle = IF c.spindle = "on" THEN "at speed" ELSE c.spindle]
  BY <1>0 DEF Executed, Modes
<1>5. line.code = "M5" => Executed(j, c, line) = [c EXCEPT !.spindle = "off"]
  BY DEF Executed, Modes
<1>6. line.code = "G49" => Executed(j, c, line) = [c EXCEPT !.comp = FALSE]
  BY DEF Executed, Modes
<1>7. line.code \in {"M2", "M6"} => Executed(j, c, line) = c
  BY DEF Executed, Modes
<1>11. line.code = "G43" =>
         Holds(Executed(j, c, line), c.modes, c.spindle, line.n = c.tool, c.tool, c.setup, c.exact, c.p, c.z)
  BY <1>1 DEF Holds, ControlFields
<1>12. line.code = "WCS" =>
         Holds(Executed(j, c, line), c.modes, c.spindle, c.comp, c.tool, line.n, c.exact /\ TRUE, c.p, c.z)
  BY <1>2 DEF Holds, ControlFields
<1>13. line.code = "M3" =>
         Holds(Executed(j, c, line), c.modes, "on", c.comp, c.tool, c.setup, c.exact, c.p, c.z)
  BY <1>3 DEF Holds, ControlFields
<1>14. line.code = "G4" =>
         Holds(Executed(j, c, line), c.modes, IF c.spindle = "on" THEN "at speed" ELSE c.spindle,
               c.comp, c.tool, c.setup, c.exact, c.p, c.z)
  BY <1>4 DEF Holds, ControlFields
<1>15. line.code = "M5" =>
         Holds(Executed(j, c, line), c.modes, "off", c.comp, c.tool, c.setup, c.exact, c.p, c.z)
  BY <1>5 DEF Holds, ControlFields
<1>16. line.code = "G49" =>
         Holds(Executed(j, c, line), c.modes, c.spindle, FALSE, c.tool, c.setup, c.exact, c.p, c.z)
  BY <1>6 DEF Holds, ControlFields
<1> QED
  BY <1>7, <1>11, <1>12, <1>13, <1>14, <1>15, <1>16

\* No harm is done by a line that meets these conditions.
LEMMA NoHarm ==
    ASSUME NEW j, NEW c, NEW line, NEW d, d = Executed(j, c, line),
           line.code \in {"G53 Z", "G53 XY", "G0 Z", "G0", "G1"} =>
              /\ c.modes = Modes /\ WithinTravel(j, d.z)
              /\ c.p # d.p => Within(Rect(d.p[1], d.p[2], 0, 0), j.machine.bed),
           line.code \in {"G53 Z", "G53 XY", "G0 Z", "G0"} =>
              /\ c.p # d.p => ~(Smaller(c.z, d.z) < j.safe) /\ Attested(j, {"clearance"})
              /\ ~(d.z < 0),
           line.code = "G1" =>
              /\ c.spindle = "at speed" /\ c.tool = doc.programs[at[1]].tool
              /\ \A i \in 1 .. at[1] - 1 :
                    ~(/\ doc.programs[i].release
                      /\ SheetOf(j.setups[doc.programs[i].setup]) = CutSheet(j)),
           line.code = "M6" =>
              c.spindle = "off" /\ c.p = ToolChange /\ c.z = ToolChangeZ(j) /\ "coolant" \in c.modes,
           line.code = "M2" => c.spindle = "off" /\ ~c.comp /\ c.z = ToolChangeZ(j)
    PROVE  Harm(j, c, line) = {}
<1> DEFINE axes == line.code \in {"G53 Z", "G53 XY", "G0 Z", "G0", "G1"}
           rapid == axes /\ line.code # "G1"
           freed == \E i \in 1 .. at[1] - 1 :
                       /\ doc.programs[i].release
                       /\ SheetOf(j.setups[doc.programs[i].setup]) = CutSheet(j)
<1>1. rapid => line.code \in {"G53 Z", "G53 XY", "G0 Z", "G0"}
  OBVIOUS
<1>2. ~(axes /\ c.modes # Modes)
  OBVIOUS
<1>3. ~(rapid /\ c.p # d.p /\ (Smaller(c.z, d.z) < j.safe \/ ~Attested(j, {"clearance"})))
  BY <1>1
<1>4. ~(axes /\ c.p # d.p /\ ~Within(Rect(d.p[1], d.p[2], 0, 0), j.machine.bed))
  OBVIOUS
<1>5. ~(rapid /\ d.z < 0)
  BY <1>1
<1>6. ~(line.code = "G1" /\ (c.spindle # "at speed" \/ c.tool # doc.programs[at[1]].tool))
  OBVIOUS
<1>7. ~(line.code = "G1" /\ freed)
  OBVIOUS
<1>8. ~(line.code = "M6" /\ (c.spindle # "off" \/ c.p # ToolChange \/ c.z # ToolChangeZ(j)
                                \/ "coolant" \notin c.modes))
  OBVIOUS
<1>9. ~(line.code = "M2" /\ (c.spindle # "off" \/ c.comp \/ c.z # ToolChangeZ(j)))
  OBVIOUS
<1>10. ~(axes /\ ~WithinTravel(j, d.z))
  OBVIOUS
<1> QED
  BY <1>2, <1>3, <1>4, <1>5, <1>6, <1>7, <1>8, <1>9, <1>10 DEF Harm
-----------------------------------------------------------------------------
\* What verification and validation leave of a program for the controller.
ReadyProgram(j, program, M) ==
    /\ M \in Nat \ {0} /\ j.safe \in Nat /\ j.profile.attested = Policies
    /\ program.setup # 0
    /\ j.profile.offsets[program.setup] = j.setups[program.setup].origin
    /\ Within(Rect(ToolChange[1], ToolChange[2], 0, 0), j.machine.bed)
    /\ ToolChangeZ(j) \in Int /\ ToolChangeZ(j) >= j.safe
    /\ WithinTravel(j, ToolChangeZ(j)) /\ WithinTravel(j, j.safe)
    /\ Within(Rect(EntryPoint(j, program)[1], EntryPoint(j, program)[2], 0, 0), j.machine.bed)
    /\ program.moves[1].kind = "rapid" /\ program.moves[1].z = j.safe
    /\ \A i \in 1 .. M :
          LET move == program.moves[i]
              to == Shifted(move.p, j.setups[program.setup].origin)
          IN  /\ move.z \in Int /\ WithinTravel(j, move.z)
              /\ Within(Rect(to[1], to[2], 0, 0), j.machine.bed)
              /\ move.kind = "rapid" =>
                    /\ move.z >= 0
                    /\ i > 1 /\ program.moves[i - 1].p # move.p =>
                          program.moves[i - 1].z = j.safe /\ move.z = j.safe

\* How many lines of the canonical state are in force before line k.
Restated(k) == IF k <= 13 THEN k - 1 ELSE k - 14

\* The parts of the controller before line k of a program with M moves.
ModesAt(modes, k) ==
    /\ modes \subseteq Modes
    /\ \A n \in 1 .. 10 : n <= Restated(k) => CanonicalState[n].code \in modes \cup {"M5"}
SpindleAt(spindle, M, k) ==
    /\ k \in 6 .. 13 => spindle = "off"
    /\ k = 30 => spindle = "on"
    /\ k \in 31 .. M + 30 => spindle \in {"at speed", "slow"}
    /\ k >= M + 33 => spindle = "off"
CompAt(comp, M, k) ==
    /\ k \in 27 .. M + 34 => comp = TRUE
    /\ k >= M + 35 => comp = FALSE
HeadAt(program, tool, setup, k) ==
    /\ k >= 14 => tool = program.tool
    /\ k >= 28 => setup = program.setup
PlaceAt(j, program, p, z, M, k) ==
    /\ k \in 12 .. 13 => z = ToolChangeZ(j)
    /\ k \in 25 .. 28 => z = ToolChangeZ(j)
    /\ k >= M + 36 => z = ToolChangeZ(j)
    /\ k \in 29 .. 31 => z = j.safe
    /\ k = 13 => p = ToolChange
    /\ k \in 26 .. 31 => p = EntryPoint(j, program)
    /\ k \in 32 .. M + 31 =>
          /\ z = program.moves[k - 31].z
          /\ p = Shifted(program.moves[k - 31].p, j.setups[program.setup].origin)

Controlled(j, program, M, c, k) ==
    /\ DOMAIN c = ControlFields /\ c.exact = TRUE
    /\ ModesAt(c.modes, k) /\ SpindleAt(c.spindle, M, k) /\ CompAt(c.comp, M, k)
    /\ HeadAt(program, c.tool, c.setup, k) /\ PlaceAt(j, program, c.p, c.z, M, k)

LEMMA ControlledWhenHeld ==
    ASSUME NEW j, NEW program, NEW M, NEW k, NEW c, NEW modes, NEW spindle, NEW comp, NEW tool, NEW setup,
           NEW exact, NEW p, NEW z, Holds(c, modes, spindle, comp, tool, setup, exact, p, z), exact = TRUE,
           ModesAt(modes, k), SpindleAt(spindle, M, k), CompAt(comp, M, k), HeadAt(program, tool, setup, k),
           PlaceAt(j, program, p, z, M, k)
    PROVE  Controlled(j, program, M, c, k)
  BY Zenon DEF Holds, Controlled

\* Once all of it is restated, the modal state is known.
LEMMA KnownState ==
    ASSUME NEW j, NEW program, NEW M, NEW c, NEW k \in Int, Controlled(j, program, M, c, k),
           k \in 11 .. 13 \/ k >= 24
    PROVE  c.modes = Modes
<1>1. \A n \in 1 .. 10 : n <= Restated(k)
  BY DEF Restated
<1>2. /\ c.modes \subseteq Modes
      /\ \A n \in 1 .. 10 : n <= Restated(k) => CanonicalState[n].code \in c.modes \cup {"M5"}
  BY Zenon DEF Controlled, ModesAt
<1>3. \A mode \in Modes : \E n \in 1 .. 10 : CanonicalState[n].code = mode
  BY CanonicalLines, Zenon
<1>4. \A mode \in Modes : mode # "M5"
  BY DEF Modes
<1>5. \A mode \in Modes : mode \in c.modes
  BY <1>1, <1>2, <1>3, <1>4, Zenon
<1> QED
  BY <1>2, <1>5, Zenon

\* A work height or place is where it says.
LEMMA WorkIsExact ==
    ASSUME NEW j, NEW program, NEW M, NEW c, NEW k \in Int,
           ReadyProgram(j, program, M), Controlled(j, program, M, c, k), k \in 28 .. M + 34
    PROVE  /\ \A z : WorkZ(c, z) = z
           /\ \A p : WorkP(j, c, p) = Shifted(p, j.setups[program.setup].origin)
<1>1. M \in Nat
  BY DEF ReadyProgram
<1>2. c.modes = Modes
  BY <1>1, KnownState
<1>3. "offsets" \in Modes
  BY DEF Modes
<1>4. CompAt(c.comp, M, k) /\ HeadAt(program, c.tool, c.setup, k) /\ c.exact = TRUE
  BY Zenon DEF Controlled
<1>5. c.comp = TRUE /\ c.setup = program.setup
  BY <1>1, <1>4 DEF CompAt, HeadAt
<1>6. program.setup # 0 /\ j.profile.offsets[program.setup] = j.setups[program.setup].origin
  BY Zenon DEF ReadyProgram
<1> QED
  BY <1>2, <1>3, <1>4, <1>5, <1>6 DEF WorkZ, WorkP

\* A line of the canonical state, before or after the tool change.
LEMMA CanonicalStep ==
    ASSUME NEW j, NEW program, NEW M, NEW c, NEW n \in 1 .. 10, NEW k \in {n, 13 + n},
           ReadyProgram(j, program, M), Controlled(j, program, M, c, k)
    PROVE  LET line == CanonicalState[n]
           IN  /\ line.code \in Modes \cup {"M5"}
               /\ Controlled(j, program, M, Executed(j, c, line), k + 1)
<1> DEFINE line == CanonicalState[n]
           d == Executed(j, c, line)
<1>1. M \in Nat \ {0} /\ j.profile.attested = Policies
  BY Zenon DEF ReadyProgram
<1>2. line.code \in Modes \/ (line.code = "M5" /\ n = 5)
  BY CanonicalLines, Zenon
<1>3. Restated(k) = n - 1 /\ Restated(k + 1) = n
  BY DEF Restated
<1>4. /\ DOMAIN c = ControlFields /\ c.exact = TRUE
      /\ ModesAt(c.modes, k) /\ SpindleAt(c.spindle, M, k)
      /\ HeadAt(program, c.tool, c.setup, k)
  BY Zenon DEF Controlled
<1>5. HeadAt(program, c.tool, c.setup, k + 1)
  BY <1>4 DEF HeadAt
<1>6. \A p, z : PlaceAt(j, program, p, z, M, k + 1)
  BY <1>1 DEF PlaceAt
<1>7. \A comp : CompAt(comp, M, k + 1)
  BY <1>1 DEF CompAt
<1>8. \A modes : modes \subseteq Modes /\ c.modes \subseteq modes /\ line.code \in modes \cup {"M5"}
                    => ModesAt(modes, k + 1)
  <2> SUFFICES ASSUME NEW modes, modes \subseteq Modes, c.modes \subseteq modes, line.code \in modes \cup {"M5"},
                      NEW i \in 1 .. 10, i <= Restated(k + 1)
               PROVE  CanonicalState[i].code \in modes \cup {"M5"}
    BY DEF ModesAt
  <2>1. i = n \/ i <= Restated(k)
    BY <1>3
  <2>2. i <= Restated(k) => CanonicalState[i].code \in c.modes \cup {"M5"}
    BY <1>4, Zenon DEF ModesAt
  <2> QED
    BY <2>1, <2>2
<1>9. CASE line.code \in Modes
  <2>1. Holds(d, c.modes \cup {line.code}, c.spindle, c.comp /\ line.code # "modal",
              c.tool, c.setup, c.exact, c.p, c.z)
    BY <1>1, <1>4, <1>9, ModeExecuted, Zenon
  <2>2. ModesAt(c.modes \cup {line.code}, k + 1)
    <3>1. c.modes \subseteq Modes
      BY <1>4, Zenon DEF ModesAt
    <3> QED
      BY <3>1, <1>8, <1>9
  <2>3. k # 5
    <3>1. "M5" \notin Modes /\ CanonicalState[5].code = "M5"
      BY CanonicalLines DEF Modes
    <3>2. n # 5
      BY <3>1, <1>9, Zenon
    <3> QED
      BY <3>2
  <2>4. SpindleAt(c.spindle, M, k + 1)
    <3>1. k \in 1 .. 10 \/ k \in 14 .. 23
      OBVIOUS
    <3>2. k + 1 \in 6 .. 13 => k \in 6 .. 13
      BY <3>1, <2>3
    <3>3. k + 1 # 30 /\ ~(k + 1 \in 31 .. M + 30) /\ ~(k + 1 >= M + 33)
      BY <3>1, <1>1
    <3> QED
      BY <3>2, <3>3, <1>4, Zenon DEF SpindleAt
  <2>5. Controlled(j, program, M, d, k + 1)
    BY <2>1, <2>2, <2>4, <1>4, <1>5, <1>6, <1>7, ControlledWhenHeld, ZenonT(60)
  <2> QED
    BY <2>5, <1>9
<1>10. CASE line.code = "M5" /\ n = 5
  <2>1. Holds(d, c.modes, "off", c.comp, c.tool, c.setup, c.exact, c.p, c.z)
    BY <1>1, <1>4, <1>10, OthersExecuted
  <2>2. ModesAt(c.modes, k + 1)
    <3>1. c.modes \subseteq Modes
      BY <1>4, Zenon DEF ModesAt
    <3> QED
      BY <3>1, <1>8, <1>10
  <2>3. SpindleAt("off", M, k + 1)
    BY <1>1, <1>10 DEF SpindleAt
  <2>5. Controlled(j, program, M, d, k + 1)
    BY <2>1, <2>2, <2>3, <1>4, <1>5, <1>6, <1>7, ControlledWhenHeld, ZenonT(60)
  <2> QED
    BY <2>5, <1>10
<1> QED
  BY <1>2, <1>9, <1>10

\* What a line that does not touch it leaves of each part.
LEMMA SpindleKept ==
    ASSUME NEW spindle, NEW M \in Nat \ {0}, NEW k \in Int, SpindleAt(spindle, M, k),
           k \notin {5, 29, 30, M + 32}
    PROVE  SpindleAt(spindle, M, k + 1)
<1>1. /\ k + 1 \in 6 .. 13 => k \in 6 .. 13
      /\ k + 1 # 30
      /\ k + 1 \in 31 .. M + 30 => k \in 31 .. M + 30
      /\ k + 1 >= M + 33 => k >= M + 33
  OBVIOUS
<1> QED
  BY <1>1, Zenon DEF SpindleAt

LEMMA CompKept ==
    ASSUME NEW comp, NEW M \in Nat \ {0}, NEW k \in Int, CompAt(comp, M, k), k \notin {26, M + 34}
    PROVE  CompAt(comp, M, k + 1)
<1>1. /\ k + 1 \in 27 .. M + 34 => k \in 27 .. M + 34
      /\ k + 1 >= M + 35 => k >= M + 35
  OBVIOUS
<1> QED
  BY <1>1, Zenon DEF CompAt

LEMMA HeadKept ==
    ASSUME NEW program, NEW tool, NEW setup, NEW k \in Int, HeadAt(program, tool, setup, k), k \notin {13, 27}
    PROVE  HeadAt(program, tool, setup, k + 1)
<1>1. (k + 1 >= 14 => k >= 14) /\ (k + 1 >= 28 => k >= 28)
  OBVIOUS
<1> QED
  BY <1>1, Zenon DEF HeadAt

LEMMA AllModes == \A k : ModesAt(Modes, k)
  BY CanonicalLines, Zenon DEF ModesAt

\* Line k leaves the controller as it must be before the next, and does no harm.
SafeLine(j, program, M, c, line, k) ==
    /\ Harm(j, c, line) = {}
    /\ line.code = "M6" => \A d \in Remapped(j, c, line) : Controlled(j, program, M, d, k + 1)
    /\ line.code # "M6" => Controlled(j, program, M, Executed(j, c, line), k + 1)

\* Canonical lines move nothing.
LEMMA CanonicalIsSafe ==
    ASSUME NEW j, NEW program, NEW M, NEW c, NEW n \in 1 .. 10, NEW k \in {n, 13 + n},
           ReadyProgram(j, program, M), Controlled(j, program, M, c, k)
    PROVE  SafeLine(j, program, M, c, CanonicalState[n], k)
<1> DEFINE line == CanonicalState[n]
<1>1. line.code \in Modes \cup {"M5"} /\ Controlled(j, program, M, Executed(j, c, line), k + 1)
  BY CanonicalStep, Zenon
<1> HIDE DEF line
<1>2. line.code \notin {"G53 Z", "G53 XY", "G0 Z", "G0", "G1", "M6", "M2"}
  BY <1>1 DEF Modes
<1>3. Harm(j, c, line) = {}
  <2>1. /\ line.code \notin {"G53 Z", "G53 XY", "G0 Z", "G0", "G1"}
        /\ line.code \notin {"G53 Z", "G53 XY", "G0 Z", "G0"}
        /\ line.code # "G1" /\ line.code # "M6" /\ line.code # "M2"
    BY <1>2
  <2> QED
    BY <2>1, NoHarm
<1> QED
  BY <1>1, <1>2, <1>3 DEF SafeLine, line

\* G53 Z to the height of a tool change: nothing below.
LEMMA RetreatIsSafe ==
    ASSUME NEW j, NEW program, NEW M, NEW c, NEW k \in {11, 24, M + 35},
           ReadyProgram(j, program, M), Controlled(j, program, M, c, k)
    PROVE  SafeLine(j, program, M, c, Line("G53 Z", << >>, ToolChangeZ(j), 0), k)
<1> DEFINE line == Line("G53 Z", << >>, ToolChangeZ(j), 0)
           d == Executed(j, c, line)
<1>1. line.code = "G53 Z" /\ line.z = ToolChangeZ(j)
  BY DEF Line, Plain
<1> HIDE DEF line
<1>2. M \in Nat \ {0} /\ j.safe \in Nat
  BY Zenon DEF ReadyProgram
<1>3. /\ DOMAIN c = ControlFields /\ c.exact = TRUE /\ ModesAt(c.modes, k) /\ SpindleAt(c.spindle, M, k)
      /\ CompAt(c.comp, M, k) /\ HeadAt(program, c.tool, c.setup, k)
  BY Zenon DEF Controlled
<1>4. Holds(d, c.modes, c.spindle, c.comp, c.tool, c.setup, c.exact, c.p, ToolChangeZ(j))
  BY <1>1, <1>3, AxesExecuted
<1>5. c.modes = Modes
  <2>1. k \in Int /\ (k \in 11 .. 13 \/ k >= 24)
    BY <1>2
  <2> QED
    BY <2>1, KnownState, Zenon
<1>6. ModesAt(c.modes, k + 1)
  BY <1>5, AllModes, Zenon
<1>70. k \in Int /\ k \notin {5, 29, 30, M + 32} /\ k \notin {26, M + 34} /\ k \notin {13, 27}
  BY <1>2
<1>7. SpindleAt(c.spindle, M, k + 1)
  BY <1>2, <1>3, <1>70, SpindleKept, Zenon
<1>8. CompAt(c.comp, M, k + 1)
  BY <1>2, <1>3, <1>70, CompKept, Zenon
<1>9. HeadAt(program, c.tool, c.setup, k + 1)
  BY <1>3, <1>70, HeadKept, Zenon
<1>10. PlaceAt(j, program, c.p, ToolChangeZ(j), M, k + 1)
  BY <1>2 DEF PlaceAt
<1>11. Controlled(j, program, M, d, k + 1)
  BY <1>3, <1>4, <1>6, <1>7, <1>8, <1>9, <1>10, ControlledWhenHeld, ZenonT(60)
<1>12. Harm(j, c, line) = {}
  <2>0. ToolChangeZ(j) \in Int /\ ToolChangeZ(j) >= j.safe /\ WithinTravel(j, ToolChangeZ(j))
    BY Zenon DEF ReadyProgram
  <2>1. ~(ToolChangeZ(j) < 0)
    BY <2>0, <1>2
  <2>2. d.p = c.p /\ d.z = ToolChangeZ(j)
    BY <1>4, Zenon DEF Holds
  <2>3. line.code # "G1" /\ line.code # "M6" /\ line.code # "M2"
    BY <1>1
  <2> HIDE DEF d
  <2>4. d = Executed(j, c, line)
    BY DEF d
  <2> QED
    BY <2>0, <2>1, <2>2, <2>3, <2>4, <1>5, NoHarm
<1>13. line.code # "M6"
  BY <1>1
<1> QED
  BY <1>11, <1>12, <1>13, Zenon DEF SafeLine, line

\* G53 XY at that height, to the tool change or over the entry of the program.
LEMMA TraverseIsSafe ==
    ASSUME NEW j, NEW program, NEW M, NEW c, NEW k \in {12, 25}, NEW to,
           to = (IF k = 12 THEN ToolChange ELSE EntryPoint(j, program)),
           ReadyProgram(j, program, M), Controlled(j, program, M, c, k)
    PROVE  SafeLine(j, program, M, c, Line("G53 XY", to, 0, 0), k)
<1> DEFINE line == Line("G53 XY", to, 0, 0)
           d == Executed(j, c, line)
<1>1. line.code = "G53 XY" /\ line.p = to
  BY DEF Line, Plain
<1> HIDE DEF line
<1>2. M \in Nat \ {0} /\ j.safe \in Nat /\ j.profile.attested = Policies
  BY Zenon DEF ReadyProgram
<1>3. /\ DOMAIN c = ControlFields /\ c.exact = TRUE /\ ModesAt(c.modes, k) /\ SpindleAt(c.spindle, M, k)
      /\ CompAt(c.comp, M, k) /\ HeadAt(program, c.tool, c.setup, k) /\ PlaceAt(j, program, c.p, c.z, M, k)
  BY Zenon DEF Controlled
<1>4. Holds(d, c.modes, c.spindle, c.comp, c.tool, c.setup, c.exact, to, c.z)
  BY <1>1, <1>3, AxesExecuted
<1>5. c.modes = Modes
  <2>1. k \in Int /\ (k \in 11 .. 13 \/ k >= 24)
    OBVIOUS
  <2> QED
    BY <2>1, KnownState, Zenon
<1>6. ModesAt(c.modes, k + 1)
  BY <1>5, AllModes, Zenon
<1>70. k \in Int /\ k \notin {5, 29, 30, M + 32} /\ k \notin {26, M + 34} /\ k \notin {13, 27}
  BY <1>2
<1>7. SpindleAt(c.spindle, M, k + 1)
  BY <1>2, <1>3, <1>70, SpindleKept, Zenon
<1>8. CompAt(c.comp, M, k + 1)
  BY <1>2, <1>3, <1>70, CompKept, Zenon
<1>9. HeadAt(program, c.tool, c.setup, k + 1)
  BY <1>3, <1>70, HeadKept, Zenon
<1>10. c.z = ToolChangeZ(j)
  BY <1>3 DEF PlaceAt
<1>11. PlaceAt(j, program, to, c.z, M, k + 1)
  BY <1>2, <1>10 DEF PlaceAt
<1>12. Controlled(j, program, M, d, k + 1)
  BY <1>3, <1>4, <1>6, <1>7, <1>8, <1>9, <1>11, ControlledWhenHeld, ZenonT(60)
<1>13. Harm(j, c, line) = {}
  <2>0. ToolChangeZ(j) \in Int /\ ToolChangeZ(j) >= j.safe /\ WithinTravel(j, ToolChangeZ(j))
    BY Zenon DEF ReadyProgram
  <2>1. ~(ToolChangeZ(j) < 0) /\ ~(Smaller(ToolChangeZ(j), ToolChangeZ(j)) < j.safe)
    BY <2>0, <1>2 DEF Smaller
  <2>2. d.p = to /\ d.z = ToolChangeZ(j)
    BY <1>4, <1>10, Zenon DEF Holds
  <2>3. line.code # "G1" /\ line.code # "M6" /\ line.code # "M2"
    BY <1>1
  <2>4. Attested(j, {"clearance"})
    BY <1>2, EveryPolicy
  <2>5. Within(Rect(to[1], to[2], 0, 0), j.machine.bed)
    BY Zenon DEF ReadyProgram
  <2> HIDE DEF d
  <2>6. d = Executed(j, c, line)
    BY DEF d
  <2> QED
    BY <2>0, <2>1, <2>2, <2>3, <2>4, <2>5, <2>6, <1>5, <1>10, NoHarm
<1>14. line.code # "M6"
  BY <1>1
<1> QED
  BY <1>12, <1>13, <1>14, Zenon DEF SafeLine, line

LEMMA StillLine ==
    ASSUME NEW j, NEW c, NEW line,
           line.code \notin {"G53 Z", "G53 XY", "G0 Z", "G0", "G1", "M6", "M2"}
    PROVE  Harm(j, c, line) = {}
<1>1. /\ line.code \notin {"G53 Z", "G53 XY", "G0 Z", "G0", "G1"}
      /\ line.code \notin {"G53 Z", "G53 XY", "G0 Z", "G0"}
      /\ line.code # "G1" /\ line.code # "M6" /\ line.code # "M2"
  OBVIOUS
<1> QED
  BY <1>1, NoHarm

\* The tool change, whatever it leaves behind.
LEMMA ChangeIsSafe ==
    ASSUME NEW j, NEW program, NEW M, NEW c,
           ReadyProgram(j, program, M), Controlled(j, program, M, c, 13)
    PROVE  SafeLine(j, program, M, c, Line("M6", << >>, 0, program.tool), 13)
<1> DEFINE line == Line("M6", << >>, 0, program.tool)
           k == 13
<1>1. line.code = "M6" /\ line.n = program.tool
  BY DEF Line
<1> HIDE DEF line
<1>2. M \in Nat \ {0} /\ j.safe \in Nat /\ j.profile.attested = Policies
  BY Zenon DEF ReadyProgram
<1>3. /\ DOMAIN c = ControlFields /\ c.exact = TRUE /\ ModesAt(c.modes, k) /\ SpindleAt(c.spindle, M, k)
      /\ CompAt(c.comp, M, k) /\ HeadAt(program, c.tool, c.setup, k) /\ PlaceAt(j, program, c.p, c.z, M, k)
  BY Zenon DEF Controlled
<1>4. c.modes = Modes
  <2>1. k \in Int /\ k \in 11 .. 13
    OBVIOUS
  <2> QED
    BY <2>1, KnownState, Zenon
<1>5. c.spindle = "off"
  BY <1>3 DEF SpindleAt
<1>6. c.p = ToolChange /\ c.z = ToolChangeZ(j)
  BY <1>3 DEF PlaceAt
<1>7. "coolant" \in c.modes
  BY <1>4 DEF Modes
<1>8. Harm(j, c, line) = {}
  <2>1. /\ line.code \notin {"G53 Z", "G53 XY", "G0 Z", "G0", "G1"}
        /\ line.code \notin {"G53 Z", "G53 XY", "G0 Z", "G0"}
        /\ line.code # "G1" /\ line.code # "M2"
    BY <1>1
  <2> QED
    BY <2>1, <1>5, <1>6, <1>7, NoHarm
<1>9. ASSUME NEW d \in Remapped(j, c, line)
      PROVE  Controlled(j, program, M, d, 14)
  <2> DEFINE Remains == [modes : {{}, Modes, Modes \ {"offsets"}}, comp : BOOLEAN, spindle : {"off", "on"}]
  <2>1. PICK left \in Remains :
           d = [c EXCEPT !.tool = line.n, !.modes = left.modes, !.comp = left.comp, !.spindle = left.spindle,
                         !.exact = c.exact /\ Attested(j, {"tool table", "offset table"})]
    BY DEF Remapped
  <2> DEFINE modes == left.modes
             comp == left.comp
             spindle == left.spindle
  <2>2. Attested(j, {"tool table", "offset table"})
    BY <1>2, EveryPolicy
  <2>3. Holds(d, modes, spindle, comp, program.tool, c.setup, TRUE, c.p, c.z)
    BY <2>1, <2>2, <1>1, <1>3 DEF Holds, ControlFields
  <2>4. ModesAt(modes, 14)
    BY DEF ModesAt, Restated
  <2>5. SpindleAt(spindle, M, 14)
    BY <1>2 DEF SpindleAt
  <2>6. CompAt(comp, M, 14)
    BY <1>2 DEF CompAt
  <2>7. HeadAt(program, program.tool, c.setup, 14)
    BY DEF HeadAt
  <2>8. PlaceAt(j, program, c.p, c.z, M, 14)
    BY <1>2 DEF PlaceAt
  <2> QED
    BY <2>3, <2>4, <2>5, <2>6, <2>7, <2>8, ControlledWhenHeld, ZenonT(60)
<1>10. 13 + 1 = 14
  OBVIOUS
<1> QED
  BY <1>1, <1>8, <1>9, <1>10, Zenon DEF SafeLine, line

\* G43 and the work offset at the height of the tool change, M3 and G4 over the entry.
LEMMA OffsetIsSafe ==
    ASSUME NEW j, NEW program, NEW M, NEW c,
           ReadyProgram(j, program, M), Controlled(j, program, M, c, 26)
    PROVE  SafeLine(j, program, M, c, Line("G43", << >>, 0, program.tool), 26)
<1> DEFINE line == Line("G43", << >>, 0, program.tool)
           d == Executed(j, c, line)
           k == 26
<1>1. line.code = "G43" /\ line.n = program.tool
  BY DEF Line
<1> HIDE DEF line
<1>2. M \in Nat \ {0} /\ j.safe \in Nat /\ j.profile.attested = Policies
  BY Zenon DEF ReadyProgram
<1>3. /\ DOMAIN c = ControlFields /\ c.exact = TRUE /\ ModesAt(c.modes, k) /\ SpindleAt(c.spindle, M, k)
      /\ CompAt(c.comp, M, k) /\ HeadAt(program, c.tool, c.setup, k) /\ PlaceAt(j, program, c.p, c.z, M, k)
  BY Zenon DEF Controlled
<1>4. Holds(d, c.modes, c.spindle, line.n = c.tool, c.tool, c.setup, c.exact, c.p, c.z)
  BY <1>1, <1>2, <1>3, OthersExecuted
<1>5. c.modes = Modes
  <2>1. k \in Int /\ (k \in 11 .. 13 \/ k >= 24)
    BY <1>2
  <2> QED
    BY <2>1, KnownState, Zenon
<1>6. ModesAt(c.modes, k + 1)
  BY <1>5, AllModes, Zenon
<1>7. SpindleAt(c.spindle, M, k + 1)
  BY <1>2, <1>3, SpindleKept
<1>8. CompAt(line.n = c.tool, M, k + 1)
  <2>1. (line.n = c.tool) = TRUE
    BY <1>1, <1>3 DEF HeadAt
  <2>2. CompAt(TRUE, M, k + 1)
    BY <1>2 DEF CompAt
  <2> QED
    BY <2>1, <2>2, Zenon
<1>9. HeadAt(program, c.tool, c.setup, k + 1)
  BY <1>3 DEF HeadAt
<1>10. PlaceAt(j, program, c.p, c.z, M, k + 1)
  BY <1>2, <1>3 DEF PlaceAt
<1>11. Controlled(j, program, M, d, k + 1)
  BY <1>3, <1>4, <1>6, <1>7, <1>8, <1>9, <1>10, ControlledWhenHeld, ZenonT(60)
<1>12. Harm(j, c, line) = {}
  BY <1>1, StillLine
<1>13. line.code # "M6"
  BY <1>1
<1> QED
  BY <1>11, <1>12, <1>13, Zenon DEF SafeLine, line

LEMMA WorkOffsetIsSafe ==
    ASSUME NEW j, NEW program, NEW M, NEW c,
           ReadyProgram(j, program, M), Controlled(j, program, M, c, 27)
    PROVE  SafeLine(j, program, M, c, Line("WCS", << >>, 0, program.setup), 27)
<1> DEFINE line == Line("WCS", << >>, 0, program.setup)
           d == Executed(j, c, line)
           k == 27
<1>1. line.code = "WCS" /\ line.n = program.setup
  BY DEF Line
<1> HIDE DEF line
<1>2. M \in Nat \ {0} /\ j.safe \in Nat /\ j.profile.attested = Policies
  BY Zenon DEF ReadyProgram
<1>3. /\ DOMAIN c = ControlFields /\ c.exact = TRUE /\ ModesAt(c.modes, k) /\ SpindleAt(c.spindle, M, k)
      /\ CompAt(c.comp, M, k) /\ HeadAt(program, c.tool, c.setup, k) /\ PlaceAt(j, program, c.p, c.z, M, k)
  BY Zenon DEF Controlled
<1>4. Holds(d, c.modes, c.spindle, c.comp, c.tool, line.n, c.exact /\ TRUE, c.p, c.z)
  BY <1>1, <1>2, <1>3, OthersExecuted
<1>5. c.modes = Modes
  <2>1. k \in Int /\ (k \in 11 .. 13 \/ k >= 24)
    BY <1>2
  <2> QED
    BY <2>1, KnownState, Zenon
<1>6. ModesAt(c.modes, k + 1)
  BY <1>5, AllModes, Zenon
<1>7. SpindleAt(c.spindle, M, k + 1)
  BY <1>2, <1>3, SpindleKept
<1>8. CompAt(c.comp, M, k + 1)
  BY <1>2, <1>3, CompKept
<1>9. HeadAt(program, c.tool, line.n, k + 1)
  BY <1>1, <1>3 DEF HeadAt
<1>10. PlaceAt(j, program, c.p, c.z, M, k + 1)
  BY <1>2, <1>3 DEF PlaceAt
<1>11. Controlled(j, program, M, d, k + 1)
  <2>1. (c.exact /\ TRUE) = TRUE
    BY <1>3
  <2> QED
    BY <2>1, <1>4, <1>6, <1>7, <1>8, <1>9, <1>10, ControlledWhenHeld, ZenonT(60)
<1>12. Harm(j, c, line) = {}
  BY <1>1, StillLine
<1>13. line.code # "M6"
  BY <1>1
<1> QED
  BY <1>11, <1>12, <1>13, Zenon DEF SafeLine, line

LEMMA SpindleUpIsSafe ==
    ASSUME NEW j, NEW program, NEW M, NEW c, NEW k \in {29, 30}, NEW line,
           line.code = (IF k = 29 THEN "M3" ELSE "G4"),
           ReadyProgram(j, program, M), Controlled(j, program, M, c, k)
    PROVE  SafeLine(j, program, M, c, line, k)
<1> DEFINE d == Executed(j, c, line)
           spindle == IF k = 29 THEN "on" ELSE "at speed"
<1>1. (k = 29 => line.code = "M3") /\ (k = 30 => line.code = "G4")
  OBVIOUS
<1>2. M \in Nat \ {0} /\ j.safe \in Nat /\ j.profile.attested = Policies
  BY Zenon DEF ReadyProgram
<1>3. /\ DOMAIN c = ControlFields /\ c.exact = TRUE /\ ModesAt(c.modes, k) /\ SpindleAt(c.spindle, M, k)
      /\ CompAt(c.comp, M, k) /\ HeadAt(program, c.tool, c.setup, k) /\ PlaceAt(j, program, c.p, c.z, M, k)
  BY Zenon DEF Controlled
<1>4. Holds(d, c.modes, spindle, c.comp, c.tool, c.setup, c.exact, c.p, c.z)
  <2>1. CASE k = 29
    BY <2>1, <1>1, <1>2, <1>3, OthersExecuted
  <2>2. CASE k = 30
    <3>1. c.spindle = "on"
      BY <2>2, <1>3 DEF SpindleAt
    <3>2. Holds(d, c.modes, IF c.spindle = "on" THEN "at speed" ELSE c.spindle,
                c.comp, c.tool, c.setup, c.exact, c.p, c.z)
      BY <2>2, <1>1, <1>2, <1>3, OthersExecuted
    <3>3. spindle = (IF c.spindle = "on" THEN "at speed" ELSE c.spindle)
      BY <3>1, <2>2
    <3> QED
      BY <3>2, <3>3, Zenon
  <2> QED
    BY <2>1, <2>2
<1>5. c.modes = Modes
  <2>1. k \in Int /\ (k \in 11 .. 13 \/ k >= 24)
    BY <1>2
  <2> QED
    BY <2>1, KnownState, Zenon
<1>6. ModesAt(c.modes, k + 1)
  BY <1>5, AllModes, Zenon
<1>7. SpindleAt(spindle, M, k + 1)
  BY <1>2 DEF SpindleAt
<1>8. CompAt(c.comp, M, k + 1)
  <2>1. k \in Int /\ k \notin {26, M + 34}
    BY <1>2
  <2> QED
    BY <2>1, <1>2, <1>3, CompKept, Zenon
<1>9. HeadAt(program, c.tool, c.setup, k + 1)
  BY <1>3 DEF HeadAt
<1>10. PlaceAt(j, program, c.p, c.z, M, k + 1)
  BY <1>2, <1>3 DEF PlaceAt
<1>11. Controlled(j, program, M, d, k + 1)
  BY <1>3, <1>4, <1>6, <1>7, <1>8, <1>9, <1>10, ControlledWhenHeld, ZenonT(60)
<1>12. line.code \in {"M3", "G4"}
  BY <1>1
<1>13. Harm(j, c, line) = {}
  BY <1>12, StillLine
<1>14. line.code # "M6"
  BY <1>12
<1> QED
  BY <1>11, <1>13, <1>14, Zenon DEF SafeLine

\* G0 Z to the rapid plane, into the work and out of it.
LEMMA PlaneIsSafe ==
    ASSUME NEW j, NEW program, NEW M, NEW c, NEW k \in {28, M + 31},
           ReadyProgram(j, program, M), Controlled(j, program, M, c, k)
    PROVE  SafeLine(j, program, M, c, Line("G0 Z", << >>, j.safe, 0), k)
<1> DEFINE line == Line("G0 Z", << >>, j.safe, 0)
           d == Executed(j, c, line)
<1>1. line.code = "G0 Z" /\ line.z = j.safe
  BY DEF Line
<1> HIDE DEF line
<1>2. M \in Nat \ {0} /\ j.safe \in Nat /\ j.profile.attested = Policies
  BY Zenon DEF ReadyProgram
<1>3. /\ DOMAIN c = ControlFields /\ c.exact = TRUE /\ ModesAt(c.modes, k) /\ SpindleAt(c.spindle, M, k)
      /\ CompAt(c.comp, M, k) /\ HeadAt(program, c.tool, c.setup, k) /\ PlaceAt(j, program, c.p, c.z, M, k)
  BY Zenon DEF Controlled
<1>4. Holds(d, c.modes, c.spindle, c.comp, c.tool, c.setup, c.exact, c.p, j.safe)
  <2>1. Holds(d, c.modes, c.spindle, c.comp, c.tool, c.setup, c.exact, c.p, WorkZ(c, line.z))
    BY <1>1, <1>3, AxesExecuted
  <2>2. k \in Int /\ k \in 28 .. M + 34
    BY <1>2
  <2>3. WorkZ(c, line.z) = line.z
    BY <2>2, WorkIsExact
  <2> QED
    BY <2>1, <2>3, <1>1, Zenon
<1>5. c.modes = Modes
  <2>1. k \in Int /\ (k \in 11 .. 13 \/ k >= 24)
    BY <1>2
  <2> QED
    BY <2>1, KnownState, Zenon
<1>6. ModesAt(c.modes, k + 1)
  BY <1>5, AllModes, Zenon
<1>70. k \in Int /\ k \notin {5, 29, 30, M + 32} /\ k \notin {26, M + 34} /\ k \notin {13, 27}
  BY <1>2
<1>7. SpindleAt(c.spindle, M, k + 1)
  BY <1>2, <1>3, <1>70, SpindleKept, Zenon
<1>8. CompAt(c.comp, M, k + 1)
  BY <1>2, <1>3, <1>70, CompKept, Zenon
<1>9. HeadAt(program, c.tool, c.setup, k + 1)
  BY <1>3, <1>70, HeadKept, Zenon
<1>10. PlaceAt(j, program, c.p, j.safe, M, k + 1)
  <2>1. CASE k = 28
    BY <2>1, <1>2, <1>3 DEF PlaceAt
  <2>2. CASE k = M + 31
    BY <2>2, <1>2 DEF PlaceAt
  <2> QED
    BY <2>1, <2>2
<1>11. Controlled(j, program, M, d, k + 1)
  BY <1>3, <1>4, <1>6, <1>7, <1>8, <1>9, <1>10, ControlledWhenHeld, ZenonT(60)
<1>12. Harm(j, c, line) = {}
  <2>0. WithinTravel(j, j.safe)
    BY Zenon DEF ReadyProgram
  <2>1. ~(j.safe < 0)
    BY <1>2
  <2>2. d.p = c.p /\ d.z = j.safe
    BY <1>4, Zenon DEF Holds
  <2>3. line.code # "G1" /\ line.code # "M6" /\ line.code # "M2"
    BY <1>1
  <2> HIDE DEF d
  <2>4. d = Executed(j, c, line)
    BY DEF d
  <2> QED
    BY <2>0, <2>1, <2>2, <2>3, <2>4, <1>5, NoHarm
<1>13. line.code # "M6"
  BY <1>1
<1> QED
  BY <1>11, <1>12, <1>13, Zenon DEF SafeLine, line

\* The sheet under program q is not free yet.
NotFreed(j, q) ==
    \A i \in 1 .. q - 1 :
       ~(/\ doc.programs[i].release
         /\ SheetOf(j.setups[doc.programs[i].setup]) = SheetOf(j.setups[doc.programs[q].setup]))

\* A move of the verified plan.
LEMMA MoveIsSafe ==
    ASSUME NEW j, NEW program, NEW M, NEW c, NEW i \in 1 .. M,
           ReadyProgram(j, program, M), Controlled(j, program, M, c, 30 + i),
           program = doc.programs[at[1]], NotFreed(j, at[1]),
           MoveLine(program.moves[i]).code = "G1" => c.spindle # "slow"
    PROVE  SafeLine(j, program, M, c, MoveLine(program.moves[i]), 30 + i)
<1> DEFINE move == program.moves[i]
           line == MoveLine(move)
           d == Executed(j, c, line)
           k == 30 + i
           origin == j.setups[program.setup].origin
           to == Shifted(move.p, origin)
<1>1. /\ line.code \in {"G0", "G1"} /\ line.z = move.z /\ line.p = move.p
      /\ line.code = "G0" => move.kind = "rapid"
  BY DEF MoveLine, Line
<1>2. M \in Nat \ {0} /\ j.safe \in Nat /\ j.profile.attested = Policies
  BY Zenon DEF ReadyProgram
<1>20. k \in Int /\ k \in 31 .. M + 30
  BY <1>2
<1> HIDE DEF line
<1>3. /\ DOMAIN c = ControlFields /\ c.exact = TRUE /\ ModesAt(c.modes, k) /\ SpindleAt(c.spindle, M, k)
      /\ CompAt(c.comp, M, k) /\ HeadAt(program, c.tool, c.setup, k) /\ PlaceAt(j, program, c.p, c.z, M, k)
  BY Zenon DEF Controlled
<1>4. Holds(d, c.modes, c.spindle, c.comp, c.tool, c.setup, c.exact, to, move.z)
  <2>1. Holds(d, c.modes, c.spindle, c.comp, c.tool, c.setup, c.exact, WorkP(j, c, line.p), WorkZ(c, line.z))
    BY <1>1, <1>3, AxesExecuted
  <2>2. k \in Int /\ k \in 28 .. M + 34
    BY <1>2, <1>20
  <2>3. WorkZ(c, line.z) = line.z /\ WorkP(j, c, line.p) = Shifted(line.p, origin)
    BY <2>2, WorkIsExact
  <2> QED
    BY <2>1, <2>3, <1>1, Zenon
<1>5. c.modes = Modes
  <2>1. k \in Int /\ (k \in 11 .. 13 \/ k >= 24)
    BY <1>20
  <2> QED
    BY <2>1, KnownState, Zenon
<1>6. ModesAt(c.modes, k + 1)
  BY <1>5, AllModes, Zenon
<1>70. k \notin {5, 29, 30, M + 32} /\ k \notin {26, M + 34} /\ k \notin {13, 27}
  BY <1>2, <1>20
<1>7. SpindleAt(c.spindle, M, k + 1)
  BY <1>2, <1>3, <1>20, <1>70, SpindleKept, Zenon
<1>8. CompAt(c.comp, M, k + 1)
  BY <1>2, <1>3, <1>20, <1>70, CompKept, Zenon
<1>9. HeadAt(program, c.tool, c.setup, k + 1)
  BY <1>3, <1>20, <1>70, HeadKept, Zenon
<1>10. PlaceAt(j, program, to, move.z, M, k + 1)
  <2>1. (k + 1) - 31 = i
    OBVIOUS
  <2>2. /\ ~(k + 1 \in 12 .. 13) /\ ~(k + 1 \in 25 .. 28) /\ ~(k + 1 >= M + 36)
        /\ ~(k + 1 \in 29 .. 31) /\ ~(k + 1 = 13) /\ ~(k + 1 \in 26 .. 31)
    BY <1>2
  <2> QED
    BY <2>1, <2>2, Zenon DEF PlaceAt
<1>11. Controlled(j, program, M, d, k + 1)
  BY <1>3, <1>4, <1>6, <1>7, <1>8, <1>9, <1>10, ControlledWhenHeld, ZenonT(60)
<1>12. d.p = to /\ d.z = move.z
  BY <1>4, Zenon DEF Holds
<1>13. /\ Within(Rect(to[1], to[2], 0, 0), j.machine.bed) /\ WithinTravel(j, move.z)
       /\ move.kind = "rapid" =>
             /\ move.z >= 0
             /\ i > 1 /\ program.moves[i - 1].p # move.p =>
                   program.moves[i - 1].z = j.safe /\ move.z = j.safe
  BY Zenon DEF ReadyProgram
<1>14. /\ move.z \in Int
       /\ program.moves[1].kind = "rapid"
  BY Zenon DEF ReadyProgram
<1>15. ASSUME line.code = "G0", c.p # d.p
       PROVE  ~(Smaller(c.z, d.z) < j.safe)
  <2>1. i # 1
    <3>1. SUFFICES ASSUME i = 1 PROVE FALSE
      OBVIOUS
    <3>2. c.p = EntryPoint(j, program)
      BY <3>1, <1>3 DEF PlaceAt
    <3>3. EntryPoint(j, program) = to
      BY <3>1 DEF EntryPoint
    <3> QED
      BY <3>2, <3>3, <1>12, <1>15, Zenon
  <2>2. k \in 32 .. M + 31 /\ k - 31 = i - 1
    BY <2>1, <1>2
  <2>3. c.z = program.moves[i - 1].z /\ c.p = Shifted(program.moves[i - 1].p, origin)
    BY <2>2, <1>3, Zenon DEF PlaceAt
  <2>4. program.moves[i - 1].p # move.p
    BY <2>3, <1>12, <1>15, Zenon
  <2>5. c.z = j.safe /\ d.z = j.safe
    <3>1. i > 1
      BY <2>1
    <3> QED
      BY <3>1, <2>3, <2>4, <1>1, <1>12, <1>13, <1>15, Zenon
  <2> QED
    BY <2>5, <1>2 DEF Smaller
<1>16. line.code = "G0" => ~(d.z < 0)
  <2>1. line.code = "G0" => move.z >= 0
    BY <1>1, <1>13, Zenon
  <2> QED
    BY <2>1, <1>12, <1>14
<1>17. line.code = "G1" => c.spindle = "at speed" /\ c.tool = doc.programs[at[1]].tool
  <2>1. c.spindle \in {"at speed", "slow"}
    BY <1>3, <1>20, Zenon DEF SpindleAt
  <2>2. c.tool = program.tool
    BY <1>3, <1>20 DEF HeadAt
  <2>3. line.code = "G1" => c.spindle # "slow"
    BY DEF line
  <2> QED
    BY <2>1, <2>2, <2>3, Zenon
<1>18. \A q \in 1 .. at[1] - 1 :
         ~(/\ doc.programs[q].release
           /\ SheetOf(j.setups[doc.programs[q].setup]) = CutSheet(j))
  BY Zenon DEF NotFreed, CutSheet
<1>19. Harm(j, c, line) = {}
  <2>1. Attested(j, {"clearance"})
    BY <1>2, EveryPolicy
  <2>2. line.code # "M6" /\ line.code # "M2"
    BY <1>1
  <2>3. line.code \in {"G53 Z", "G53 XY", "G0 Z", "G0"} => line.code = "G0"
    BY <1>1
  <2> HIDE DEF d
  <2>4. d = Executed(j, c, line)
    BY DEF d
  <2>5. line.code \in {"G53 Z", "G53 XY", "G0 Z", "G0", "G1"} =>
           /\ c.modes = Modes /\ WithinTravel(j, d.z)
           /\ c.p # d.p => Within(Rect(d.p[1], d.p[2], 0, 0), j.machine.bed)
    BY <1>5, <1>12, <1>13, Zenon
  <2>6. line.code \in {"G53 Z", "G53 XY", "G0 Z", "G0"} =>
           /\ c.p # d.p => ~(Smaller(c.z, d.z) < j.safe) /\ Attested(j, {"clearance"})
           /\ ~(d.z < 0)
    BY <2>1, <2>3, <1>15, <1>16, Zenon
  <2> QED
    BY <2>2, <2>4, <2>5, <2>6, <1>17, <1>18, NoHarm
<1>21. line.code # "M6"
  BY <1>1
<1> QED
  BY <1>11, <1>19, <1>21, Zenon DEF SafeLine, line

\* The end of a program.
LEMMA ExitIsSafe ==
    ASSUME NEW j, NEW program, NEW M, NEW c, NEW k \in {M + 32, M + 34}, NEW line,
           line.code = (IF k = M + 32 THEN "M5" ELSE "G49"),
           ReadyProgram(j, program, M), Controlled(j, program, M, c, k)
    PROVE  SafeLine(j, program, M, c, line, k)
<1> DEFINE d == Executed(j, c, line)
           comp == IF k = M + 32 THEN c.comp ELSE FALSE
<1>2. M \in Nat \ {0} /\ j.safe \in Nat /\ j.profile.attested = Policies
  BY Zenon DEF ReadyProgram
<1>3. /\ DOMAIN c = ControlFields /\ c.exact = TRUE /\ ModesAt(c.modes, k) /\ SpindleAt(c.spindle, M, k)
      /\ CompAt(c.comp, M, k) /\ HeadAt(program, c.tool, c.setup, k) /\ PlaceAt(j, program, c.p, c.z, M, k)
  BY Zenon DEF Controlled
<1>1. (k = M + 32 => line.code = "M5") /\ (k = M + 34 => line.code = "G49")
  BY <1>2
<1>4. Holds(d, c.modes, "off", comp, c.tool, c.setup, c.exact, c.p, c.z)
  <2>1. CASE k = M + 32
    <3>1. Holds(d, c.modes, "off", c.comp, c.tool, c.setup, c.exact, c.p, c.z)
      BY <2>1, <1>1, <1>2, <1>3, OthersExecuted
    <3> QED
      BY <3>1, <2>1, Zenon
  <2>2. CASE k = M + 34
    <3>1. c.spindle = "off"
      BY <2>2, <1>2, <1>3 DEF SpindleAt
    <3>2. Holds(d, c.modes, c.spindle, FALSE, c.tool, c.setup, c.exact, c.p, c.z)
      BY <2>2, <1>1, <1>2, <1>3, OthersExecuted
    <3>3. k # M + 32
      BY <2>2, <1>2
    <3> QED
      BY <3>1, <3>2, <3>3, Zenon
  <2> QED
    BY <2>1, <2>2
<1>5. c.modes = Modes
  <2>1. k \in Int /\ (k \in 11 .. 13 \/ k >= 24)
    BY <1>2
  <2> QED
    BY <2>1, KnownState, Zenon
<1>6. ModesAt(c.modes, k + 1)
  BY <1>5, AllModes, Zenon
<1>7. SpindleAt("off", M, k + 1)
  BY <1>2 DEF SpindleAt
<1>8. CompAt(comp, M, k + 1)
  <2>1. CASE k = M + 32
    <3>1. k \in Int /\ k \notin {26, M + 34}
      BY <1>2, <2>1
    <3>2. CompAt(c.comp, M, k + 1)
      BY <3>1, <1>2, <1>3, CompKept, Zenon
    <3> QED
      BY <3>2, <2>1, Zenon
  <2>2. CASE k = M + 34
    <3>1. k # M + 32
      BY <2>2, <1>2
    <3>2. CompAt(FALSE, M, k + 1)
      BY <1>2, <2>2 DEF CompAt
    <3> QED
      BY <3>1, <3>2, Zenon
  <2> QED
    BY <2>1, <2>2
<1>9. HeadAt(program, c.tool, c.setup, k + 1)
  BY <1>2, <1>3 DEF HeadAt
<1>10. PlaceAt(j, program, c.p, c.z, M, k + 1)
  BY <1>2 DEF PlaceAt
<1>11. Controlled(j, program, M, d, k + 1)
  BY <1>3, <1>4, <1>6, <1>7, <1>8, <1>9, <1>10, ControlledWhenHeld, ZenonT(60)
<1>12. line.code \in {"M5", "G49"}
  BY <1>1
<1>13. Harm(j, c, line) = {}
  BY <1>12, StillLine
<1>14. line.code # "M6"
  BY <1>12
<1> QED
  BY <1>11, <1>13, <1>14, Zenon DEF SafeLine

LEMMA CoolantIsSafe ==
    ASSUME NEW j, NEW program, NEW M, NEW c, NEW line, line.code = "coolant",
           ReadyProgram(j, program, M), Controlled(j, program, M, c, M + 33)
    PROVE  SafeLine(j, program, M, c, line, M + 33)
<1> DEFINE d == Executed(j, c, line)
           k == M + 33
<1>2. M \in Nat \ {0} /\ j.safe \in Nat /\ j.profile.attested = Policies
  BY Zenon DEF ReadyProgram
<1>3. /\ DOMAIN c = ControlFields /\ c.exact = TRUE /\ ModesAt(c.modes, k) /\ SpindleAt(c.spindle, M, k)
      /\ CompAt(c.comp, M, k) /\ HeadAt(program, c.tool, c.setup, k) /\ PlaceAt(j, program, c.p, c.z, M, k)
  BY Zenon DEF Controlled
<1>4. Holds(d, c.modes, c.spindle, c.comp, c.tool, c.setup, c.exact, c.p, c.z)
  <2>1. line.code \in Modes
    BY DEF Modes
  <2>2. Holds(d, c.modes \cup {line.code}, c.spindle, c.comp /\ line.code # "modal",
              c.tool, c.setup, c.exact, c.p, c.z)
    BY <2>1, <1>2, <1>3, ModeExecuted, Zenon
  <2>3. k \in Int /\ k >= 24
    BY <1>2
  <2>4. c.modes = Modes
    BY <2>3, KnownState, Zenon
  <2>5. c.modes \cup {line.code} = c.modes
    BY <2>1, <2>4
  <2>6. (c.comp /\ line.code # "modal") = c.comp
    <3>1. c.comp = TRUE
      BY <1>2, <1>3 DEF CompAt
    <3> QED
      BY <3>1
  <2> QED
    BY <2>2, <2>5, <2>6, Zenon
<1>5. c.modes = Modes
  <2>1. k \in Int /\ (k \in 11 .. 13 \/ k >= 24)
    BY <1>2
  <2> QED
    BY <2>1, KnownState, Zenon
<1>6. ModesAt(c.modes, k + 1)
  BY <1>5, AllModes, Zenon
<1>7. SpindleAt(c.spindle, M, k + 1)
  BY <1>2, <1>3 DEF SpindleAt
<1>8. CompAt(c.comp, M, k + 1)
  BY <1>2, <1>3 DEF CompAt
<1>9. HeadAt(program, c.tool, c.setup, k + 1)
  BY <1>2, <1>3 DEF HeadAt
<1>10. PlaceAt(j, program, c.p, c.z, M, k + 1)
  BY <1>2 DEF PlaceAt
<1>11. Controlled(j, program, M, d, k + 1)
  BY <1>3, <1>4, <1>6, <1>7, <1>8, <1>9, <1>10, ControlledWhenHeld, ZenonT(60)
<1>12. Harm(j, c, line) = {}
  BY StillLine
<1> QED
  BY <1>11, <1>12, Zenon DEF SafeLine

LEMMA EndIsSafe ==
    ASSUME NEW j, NEW program, NEW M, NEW c, NEW line, line.code = "M2",
           ReadyProgram(j, program, M), Controlled(j, program, M, c, M + 36)
    PROVE  SafeLine(j, program, M, c, line, M + 36)
<1> DEFINE d == Executed(j, c, line)
           k == M + 36
<1>2. M \in Nat \ {0} /\ j.safe \in Nat /\ j.profile.attested = Policies
  BY Zenon DEF ReadyProgram
<1>3. /\ DOMAIN c = ControlFields /\ c.exact = TRUE /\ ModesAt(c.modes, k) /\ SpindleAt(c.spindle, M, k)
      /\ CompAt(c.comp, M, k) /\ HeadAt(program, c.tool, c.setup, k) /\ PlaceAt(j, program, c.p, c.z, M, k)
  BY Zenon DEF Controlled
<1>4. d = c
  BY <1>2, <1>3, OthersExecuted
<1>5. c.modes = Modes
  <2>1. k \in Int /\ (k \in 11 .. 13 \/ k >= 24)
    BY <1>2
  <2> QED
    BY <2>1, KnownState, Zenon
<1>6. ModesAt(c.modes, k + 1)
  BY <1>5, AllModes, Zenon
<1>7. SpindleAt(c.spindle, M, k + 1) /\ c.spindle = "off"
  BY <1>2, <1>3 DEF SpindleAt
<1>8. CompAt(c.comp, M, k + 1) /\ c.comp = FALSE
  BY <1>2, <1>3 DEF CompAt
<1>9. HeadAt(program, c.tool, c.setup, k + 1)
  BY <1>2, <1>3 DEF HeadAt
<1>10. PlaceAt(j, program, c.p, c.z, M, k + 1) /\ c.z = ToolChangeZ(j)
  BY <1>2, <1>3 DEF PlaceAt
<1>11. Controlled(j, program, M, d, k + 1)
  BY <1>3, <1>4, <1>6, <1>7, <1>8, <1>9, <1>10, Zenon DEF Controlled
<1>12. Harm(j, c, line) = {}
  <2>1. /\ line.code \notin {"G53 Z", "G53 XY", "G0 Z", "G0", "G1"}
        /\ line.code \notin {"G53 Z", "G53 XY", "G0 Z", "G0"}
        /\ line.code # "G1" /\ line.code # "M6"
    OBVIOUS
  <2>2. ~c.comp
    BY <1>8
  <2> QED
    BY <2>1, <2>2, <1>7, <1>10, NoHarm
<1> QED
  BY <1>11, <1>12, Zenon DEF SafeLine

\* Every line of a posted program is one of these.
LEMMA EveryLineIsSafe ==
    ASSUME NEW j, NEW program, NEW M, NEW c, NEW lines, NEW k \in 1 .. M + 36,
           LinesOf(j, program, lines, M), ReadyProgram(j, program, M), Controlled(j, program, M, c, k),
           program = doc.programs[at[1]], NotFreed(j, at[1]),
           lines[k].code = "G1" => c.spindle # "slow"
    PROVE  SafeLine(j, program, M, c, lines[k], k)
<1>1. M \in Nat
  BY Zenon DEF ReadyProgram
<1>2. CASE k \in 1 .. 10
  <2>1. lines[k] = CanonicalState[k] /\ k \in {k, 13 + k}
    BY <1>2, Zenon DEF LinesOf
  <2> QED
    BY <2>1, <1>2, CanonicalIsSafe, Zenon
<1>3. CASE k \in 14 .. 23
  <2>1. k - 13 \in 1 .. 10 /\ 13 + (k - 13) = k
    BY <1>3
  <2>2. lines[k] = CanonicalState[k - 13]
    BY <2>1, Zenon DEF LinesOf
  <2>3. k \in {k - 13, 13 + (k - 13)}
    BY <2>1
  <2> QED
    BY <2>1, <2>2, <2>3, CanonicalIsSafe, Zenon
<1>4. CASE k \in {11, 24, M + 35}
  <2>1. lines[k] = Line("G53 Z", << >>, ToolChangeZ(j), 0)
    BY <1>4, Zenon DEF LinesOf
  <2> QED
    BY <2>1, <1>4, RetreatIsSafe, Zenon
<1>5. CASE k \in {12, 25}
  <2> DEFINE to == IF k = 12 THEN ToolChange ELSE EntryPoint(j, program)
  <2>1. lines[k] = Line("G53 XY", to, 0, 0)
    <3>1. 25 # 12
      OBVIOUS
    <3> QED
      BY <1>5, <3>1, Zenon DEF LinesOf
  <2> QED
    BY <2>1, <1>5, TraverseIsSafe, Zenon
<1>6. CASE k = 13
  BY <1>6, ChangeIsSafe, Zenon DEF LinesOf
<1>7. CASE k = 26
  BY <1>7, OffsetIsSafe, Zenon DEF LinesOf
<1>8. CASE k = 27
  BY <1>8, WorkOffsetIsSafe, Zenon DEF LinesOf
<1>9. CASE k \in {28, M + 31}
  <2>1. lines[k] = Line("G0 Z", << >>, j.safe, 0)
    BY <1>9, Zenon DEF LinesOf
  <2> QED
    BY <2>1, <1>9, PlaneIsSafe, Zenon
<1>10. CASE k \in {29, 30}
  <2>1. lines[29].code = "M3" /\ lines[30].code = "G4"
    <3>1. lines[29] = Line("M3", << >>, 0, program.rpm) /\ lines[30] = Plain("G4")
      BY Zenon DEF LinesOf
    <3> QED
      BY <3>1 DEF Line, Plain
  <2>2. lines[k].code = (IF k = 29 THEN "M3" ELSE "G4")
    BY <2>1, <1>10
  <2> QED
    BY <2>2, <1>10, SpindleUpIsSafe, Zenon
<1>11. CASE k \in 31 .. M + 30
  <2> DEFINE i == k - 30
  <2>1. i \in 1 .. M /\ 30 + i = k
    BY <1>1, <1>11
  <2> HIDE DEF i
  <2>2. lines[k] = MoveLine(program.moves[i])
    BY <2>1, Zenon DEF LinesOf
  <2> QED
    BY <2>1, <2>2, MoveIsSafe, Zenon
<1>12. CASE k \in {M + 32, M + 34}
  <2>1. lines[M + 32].code = "M5" /\ lines[M + 34].code = "G49"
    <3>1. lines[M + 32] = Plain("M5") /\ lines[M + 34] = Plain("G49")
      BY Zenon DEF LinesOf
    <3> QED
      BY <3>1 DEF Line, Plain
  <2>2. M + 34 # M + 32
    BY <1>1
  <2>3. lines[k].code = (IF k = M + 32 THEN "M5" ELSE "G49")
    BY <2>1, <2>2, <1>12, Zenon
  <2> QED
    BY <2>3, <1>12, ExitIsSafe, Zenon
<1>13. CASE k = M + 33
  <2>1. lines[k].code = "coolant"
    <3>1. lines[k] = Plain("coolant")
      BY <1>13, Zenon DEF LinesOf
    <3> QED
      BY <3>1 DEF Line, Plain
  <2> QED
    BY <2>1, <1>13, CoolantIsSafe, Zenon
<1>14. CASE k = M + 36
  <2>1. lines[k].code = "M2"
    <3>1. lines[k] = Plain("M2")
      BY <1>14, Zenon DEF LinesOf
    <3> QED
      BY <3>1 DEF Line, Plain
  <2> QED
    BY <2>1, <1>14, EndIsSafe, Zenon
<1>15. \/ k \in 1 .. 10 \/ k \in 14 .. 23 \/ k \in {11, 24, M + 35} \/ k \in {12, 25} \/ k = 13 \/ k = 26
       \/ k = 27 \/ k \in {28, M + 31} \/ k \in {29, 30} \/ k \in 31 .. M + 30 \/ k \in {M + 32, M + 34}
       \/ k = M + 33 \/ k = M + 36
  BY <1>1
<1> QED
  BY <1>2, <1>3, <1>4, <1>5, <1>6, <1>7, <1>8, <1>9, <1>10, <1>11, <1>12, <1>13, <1>14, <1>15, Zenon

\* A program that was verified, validated and packed is ready.
LEMMA PackedIsReady ==
    ASSUME NEW j \in Jobs, NEW plan, NEW q \in 1 .. Len(plan.programs), NEW lines,
           DocumentHolds(j, plan), VerificationPasses(j, plan), ValidProgram(j, plan.programs[q], lines)
    PROVE  ReadyProgram(j, plan.programs[q], Len(plan.programs[q].moves))
<1> DEFINE program == plan.programs[q]
           M == Len(program.moves)
           origin == j.setups[program.setup].origin
           bed == j.machine.bed
<1>1. ProgramHolds(j, program)
  BY Zenon DEF DocumentHolds
<1> HIDE DEF program
<1>2. /\ program.setup \in 1 .. Len(j.setups) /\ M \in Nat \ {0}
      /\ \A i \in 1 .. M : MoveHolds(program.moves[i])
  BY <1>1, Zenon DEF ProgramHolds
<1>3. /\ j.profile.attested = Policies
      /\ Within(Rect(ToolChange[1], ToolChange[2], 0, 0), bed)
      /\ j.profile.offsets[program.setup] = origin
      /\ program.moves[1].kind = "rapid" /\ program.moves[1].z = j.safe
      /\ Within(Rect(EntryPoint(j, program)[1], EntryPoint(j, program)[2], 0, 0), bed)
  BY Zenon DEF ValidProgram, ProfileHolds, ToolChangeHolds, SetupOffsetAndClearance, EntryBound, program
<1>30. /\ WithinTravel(j, ToolChangeZ(j)) /\ WithinTravel(j, j.safe) /\ ToolChangeZ(j) >= j.safe
  BY Zenon DEF ValidProgram, ProfileHolds, ToolChangeHolds, SetupOffsetAndClearance, program
<1>4. /\ j.safe \in Nat /\ j.width \in Nat /\ j.height \in Nat
      /\ bed.x \in Int /\ bed.y \in Int /\ bed.w \in Int /\ bed.l \in Int
      /\ j.machine.low \in Int /\ j.machine.high \in Int
      /\ origin[1] \in Int /\ origin[2] \in Int
  BY <1>2, JobsAreTyped DEF Steps
<1>40. ToolChangeZ(j) \in Int
  BY JobsAreTyped DEF ToolChangeZ
<1>5. Within(Rect(origin[1], origin[2], j.width, j.height), bed)
  <2>1. SetupsBound(j)
    BY Zenon DEF VerificationPasses
  <2> QED
    BY <2>1, <1>2, Zenon DEF SetupsBound, Steps
<1>6. MotionSafety(j, program)
  BY Zenon DEF VerificationPasses, Steps, program
<1>7. ASSUME NEW i \in 1 .. M
      PROVE  LET move == program.moves[i]
                 to == Shifted(move.p, origin)
             IN  /\ move.z \in Int /\ WithinTravel(j, move.z)
                 /\ Within(Rect(to[1], to[2], 0, 0), bed)
                 /\ move.kind = "rapid" =>
                       /\ move.z >= 0
                       /\ i > 1 /\ program.moves[i - 1].p # move.p =>
                             program.moves[i - 1].z = j.safe /\ move.z = j.safe
  <2> DEFINE move == program.moves[i]
             to == Shifted(move.p, origin)
             previous == IF i = 1 THEN [move EXCEPT !.z = j.safe] ELSE program.moves[i - 1]
  <2>1. move.z \in Int /\ move.p[1] \in Int /\ move.p[2] \in Int
    BY <1>2 DEF MoveHolds
  <2>2. /\ Within(Rect(move.p[1], move.p[2], 0, 0), Stock(j))
        /\ Smaller(previous.z, move.z) >= j.machine.low /\ Larger(previous.z, move.z) <= j.machine.high
        /\ move.kind = "rapid" =>
              /\ move.z >= 0
              /\ previous.p # move.p => previous.z = j.safe /\ move.z = j.safe
    BY <1>6, Zenon DEF MotionSafety, Steps
  <2>3. Within(Rect(to[1], to[2], 0, 0), bed)
    <3>1. to[1] = move.p[1] + origin[1] /\ to[2] = move.p[2] + origin[2]
      BY DEF Shifted
    <3> HIDE DEF move, to, origin, bed
    <3>2. /\ 0 <= move.p[1] /\ move.p[1] <= j.width
          /\ 0 <= move.p[2] /\ move.p[2] <= j.height
      BY <2>1, <2>2, <1>4, SMTT(30) DEF Within, Stock, Rect, Right, Top
    <3>3. /\ bed.x <= origin[1] /\ origin[1] + j.width <= bed.x + bed.w
          /\ bed.y <= origin[2] /\ origin[2] + j.height <= bed.y + bed.l
      BY <1>4, <1>5 DEF Within, Rect, Right, Top
    <3>4. /\ bed.x <= to[1] /\ to[1] + 0 <= bed.x + bed.w
          /\ bed.y <= to[2] /\ to[2] + 0 <= bed.y + bed.l
      <4>1. \A x, o, w, b, l \in Int : 0 <= x /\ x <= w /\ b <= o /\ o + w <= b + l
                                         => b <= x + o /\ (x + o) + 0 <= b + l
        OBVIOUS
      <4>2. j.width \in Int /\ j.height \in Int
        BY <1>4
      <4>3. bed.x <= move.p[1] + origin[1] /\ (move.p[1] + origin[1]) + 0 <= bed.x + bed.w
        BY <4>1, <4>2, <3>2, <3>3, <2>1, <1>4, Zenon
      <4>4. bed.y <= move.p[2] + origin[2] /\ (move.p[2] + origin[2]) + 0 <= bed.y + bed.l
        BY <4>1, <4>2, <3>2, <3>3, <2>1, <1>4, Zenon
      <4> QED
        BY <4>3, <4>4, <3>1, Zenon
    <3> QED
      BY <3>4 DEF Within, Rect, Right, Top
  <2>4. i > 1 => previous = program.moves[i - 1]
    OBVIOUS
  <2>5. WithinTravel(j, move.z)
    <3>1. CASE i = 1
      BY <3>1, <1>3, <1>30
    <3>2. CASE i > 1
      <4>1. i - 1 \in 1 .. M
        BY <3>2, <1>2
      <4>2. MoveHolds(program.moves[i - 1])
        BY <4>1, <1>2, Zenon
      <4>3. program.moves[i - 1].z \in Int
        BY <4>2 DEF MoveHolds
      <4>4. previous = program.moves[i - 1]
        BY <2>4, <3>2
      <4>5. \A a, b, low, high \in Int :
                Smaller(a, b) >= low /\ Larger(a, b) <= high => b >= low /\ b <= high
        BY DEF Smaller, Larger
      <4>6. previous.z \in Int
        BY <4>3, <4>4, Zenon
      <4> HIDE DEF previous, move
      <4>7. /\ Smaller(previous.z, move.z) >= j.machine.low
            /\ Larger(previous.z, move.z) <= j.machine.high
        BY <2>2, Zenon
      <4>8. move.z \in Int /\ j.machine.low \in Int /\ j.machine.high \in Int
        BY <2>1, <1>4, Zenon
      <4>9. move.z >= j.machine.low /\ move.z <= j.machine.high
        BY <4>5, <4>6, <4>7, <4>8
      <4> QED
        BY <4>8, <4>9 DEF WithinTravel
    <3> QED
      BY <3>1, <3>2, <1>2
  <2> QED
    BY <2>1, <2>2, <2>3, <2>4, <2>5
<1>8. program.setup # 0
  BY <1>2
<1> QED
  BY <1>2, <1>3, <1>30, <1>4, <1>40, <1>7, <1>8, Zenon DEF ReadyProgram, program
-----------------------------------------------------------------------------
\* Program texts, one for each program of the plan.
IsText(t, n) ==
    /\ \E T : t \in Seq(T)
    /\ Len(t) = n
    /\ \A i \in Steps(t) : \E S : t[i] \in Seq(S)

LEMMA WithLines ==
    ASSUME NEW t, NEW n, IsText(t, n), NEW i \in Steps(t), NEW S, NEW lines \in Seq(S)
    PROVE  IsText([t EXCEPT ![i] = lines], n)
<1> DEFINE u == [t EXCEPT ![i] = lines]
<1>1. PICK T : t \in Seq(T)
  BY Zenon DEF IsText
<1>2. t \in Seq(T \cup {lines}) /\ lines \in T \cup {lines}
  <2>1. T \subseteq T \cup {lines}
    OBVIOUS
  <2> QED
    BY <2>1, <1>1, SeqMonotonic
<1>3. i \in 1 .. Len(t)
  BY DEF Steps
<1> DEFINE U == T \cup {lines}
<1> HIDE DEF U
<1>4. t \in Seq(U) /\ lines \in U
  BY <1>2 DEF U
<1>5. /\ u \in Seq(U) /\ Len(u) = Len(t)
      /\ \A q \in 1 .. Len(t) : u[q] = IF q = i THEN lines ELSE t[q]
  BY <1>3, <1>4, ExceptSeq
<1> HIDE DEF u
<1>6. Len(u) = n
  BY <1>5, Zenon DEF IsText
<1>7. \A q \in Steps(u) : \E R : u[q] \in Seq(R)
  <2> SUFFICES ASSUME NEW q \in Steps(u) PROVE \E R : u[q] \in Seq(R)
    OBVIOUS
  <2>1. q \in 1 .. Len(t) /\ q \in Steps(t)
    BY <1>5, Zenon DEF Steps
  <2>2. CASE q = i
    BY <2>1, <2>2, <1>5
  <2>3. CASE q # i
    BY <2>1, <2>3, <1>5, Zenon DEF IsText
  <2> QED
    BY <2>2, <2>3
<1> QED
  BY <1>5, <1>6, <1>7, Zenon DEF IsText, u

\* A line replaced, and a line left out.
LEMMA LineReplaced ==
    ASSUME NEW S, NEW lines \in Seq(S), NEW k \in 1 .. Len(lines), NEW line
    PROVE  /\ [lines EXCEPT ![k] = line] \in Seq(S \cup {line})
           /\ Len([lines EXCEPT ![k] = line]) = Len(lines)
<1> DEFINE U == S \cup {line}
<1>1. lines \in Seq(U) /\ line \in U
  <2>1. S \subseteq U
    OBVIOUS
  <2> QED
    BY <2>1, SeqMonotonic
<1> HIDE DEF U
<1>2. [lines EXCEPT ![k] = line] \in Seq(U) /\ Len([lines EXCEPT ![k] = line]) = Len(lines)
  BY <1>1, ExceptSeq
<1> QED
  BY <1>2 DEF U

LEMMA LineRemoved ==
    ASSUME NEW S, NEW lines \in Seq(S), NEW k \in 1 .. Len(lines)
    PROVE  RemoveAt(lines, k) \in Seq(S)
<1>1. SubSeq(lines, 1, k - 1) \in Seq(S) /\ SubSeq(lines, k + 1, Len(lines)) \in Seq(S)
  OBVIOUS
<1> QED
  BY <1>1 DEF RemoveAt

LEMMA TextAltered ==
    ASSUME NEW t, NEW n, IsText(t, n), NEW i \in Steps(t), NEW k \in Steps(t[i]), NEW u,
           \/ u = [t EXCEPT ![i] = RemoveAt(@, k)]
           \/ u = [t EXCEPT ![i][k] = Plain("M9")]
           \/ k < Len(t[i]) /\ u = [t EXCEPT ![i][k] = t[i][k + 1], ![i][k + 1] = t[i][k]]
    PROVE  IsText(u, n)
<1>1. PICK S : t[i] \in Seq(S)
  BY Zenon DEF IsText
<1>2. k \in 1 .. Len(t[i])
  BY DEF Steps
<1>3. CASE u = [t EXCEPT ![i] = RemoveAt(@, k)]
  <2>1. RemoveAt(t[i], k) \in Seq(S)
    BY <1>1, <1>2, LineRemoved
  <2>2. u = [t EXCEPT ![i] = RemoveAt(t[i], k)]
    BY <1>3
  <2> QED
    BY <2>1, <2>2, WithLines, Zenon
<1>4. CASE u = [t EXCEPT ![i][k] = Plain("M9")]
  <2>1. [t[i] EXCEPT ![k] = Plain("M9")] \in Seq(S \cup {Plain("M9")})
    BY <1>1, <1>2, LineReplaced
  <2>2. u = [t EXCEPT ![i] = [t[i] EXCEPT ![k] = Plain("M9")]]
    BY <1>4
  <2> QED
    BY <2>1, <2>2, WithLines, Zenon
<1>5. CASE k < Len(t[i]) /\ u = [t EXCEPT ![i][k] = t[i][k + 1], ![i][k + 1] = t[i][k]]
  <2> DEFINE a == t[i][k + 1]
             b == t[i][k]
             once == [t[i] EXCEPT ![k] = a]
             twice == [once EXCEPT ![k + 1] = b]
  <2>1. once \in Seq(S \cup {a}) /\ Len(once) = Len(t[i])
    BY <1>1, <1>2, LineReplaced
  <2>2. Len(t[i]) \in Nat /\ k + 1 \in 1 .. Len(t[i])
    BY <1>1, <1>2, <1>5
  <2>3. u = [t EXCEPT ![i] = twice]
    <3>1. PICK T : t \in Seq(T)
      BY Zenon DEF IsText
    <3>2. i \in DOMAIN t
      BY <3>1 DEF Steps
    <3> QED
      BY <3>2, <1>5
  <2> HIDE DEF once, a, b
  <2>4. twice \in Seq((S \cup {a}) \cup {b})
    BY <2>1, <2>2, LineReplaced
  <2> QED
    BY <2>3, <2>4, WithLines, Zenon
<1> QED
  BY <1>3, <1>4, <1>5

LEMMA EmittedLines ==
    ASSUME NEW j, NEW program, Len(program.moves) \in Nat
    PROVE  \E S : EmitProgram(j, program) \in Seq(S)
<1> DEFINE pre == Preamble(j, program)
           body == [i \in Steps(program.moves) |-> MoveLine(program.moves[i])]
           post == Trailer(j)
<1>1. PICK A : pre \in Seq(A)
  <2>1. IsPreamble(j, program, pre)
    BY PreambleLines, Zenon
  <2> QED
    BY <2>1, Zenon DEF IsPreamble
<1>2. PICK C : post \in Seq(C)
  <2> DEFINE C == {post[1], post[2], post[3], post[4], post[5], post[6]}
  <2>1. post \in Seq(C)
    BY DEF Trailer
  <2> QED
    BY <2>1
<1> DEFINE B == {MoveLine(program.moves[i]) : i \in Steps(program.moves)}
<1>3. body \in Seq(B)
  BY DEF Steps
<1> DEFINE S == A \cup B \cup C
<1>4. A \subseteq S /\ B \subseteq S /\ C \subseteq S
  OBVIOUS
<1>5. EmitProgram(j, program) = pre \o body \o post
  BY Zenon DEF EmitProgram
<1> HIDE DEF pre, body, post, S, B
<1>6. pre \in Seq(S) /\ body \in Seq(S) /\ post \in Seq(S)
  BY <1>1, <1>2, <1>3, <1>4, SeqMonotonic
<1>7. pre \o body \o post \in Seq(S)
  BY <1>6
<1> QED
  BY <1>5, <1>7

-----------------------------------------------------------------------------
\* What is packed is verified and valid, and while a program runs the
\* controller is where the lines it has run leave it.
MotionInv ==
    /\ job \in Jobs /\ harm = {}
    /\ stage \notin {"source", "refused"} => DocumentHolds(job, doc)
    /\ stage \in {"posted", "packed", "running"} => IsText(text, Len(doc.programs))
    /\ stage \in {"source", "planned", "verified", "posted"} => at = <<1, 1>>
    /\ stage \in {"packed", "running"} =>
          /\ VerificationPasses(job, doc)
          /\ \A i \in Steps(text) : ValidProgram(job, doc.programs[i], text[i])
          /\ at[1] \in Steps(doc.programs)
    /\ stage = "packed" => at[2] = 1
    /\ stage = "running" =>
          LET program == doc.programs[at[1]]
          IN  /\ at[2] \in 1 .. Len(program.moves) + 37
              /\ Controlled(job, program, Len(program.moves), ctl, at[2])

\* The program that runs: what its text is, and that it is ready.
LEMMA RunningProgram ==
    ASSUME MotionInv, stage \in {"packed", "running"}
    PROVE  LET program == doc.programs[at[1]]
           IN  /\ Len(program.moves) \in Nat \ {0}
               /\ LinesOf(job, program, text[at[1]], Len(program.moves))
               /\ ReadyProgram(job, program, Len(program.moves))
               /\ NotFreed(job, at[1])
<1> DEFINE q == at[1]
           program == doc.programs[q]
<1>1. /\ job \in Jobs /\ DocumentHolds(job, doc) /\ IsText(text, Len(doc.programs))
      /\ VerificationPasses(job, doc) /\ q \in Steps(doc.programs)
      /\ \A i \in Steps(text) : ValidProgram(job, doc.programs[i], text[i])
  BY DEF MotionInv
<1>2. q \in 1 .. Len(doc.programs) /\ q \in Steps(text)
  BY <1>1, Zenon DEF Steps, IsText
<1>3. ValidProgram(job, program, text[q])
  BY <1>1, <1>2, Zenon
<1>4. PICK S : text[q] \in Seq(S)
  BY <1>1, <1>2, Zenon DEF IsText
<1>5. ProgramHolds(job, program)
  BY <1>1, <1>2, Zenon DEF DocumentHolds
<1>6. Len(program.moves) \in Nat \ {0}
  BY <1>5, Zenon DEF ProgramHolds
<1>7. LinesOf(job, program, text[q], Len(program.moves))
  <2>1. Len(program.moves) \in Nat
    BY <1>6
  <2> HIDE DEF program, q
  <2> QED
    BY <2>1, <1>3, <1>4, PostedLines, Zenon
<1>8. ReadyProgram(job, program, Len(program.moves))
  BY <1>1, <1>2, <1>3, PackedIsReady, Zenon
<1>9. NotFreed(job, q)
  <2> SUFFICES ASSUME NEW i \in 1 .. q - 1, doc.programs[i].release,
                      SheetOf(job.setups[doc.programs[i].setup]) = SheetOf(job.setups[doc.programs[q].setup])
               PROVE  FALSE
    BY Zenon DEF NotFreed
  <2>1. Len(doc.programs) \in Nat \ {0}
    BY <1>1, Zenon DEF DocumentHolds
  <2>2. i \in 1 .. Len(doc.programs) /\ i < q
    BY <2>1, <1>2
  <2> QED
    BY <2>2, <1>1, <1>2, Zenon DEF DocumentHolds
<1> QED
  BY <1>6, <1>7, <1>8, <1>9, Zenon

LEMMA PlanKeeps == MotionInv /\ PlanToolpaths => MotionInv'
<1> SUFFICES ASSUME MotionInv, PlanToolpaths PROVE MotionInv'
  OBVIOUS
<1>1. job' = job /\ text' = text /\ at' = at /\ ctl' = ctl /\ harm' = harm /\ stage = "source"
  BY Zenon DEF PlanToolpaths
<1>2. job \in Jobs /\ harm = {} /\ at = <<1, 1>>
  BY <1>1 DEF MotionInv
<1>3. CASE stage' = "refused"
  BY <1>1, <1>2, <1>3 DEF MotionInv
<1>4. CASE stage' # "refused"
  <2>1. Plannable(job) /\ doc' = generate_production_toolpaths(job) /\ stage' = "planned"
    BY <1>4, Zenon DEF PlanToolpaths
  <2>2. DocumentHolds(job, generate_production_toolpaths(job))
    BY <2>1, Zenon DEF Plannable
  <2>3. DocumentHolds(job', doc')
    BY <2>1, <2>2, <1>1, Zenon
  <2>4. stage' \notin {"source", "refused", "posted", "packed", "running"}
    BY <2>1
  <2> QED
    BY <2>3, <2>4, <1>1, <1>2 DEF MotionInv
<1> QED
  BY <1>3, <1>4

LEMMA AlterPlanKeeps == MotionInv /\ AlterPlan => MotionInv'
<1> SUFFICES ASSUME MotionInv, AlterPlan PROVE MotionInv'
  OBVIOUS
<1>1. /\ job' = job /\ text' = text /\ at' = at /\ harm' = harm /\ stage' = stage /\ stage = "planned"
      /\ DocumentHolds(job, doc')
  BY Zenon DEF AlterPlan
<1>2. job \in Jobs /\ harm = {} /\ at = <<1, 1>>
  BY <1>1 DEF MotionInv
<1>3. DocumentHolds(job', doc')
  BY <1>1, Zenon
<1>4. stage' \notin {"source", "refused", "posted", "packed", "running"}
  BY <1>1
<1> QED
  BY <1>1, <1>2, <1>3, <1>4 DEF MotionInv

LEMMA VerifyKeeps == MotionInv /\ VerifyToolpaths => MotionInv'
<1> SUFFICES ASSUME MotionInv, VerifyToolpaths PROVE MotionInv'
  OBVIOUS
<1>1. /\ job' = job /\ doc' = doc /\ at' = at /\ harm' = harm /\ stage = "planned"
      /\ stage' \in {"verified", "blocked"}
  BY Zenon DEF VerifyToolpaths
<1>2. job \in Jobs /\ harm = {} /\ at = <<1, 1>> /\ DocumentHolds(job, doc)
  BY <1>1 DEF MotionInv
<1>3. DocumentHolds(job', doc')
  BY <1>1, <1>2, Zenon
<1>4. stage' \notin {"source", "refused", "posted", "packed", "running"}
  BY <1>1
<1> QED
  BY <1>1, <1>2, <1>3, <1>4 DEF MotionInv

LEMMA PostKeeps == MotionInv /\ PostPrograms => MotionInv'
<1> SUFFICES ASSUME MotionInv, PostPrograms PROVE MotionInv'
  OBVIOUS
<1> DEFINE written == [i \in Steps(doc.programs) |-> EmitProgram(job, doc.programs[i])]
<1>1. /\ job' = job /\ doc' = doc /\ at' = at /\ harm' = harm /\ stage = "verified"
      /\ (text' = written /\ stage' = "posted") \/ stage' = "unpostable"
  BY Zenon DEF PostPrograms
<1>2. job \in Jobs /\ harm = {} /\ at = <<1, 1>> /\ DocumentHolds(job, doc)
  BY <1>1 DEF MotionInv
<1>3. DocumentHolds(job', doc')
  BY <1>1, <1>2, Zenon
<1>4. CASE stage' = "unpostable"
  <2>1. stage' \notin {"source", "refused", "posted", "packed", "running"}
    BY <1>4
  <2> QED
    BY <2>1, <1>1, <1>2, <1>3 DEF MotionInv
<1>5. CASE text' = written /\ stage' = "posted"
  <2>1. Len(doc.programs) \in Nat /\ \A i \in Steps(doc.programs) : ProgramHolds(job, doc.programs[i])
    BY <1>2 DEF DocumentHolds, Steps
  <2>2. \A i \in Steps(doc.programs) : \E S : EmitProgram(job, doc.programs[i]) \in Seq(S)
    <3> SUFFICES ASSUME NEW i \in Steps(doc.programs)
                 PROVE  \E S : EmitProgram(job, doc.programs[i]) \in Seq(S)
      OBVIOUS
    <3>1. Len(doc.programs[i].moves) \in Nat
      BY <2>1 DEF ProgramHolds
    <3> QED
      BY <3>1, EmittedLines, Zenon
  <2>3. IsText(written, Len(doc.programs))
    <3> DEFINE T == {EmitProgram(job, doc.programs[i]) : i \in Steps(doc.programs)}
               E(i) == EmitProgram(job, doc.programs[i])
    <3> HIDE DEF E
    <3>1. written = [i \in Steps(doc.programs) |-> E(i)] /\ T = {E(i) : i \in Steps(doc.programs)}
      BY DEF E
    <3>2. [i \in Steps(doc.programs) |-> E(i)] \in Seq({E(i) : i \in Steps(doc.programs)})
      BY <2>1 DEF Steps
    <3>3. Len([i \in Steps(doc.programs) |-> E(i)]) = Len(doc.programs)
      BY <2>1 DEF Steps
    <3>4. Steps(written) = Steps(doc.programs)
      BY <3>1, <3>3, Zenon DEF Steps
    <3>5. \A i \in Steps(doc.programs) : written[i] = EmitProgram(job, doc.programs[i])
      OBVIOUS
    <3> QED
      BY <3>1, <3>2, <3>3, <3>4, <3>5, <2>2, Zenon DEF IsText
  <2>4. IsText(text', Len(doc'.programs))
    BY <2>3, <1>1, <1>5, Zenon
  <2>5. stage' \notin {"packed", "running"} /\ stage' # "packed" /\ stage' # "running"
    BY <1>5
  <2> QED
    BY <2>4, <2>5, <1>1, <1>2, <1>3 DEF MotionInv
<1> QED
  BY <1>1, <1>4, <1>5

LEMMA AlterTextKeeps == MotionInv /\ AlterText => MotionInv'
<1> SUFFICES ASSUME MotionInv, AlterText PROVE MotionInv'
  OBVIOUS
<1>1. /\ job' = job /\ doc' = doc /\ at' = at /\ harm' = harm /\ stage = "posted" /\ stage' = stage
  BY Zenon DEF AlterText
<1>2. /\ job \in Jobs /\ harm = {} /\ at = <<1, 1>> /\ DocumentHolds(job, doc)
      /\ IsText(text, Len(doc.programs))
  BY <1>1 DEF MotionInv
<1>3. IsText(text', Len(doc.programs))
  <2>1. PICK i \in Steps(text) : \E k \in Steps(text[i]) :
           \/ text' = [text EXCEPT ![i] = RemoveAt(@, k)]
           \/ text' = [text EXCEPT ![i][k] = Plain("M9")]
           \/ k < Len(text[i]) /\ text' = [text EXCEPT ![i][k] = text[i][k + 1], ![i][k + 1] = text[i][k]]
    BY Zenon DEF AlterText
  <2>2. PICK k \in Steps(text[i]) :
           \/ text' = [text EXCEPT ![i] = RemoveAt(@, k)]
           \/ text' = [text EXCEPT ![i][k] = Plain("M9")]
           \/ k < Len(text[i]) /\ text' = [text EXCEPT ![i][k] = text[i][k + 1], ![i][k + 1] = text[i][k]]
    BY <2>1, Zenon
  <2> QED
    BY <2>2, <1>2, TextAltered, Zenon
<1>4. DocumentHolds(job', doc') /\ IsText(text', Len(doc'.programs))
  BY <1>1, <1>2, <1>3, Zenon
<1>5. stage' \notin {"packed", "running"} /\ stage' # "packed" /\ stage' # "running"
  BY <1>1
<1> QED
  BY <1>1, <1>2, <1>4, <1>5 DEF MotionInv

LEMMA PackKeeps == MotionInv /\ PackPrograms => MotionInv'
<1> SUFFICES ASSUME MotionInv, PackPrograms PROVE MotionInv'
  OBVIOUS
<1>1. /\ job' = job /\ doc' = doc /\ text' = text /\ at' = at /\ harm' = harm /\ stage = "posted"
      /\ \/ stage' = "blocked"
         \/ /\ stage' = "packed" /\ VerificationPasses(job, doc)
            /\ \A i \in Steps(text) : ValidProgram(job, doc.programs[i], text[i])
  BY Zenon DEF PackPrograms
<1>2. /\ job \in Jobs /\ harm = {} /\ at = <<1, 1>> /\ DocumentHolds(job, doc)
      /\ IsText(text, Len(doc.programs))
  BY <1>1 DEF MotionInv
<1>3. DocumentHolds(job', doc') /\ IsText(text', Len(doc'.programs)) /\ job' \in Jobs /\ harm' = {}
  BY <1>1, <1>2, Zenon
<1>4. CASE stage' = "blocked"
  <2>1. stage' \notin {"source", "refused", "planned", "verified", "posted", "packed", "running"}
    BY <1>4
  <2> QED
    BY <2>1, <1>3 DEF MotionInv
<1>5. CASE stage' = "packed"
  <2>1. /\ VerificationPasses(job', doc')
        /\ \A i \in Steps(text') : ValidProgram(job', doc'.programs[i], text'[i])
    BY <1>1, <1>5
  <2>2. at'[1] = 1 /\ at'[2] = 1
    BY <1>1, <1>2
  <2>3. 1 \in Steps(doc.programs)
    BY <1>2 DEF DocumentHolds, Steps
  <2>4. at'[1] \in Steps(doc'.programs)
    BY <2>2, <2>3, <1>1, Zenon
  <2>5. stage' \notin {"source", "planned", "verified", "posted"} /\ stage' # "running"
    BY <1>5
  <2> QED
    BY <2>1, <2>2, <2>4, <2>5, <1>3, Zenon DEF MotionInv
<1> QED
  BY <1>1, <1>4, <1>5

\* What the steps of the machine leave alone.
LEMMA KeptInRun ==
    ASSUME MotionInv, stage \in {"packed", "running"}, job' = job, doc' = doc, text' = text
    PROVE  /\ job' \in Jobs /\ DocumentHolds(job', doc') /\ IsText(text', Len(doc'.programs))
           /\ VerificationPasses(job', doc')
           /\ \A i \in Steps(text') : ValidProgram(job', doc'.programs[i], text'[i])
           /\ harm = {} /\ at[1] \in Steps(doc.programs)
<1>1. /\ job \in Jobs /\ DocumentHolds(job, doc) /\ IsText(text, Len(doc.programs))
      /\ VerificationPasses(job, doc)
      /\ \A i \in Steps(text) : ValidProgram(job, doc.programs[i], text[i])
      /\ harm = {} /\ at[1] \in Steps(doc.programs)
  BY DEF MotionInv
<1> QED
  BY <1>1

LEMMA StartKeeps == MotionInv /\ StartProgram => MotionInv'
<1> SUFFICES ASSUME MotionInv, StartProgram PROVE MotionInv'
  OBVIOUS
<1> DEFINE program == doc.programs[at[1]]
           M == Len(program.moves)
<1>1. /\ job' = job /\ doc' = doc /\ text' = text /\ at' = at /\ harm' = harm
      /\ stage = "packed" /\ stage' = "running" /\ at[2] = 1
  <2>1. /\ job' = job /\ doc' = doc /\ text' = text /\ at' = at /\ harm' = harm
        /\ stage = "packed" /\ stage' = "running"
    BY Zenon DEF StartProgram
  <2> QED
    BY <2>1 DEF MotionInv
<1>2. PICK e : ctl' = [Home(job) EXCEPT !.error = e]
  BY Zenon DEF StartProgram
<1>3. stage \in {"packed", "running"}
  BY <1>1
<1>4. M \in Nat \ {0} /\ ReadyProgram(job, program, M)
  BY <1>3, RunningProgram, Zenon
<1>5. Controlled(job, program, M, ctl', 1)
  <2>1. job.profile.attested = Policies
    BY <1>4, Zenon DEF ReadyProgram
  <2>2. Attested(job, {"homing", "kinematics", "external offsets"})
    BY <2>1, EveryPolicy, Zenon
  <2>3. Holds(ctl', {}, "on", TRUE, 0, 0, TRUE, Nowhere, ToolChangeZ(job))
    BY <1>2, <2>2 DEF Home, Holds, ControlFields
  <2> HIDE DEF program, M
  <2>4. ModesAt({}, 1)
    BY DEF ModesAt, Restated
  <2>5. SpindleAt("on", M, 1) /\ CompAt(TRUE, M, 1)
    BY <1>4 DEF SpindleAt, CompAt
  <2>6. HeadAt(program, 0, 0, 1)
    BY DEF HeadAt
  <2>7. PlaceAt(job, program, Nowhere, ToolChangeZ(job), M, 1)
    BY <1>4 DEF PlaceAt
  <2> QED
    BY <2>3, <2>4, <2>5, <2>6, <2>7, ControlledWhenHeld, ZenonT(60)
<1>6. at'[2] = 1 /\ 1 \in 1 .. M + 37
  BY <1>1, <1>4
<1>7. LET prog == doc'.programs[at'[1]]
      IN  /\ at'[2] \in 1 .. Len(prog.moves) + 37
          /\ Controlled(job', prog, Len(prog.moves), ctl', at'[2])
  BY <1>1, <1>5, <1>6, Zenon
<1>8. /\ job' \in Jobs /\ DocumentHolds(job', doc') /\ IsText(text', Len(doc'.programs))
      /\ VerificationPasses(job', doc')
      /\ \A i \in Steps(text') : ValidProgram(job', doc'.programs[i], text'[i])
      /\ harm' = {} /\ at'[1] \in Steps(doc'.programs)
  BY <1>1, <1>3, KeptInRun
<1>9. stage' \notin {"source", "planned", "verified", "posted"} /\ stage' # "packed"
  BY <1>1
<1> QED
  BY <1>7, <1>8, <1>9, Zenon DEF MotionInv

LEMMA RunLineKeeps == MotionInv /\ RunLine => MotionInv'
<1> SUFFICES ASSUME MotionInv, RunLine PROVE MotionInv'
  OBVIOUS
<1> DEFINE program == doc.programs[at[1]]
           M == Len(program.moves)
           lines == text[at[1]]
           k == at[2]
           line == lines[k]
<1>1. /\ job' = job /\ doc' = doc /\ text' = text /\ stage = "running" /\ stage' = "running"
      /\ k <= Len(lines)
      /\ (line.code = "G1" /\ Attested(job, {"interlock"})) => ctl.spindle # "slow"
      /\ ctl' \in IF line.code = "M6" THEN Remapped(job, ctl, line) ELSE {Executed(job, ctl, line)}
      /\ harm' = harm \cup Harm(job, ctl, line)
      /\ at' = <<at[1], at[2] + 1>>
  BY Zenon DEF RunLine
<1>2. stage \in {"packed", "running"}
  BY <1>1
<1>3. M \in Nat \ {0} /\ LinesOf(job, program, lines, M) /\ ReadyProgram(job, program, M) /\ NotFreed(job, at[1])
  BY <1>2, RunningProgram, Zenon
<1>4. k \in 1 .. M + 37 /\ Controlled(job, program, M, ctl, k)
  BY <1>1, Zenon DEF MotionInv
<1>5. k \in 1 .. M + 36
  <2>1. Len(lines) = M + 36
    BY <1>3, Zenon DEF LinesOf
  <2> HIDE DEF k, M, lines
  <2> QED
    BY <2>1, <1>1, <1>3, <1>4
<1>6. lines[k].code = "G1" => ctl.spindle # "slow"
  <2>1. job.profile.attested = Policies
    BY <1>3, Zenon DEF ReadyProgram
  <2>2. Attested(job, {"interlock"})
    BY <2>1, EveryPolicy, Zenon
  <2> QED
    BY <2>2, <1>1, Zenon
<1>7. SafeLine(job, program, M, ctl, lines[k], k)
  BY <1>3, <1>4, <1>5, <1>6, EveryLineIsSafe, Zenon
<1>8. Controlled(job, program, M, ctl', k + 1)
  <2>1. CASE line.code = "M6"
    BY <2>1, <1>1, <1>7, Zenon DEF SafeLine
  <2>2. CASE line.code # "M6"
    BY <2>2, <1>1, <1>7, Zenon DEF SafeLine
  <2> QED
    BY <2>1, <2>2
<1>9. Harm(job, ctl, line) = {}
  BY <1>7, Zenon DEF SafeLine
<1>10. at'[1] = at[1] /\ at'[2] = k + 1 /\ k + 1 \in 1 .. M + 37
  <2>1. at'[1] = at[1] /\ at'[2] = k + 1
    BY <1>1
  <2> HIDE DEF k, M
  <2>2. k + 1 \in 1 .. M + 37
    BY <1>3, <1>5
  <2> QED
    BY <2>1, <2>2
<1>11. LET prog == doc'.programs[at'[1]]
       IN  /\ at'[2] \in 1 .. Len(prog.moves) + 37
           /\ Controlled(job', prog, Len(prog.moves), ctl', at'[2])
  BY <1>1, <1>8, <1>10, Zenon
<1>12. /\ job' \in Jobs /\ DocumentHolds(job', doc') /\ IsText(text', Len(doc'.programs))
       /\ VerificationPasses(job', doc')
       /\ \A i \in Steps(text') : ValidProgram(job', doc'.programs[i], text'[i])
       /\ harm = {} /\ at[1] \in Steps(doc.programs)
  BY <1>1, <1>2, KeptInRun
<1>13. harm' = {}
  <2>1. harm' = harm \cup Harm(job, ctl, line)
    BY <1>1
  <2> HIDE DEF line
  <2> QED
    BY <2>1, <1>9, <1>12
<1>14. at'[1] \in Steps(doc'.programs)
  BY <1>1, <1>10, <1>12, Zenon
<1>15. stage' \notin {"source", "planned", "verified", "posted"} /\ stage' # "packed"
  BY <1>1
<1> QED
  BY <1>11, <1>12, <1>13, <1>14, <1>15, Zenon DEF MotionInv

LEMMA FinishKeeps == MotionInv /\ FinishProgram => MotionInv'
<1> SUFFICES ASSUME MotionInv, FinishProgram PROVE MotionInv'
  OBVIOUS
<1>1. /\ job' = job /\ doc' = doc /\ text' = text /\ harm' = harm /\ stage = "running"
      /\ stage' = (IF at[1] = Len(text) THEN "done" ELSE "packed")
      /\ at' = <<at[1] + 1, 1>>
  BY Zenon DEF FinishProgram
<1>2. stage \in {"packed", "running"}
  BY <1>1
<1>3. /\ job' \in Jobs /\ DocumentHolds(job', doc') /\ IsText(text', Len(doc'.programs))
      /\ VerificationPasses(job', doc')
      /\ \A i \in Steps(text') : ValidProgram(job', doc'.programs[i], text'[i])
      /\ harm' = {} /\ at[1] \in Steps(doc.programs)
  BY <1>1, <1>2, KeptInRun
<1>4. CASE stage' = "done"
  <2>1. stage' \notin {"source", "planned", "verified", "posted", "packed", "running"}
    BY <1>4
  <2> QED
    BY <2>1, <1>3 DEF MotionInv
<1>5. CASE stage' = "packed"
  <2>1. at[1] # Len(text)
    BY <1>1, <1>5
  <2>2. Len(text) = Len(doc.programs)
    BY <1>1, <1>3, Zenon DEF IsText
  <2>3. Len(doc.programs) \in Nat
    BY <1>1, <1>3 DEF DocumentHolds
  <2>4. at[1] + 1 \in Steps(doc.programs)
    BY <2>1, <2>2, <2>3, <1>3 DEF Steps
  <2>5. at'[1] \in Steps(doc'.programs) /\ at'[2] = 1
    BY <2>4, <1>1
  <2>6. stage' \notin {"source", "planned", "verified", "posted"} /\ stage' # "running"
    BY <1>5
  <2> QED
    BY <2>5, <2>6, <1>3, Zenon DEF MotionInv
<1> QED
  BY <1>1, <1>4, <1>5

LEMMA SlowKeeps == MotionInv /\ SpindleSlows => MotionInv'
<1> SUFFICES ASSUME MotionInv, SpindleSlows PROVE MotionInv'
  OBVIOUS
<1> DEFINE program == doc.programs[at[1]]
           M == Len(program.moves)
           k == at[2]
<1>1. /\ job' = job /\ doc' = doc /\ text' = text /\ harm' = harm /\ at' = at
      /\ stage = "running" /\ stage' = "running"
      /\ ctl.spindle = "at speed" /\ ctl' = [ctl EXCEPT !.spindle = "slow"]
  BY Zenon DEF SpindleSlows
<1>2. stage \in {"packed", "running"}
  BY <1>1
<1>3. k \in 1 .. M + 37 /\ Controlled(job, program, M, ctl, k)
  BY <1>1, Zenon DEF MotionInv
<1>4. Controlled(job, program, M, ctl', k)
  <2>1. /\ DOMAIN ctl = ControlFields /\ ctl.exact = TRUE /\ ModesAt(ctl.modes, k) /\ SpindleAt(ctl.spindle, M, k)
        /\ CompAt(ctl.comp, M, k) /\ HeadAt(program, ctl.tool, ctl.setup, k)
        /\ PlaceAt(job, program, ctl.p, ctl.z, M, k)
    BY <1>3, Zenon DEF Controlled
  <2>2. Holds(ctl', ctl.modes, "slow", ctl.comp, ctl.tool, ctl.setup, ctl.exact, ctl.p, ctl.z)
    BY <2>1, <1>1 DEF Holds, ControlFields
  <2>3. "at speed" # "off" /\ "at speed" # "on"
    OBVIOUS
  <2>4. SpindleAt("slow", M, k)
    BY <2>1, <2>3, <1>1, Zenon DEF SpindleAt
  <2> QED
    BY <2>1, <2>2, <2>4, ControlledWhenHeld, ZenonT(60)
<1>5. LET prog == doc'.programs[at'[1]]
      IN  /\ at'[2] \in 1 .. Len(prog.moves) + 37
          /\ Controlled(job', prog, Len(prog.moves), ctl', at'[2])
  BY <1>1, <1>3, <1>4, Zenon
<1>6. /\ job' \in Jobs /\ DocumentHolds(job', doc') /\ IsText(text', Len(doc'.programs))
      /\ VerificationPasses(job', doc')
      /\ \A i \in Steps(text') : ValidProgram(job', doc'.programs[i], text'[i])
      /\ harm' = {} /\ at'[1] \in Steps(doc'.programs)
  BY <1>1, <1>2, KeptInRun
<1>7. stage' \notin {"source", "planned", "verified", "posted"} /\ stage' # "packed"
  BY <1>1
<1> QED
  BY <1>5, <1>6, <1>7, Zenon DEF MotionInv

LEMMA AbortKeeps == MotionInv /\ AbortProgram => MotionInv'
<1> SUFFICES ASSUME MotionInv, AbortProgram PROVE MotionInv'
  OBVIOUS
<1>1. /\ job' = job /\ doc' = doc /\ text' = text /\ harm' = harm /\ stage = "running" /\ stage' = "packed"
      /\ at' \in {<<at[1], 1>>} \cup IF Attested(job, {"full restart"}) THEN {} ELSE {at}
  BY Zenon DEF AbortProgram
<1>2. stage \in {"packed", "running"}
  BY <1>1
<1>3. at' = <<at[1], 1>>
  <2>1. job.profile.attested = Policies
    BY <1>2, RunningProgram, Zenon DEF ReadyProgram
  <2>2. Attested(job, {"full restart"})
    BY <2>1, EveryPolicy, Zenon
  <2> QED
    BY <2>2, <1>1
<1>4. /\ job' \in Jobs /\ DocumentHolds(job', doc') /\ IsText(text', Len(doc'.programs))
      /\ VerificationPasses(job', doc')
      /\ \A i \in Steps(text') : ValidProgram(job', doc'.programs[i], text'[i])
      /\ harm' = {} /\ at[1] \in Steps(doc'.programs)
  BY <1>1, <1>2, KeptInRun
<1>5. at'[1] \in Steps(doc'.programs) /\ at'[2] = 1
  BY <1>3, <1>4
<1>6. stage' \notin {"source", "planned", "verified", "posted"} /\ stage' # "running"
  BY <1>1
<1> QED
  BY <1>1, <1>4, <1>5, <1>6, Zenon DEF MotionInv

LEMMA MotionInvInit == MachineInit => MotionInv
<1> SUFFICES ASSUME MachineInit PROVE MotionInv
  OBVIOUS
<1>1. job \in Jobs /\ harm = {} /\ stage = "source" /\ at = <<1, 1>>
  BY Zenon DEF MachineInit
<1> QED
  BY <1>1 DEF MotionInv

LEMMA MotionInvStep == MotionInv /\ [MachineNext]_machineVars => MotionInv'
<1> SUFFICES ASSUME MotionInv, [MachineNext]_machineVars PROVE MotionInv'
  OBVIOUS
<1>1. CASE UNCHANGED machineVars
  BY <1>1 DEF MotionInv, machineVars
<1>2. CASE MachineNext
  BY <1>2, SlowKeeps, AbortKeeps, PlanKeeps, AlterPlanKeeps, VerifyKeeps, PostKeeps, AlterTextKeeps,
     PackKeeps, StartKeeps, RunLineKeeps, FinishKeeps, Zenon DEF MachineNext
<1> QED
  BY <1>1, <1>2

\* Whatever plan and text were accepted, however the tool change is remapped and
\* the program disturbed, no line of it does harm (_validate_modal_execution,
\* _validate_and_round_trip_moves, _validate_motion_safety).
THEOREM MotionIsSafe == MachineSpec => []SafeMotion
<1>1. MotionInv => SafeMotion
  BY DEF MotionInv, SafeMotion
<1> QED
  BY MotionInvInit, MotionInvStep, <1>1, PTL DEF MachineSpec

-----------------------------------------------------------------------------
(* The joint retention registry *)

\* The activated registry descends from every earlier one.
HistoryDescends ==
    /\ history \in Seq(RetentionRegistries)
    /\ \A n \in 1 .. Epoch : Monotonic(history[n], Activated)

\* Under the statements sgn and the registries reg, contract c rests on nothing
\* that was revoked up to its epoch.
Unrevoked(c, sgn, reg) ==
    /\ c.statement \in Statements /\ sgn[c.statement] # NoIssuer
    /\ c.epoch \in Nat /\ c.epoch <= Len(reg)
    /\ \A n \in 1 .. c.epoch :
          /\ c.statement \notin reg[n].revoked_statements
          /\ reg[n].issuers[sgn[c.statement].issuer] # NoIssuer =>
                reg[n].issuers[sgn[c.statement].issuer].revoked_at > c.at

\* Signatures name issuers; what an open transaction is about to bind is sound,
\* as is what is bound.
SignedByIssuers ==
    /\ signed = [e \in Statements |-> signed[e]]
    /\ \A e \in Statements : signed[e] # NoIssuer => signed[e].issuer \in Issuers
RequestsResolved ==
    /\ request = [p \in Processes |-> request[p]]
    /\ \A p \in Processes :
          request[p].phase = "resolved" => Unrevoked(request[p].contract, signed, history)
ContractsResolved == \A c \in contracts : Unrevoked(c, signed, history)

RetentionInv ==
    /\ now \in Nat
    /\ HistoryDescends
    /\ config = [p \in Processes |-> config[p]]
    /\ AssertedStaysActivated
    /\ SignedByIssuers
    /\ RequestsResolved
    /\ ContractsResolved

-----------------------------------------------------------------------------
(* Registries                                                              *)

\* The entries of a registry.
LEMMA EntriesTyped ==
    ASSUME NEW g \in RetentionRegistries
    PROVE  /\ RegistryValid(g)
           /\ \A i \in Issuers : g.issuers[i] # NoIssuer => g.issuers[i].revoked_at \in Nat
           /\ g.revoked_statements \subseteq Statements
PROOF
  <1>1. g \in [issuers : [Issuers -> Entries \cup {NoIssuer}], revoked_statements : SUBSET Statements]
    BY DEF RetentionRegistries
  <1>2. Never \in Nat
    BY RetentionAssumption DEF Never
  <1>3. \A i \in Issuers : g.issuers[i] # NoIssuer => g.issuers[i] \in Entries
    BY <1>1
  <1>4. \A x \in Entries : x.revoked_at \in Nat
    BY <1>2 DEF Entries
  <1>5. RegistryValid(g)
    BY DEF RetentionRegistries
  <1>q. QED BY <1>1, <1>3, <1>4, <1>5

\* A registry descends from itself.
LEMMA MonotonicReflexive ==
    ASSUME NEW g \in RetentionRegistries
    PROVE  Monotonic(g, g)
PROOF
  <1>1. KeepsIssuers(g, g)
    BY EntriesTyped DEF KeepsIssuers
  <1>2. KeepsMaterial(g, g)
    BY EntriesTyped DEF KeepsMaterial, RegistryValid
  <1>q. QED BY <1>1, <1>2 DEF Monotonic

\* Descent is transitive: the material of an issuer that stayed is still its own.
LEMMA MonotonicTransitive ==
    ASSUME NEW f \in RetentionRegistries, NEW g \in RetentionRegistries,
           NEW h \in RetentionRegistries, Monotonic(f, g), Monotonic(g, h)
    PROVE  Monotonic(f, h)
PROOF
  <1>1. KeepsIssuers(f, h)
    BY EntriesTyped DEF Monotonic, KeepsIssuers
  <1>2. KeepsMaterial(f, h)
    BY DEF Monotonic, KeepsIssuers, KeepsMaterial
  <1>q. QED BY <1>1, <1>2 DEF Monotonic

\* Appending a registry that passed the check keeps the descent of all of them.
LEMMA ActivationDescends ==
    ASSUME HistoryDescends, NEW g \in RetentionRegistries, activate_registry(g)
    PROVE  /\ HistoryDescends'
           /\ Epoch' = Epoch + 1
           /\ \A n \in 1 .. Epoch : history'[n] = history[n]
PROOF
  <1>1. /\ history' = Append(history, g) /\ history \in Seq(RetentionRegistries)
        /\ Epoch \in Nat /\ Epoch' = Epoch + 1
    BY DEF activate_registry, HistoryDescends, Epoch
  <1>2. /\ history' \in Seq(RetentionRegistries) /\ history'[Epoch + 1] = g
        /\ \A n \in 1 .. Epoch : history'[n] = history[n]
    BY <1>1 DEF Epoch
  <1>3. Activated' = g
    BY <1>1, <1>2 DEF Activated
  <1>4. ASSUME NEW n \in 1 .. Epoch' PROVE Monotonic(history'[n], g)
    <2>1. CASE n = Epoch + 1
      BY <2>1, <1>2, MonotonicReflexive
    <2>2. CASE n \in 1 .. Epoch
      <3>1. Epoch > 0 /\ Epoch \in 1 .. Epoch
        BY <2>2, <1>1
      <3>2. /\ history[n] \in RetentionRegistries /\ Activated \in RetentionRegistries
        BY <2>2, <3>1, <1>1 DEF Epoch, Activated
      <3>3. Monotonic(history[n], Activated) /\ Monotonic(Activated, g)
        BY <2>2, <3>1 DEF HistoryDescends, activate_registry
      <3>q. QED BY <3>2, <3>3, <1>2, <2>2, MonotonicTransitive
    <2>3. n = Epoch + 1 \/ n \in 1 .. Epoch
      BY <1>1
    <2>q. QED BY <2>1, <2>2, <2>3
  <1>q. QED BY <1>1, <1>2, <1>3, <1>4 DEF HistoryDescends

-----------------------------------------------------------------------------
(* Contracts                                                               *)

\* What was sound stays so when registries are appended and statements signed.
LEMMA UnrevokedStays ==
    ASSUME NEW c, NEW sgn, NEW sgn2, NEW reg, NEW reg2, Unrevoked(c, sgn, reg),
           Len(reg) \in Nat, Len(reg2) \in Nat, Len(reg) <= Len(reg2),
           \A n \in 1 .. Len(reg) : reg2[n] = reg[n],
           \A e \in Statements : sgn[e] # NoIssuer => sgn2[e] = sgn[e]
    PROVE  Unrevoked(c, sgn2, reg2)
PROOF
  <1>1. sgn2[c.statement] = sgn[c.statement] /\ c.epoch \in Nat /\ c.epoch <= Len(reg)
    BY DEF Unrevoked
  <1>2. \A n \in 1 .. c.epoch : reg2[n] = reg[n]
    BY <1>1
  <1>q. QED BY <1>1, <1>2 DEF Unrevoked

\* Every step keeps the contracts that are bound, unless it binds one.
LEMMA StepKeepsContracts ==
    ASSUME RetentionInv, UNCHANGED contracts, HistoryDescends',
           Epoch <= Epoch', \A n \in 1 .. Epoch : history'[n] = history[n],
           \A e \in Statements : signed[e] # NoIssuer => signed'[e] = signed[e]
    PROVE  /\ ContractsResolved'
           /\ \A p \in Processes : request[p].phase = "resolved" =>
                 Unrevoked(request[p].contract, signed', history')
PROOF
  <1>1. Len(history) \in Nat /\ Len(history') \in Nat
    BY DEF RetentionInv, HistoryDescends
  <1>2. ASSUME NEW c, Unrevoked(c, signed, history) PROVE Unrevoked(c, signed', history')
    BY <1>1, <1>2, UnrevokedStays DEF Epoch
  <1>3. ContractsResolved'
    BY <1>2 DEF RetentionInv, ContractsResolved
  <1>4. \A p \in Processes : request[p].phase = "resolved" =>
           Unrevoked(request[p].contract, signed, history)
    BY DEF RetentionInv, RequestsResolved
  <1>q. QED BY <1>2, <1>3, <1>4

\* A registry is installed only when no transaction is open.
LEMMA ActivateKeeps ==
    ASSUME RetentionInv, NEW g \in RetentionRegistries, activate_registry(g)
    PROVE  RetentionInv'
PROOF
  <1>1. /\ HistoryDescends' /\ Epoch' = Epoch + 1 /\ Epoch \in Nat
        /\ \A n \in 1 .. Epoch : history'[n] = history[n]
    BY ActivationDescends DEF RetentionInv, HistoryDescends, Epoch
  <1>2. UNCHANGED <<now, config, request, signed, contracts>>
    BY DEF activate_registry
  <1>3. ContractsResolved'
    BY <1>1, <1>2, StepKeepsContracts
  <1>4. \A p \in Processes : request[p].phase = "idle"
    BY DEF activate_registry, ExclusiveLockFree
  <1>5. AssertedStaysActivated' /\ RequestsResolved'
    BY <1>2, <1>4 DEF AssertedStaysActivated, RequestsResolved, RetentionInv
  <1>q. QED BY <1>1, <1>2, <1>3, <1>5 DEF RetentionInv, SignedByIssuers

\* A process that ends its transaction, or is deployed anew, holds nothing.
LEMMA IdleKeeps ==
    ASSUME RetentionInv, NEW p \in Processes,
           request' = [request EXCEPT ![p] = NoRequest],
           config' = [config EXCEPT ![p] = config'[p]],
           UNCHANGED <<now, history, signed, contracts>>
    PROVE  RetentionInv'
PROOF
  <1>1. /\ request'[p].phase = "idle"
        /\ \A q \in Processes : q # p => request'[q] = request[q] /\ config'[q] = config[q]
    BY DEF RetentionInv, RequestsResolved, NoRequest
  <1>2. AssertedStaysActivated'
    BY <1>1 DEF RetentionInv, AssertedStaysActivated, Epoch, Activated
  <1>3. request' = [q \in Processes |-> request'[q]] /\ config' = [q \in Processes |-> config'[q]]
    BY DEF RetentionInv, RequestsResolved
  <1>4. RequestsResolved'
    BY <1>1, <1>3 DEF RetentionInv, RequestsResolved
  <1>q. QED BY <1>2, <1>3, <1>4 DEF RetentionInv, HistoryDescends, SignedByIssuers,
                                     ContractsResolved, Epoch, Activated

\* A statement is signed once.
LEMMA SignKeeps ==
    ASSUME RetentionInv, NEW e \in Statements, NEW i \in Issuers, NEW k \in Materials,
           NEW d \in Designs, NEW expiry \in 1 .. Never, sign_payload(e, i, k, d, expiry)
    PROVE  RetentionInv'
PROOF
  <1> DEFINE s == [issuer |-> i, key |-> k, design |-> d, issued_at |-> now, expires_at |-> expiry]
  <1>1. /\ signed' = [signed EXCEPT ![e] = s] /\ signed[e] = NoIssuer
        /\ UNCHANGED <<now, history, config, request, contracts>>
    BY DEF sign_payload
  <1>2. /\ \A f \in Statements : f # e => signed'[f] = signed[f]
        /\ signed'[e] = s /\ s.issuer \in Issuers
        /\ signed' = [f \in Statements |-> signed'[f]]
    BY <1>1 DEF RetentionInv, SignedByIssuers
  <1> HIDE DEF s
  <1>3. SignedByIssuers'
    BY <1>2 DEF RetentionInv, SignedByIssuers
  <1>4. HistoryDescends' /\ AssertedStaysActivated' /\ Epoch' = Epoch /\ Epoch \in Nat
    BY <1>1 DEF RetentionInv, HistoryDescends, AssertedStaysActivated, Epoch, Activated
  <1>5. /\ \A f \in Statements : signed[f] # NoIssuer => signed'[f] = signed[f]
        /\ Epoch <= Epoch' /\ \A n \in 1 .. Epoch : history'[n] = history[n]
    BY <1>1, <1>2, <1>4
  <1>6. /\ ContractsResolved'
        /\ \A p \in Processes : request[p].phase = "resolved" =>
              Unrevoked(request[p].contract, signed', history')
    BY <1>1, <1>4, <1>5, StepKeepsContracts
  <1>7. RequestsResolved'
    BY <1>1, <1>6 DEF RetentionInv, RequestsResolved
  <1>q. QED BY <1>1, <1>3, <1>4, <1>6, <1>7 DEF RetentionInv

\* The assertion reads the activated registry, under the lock it then shares.
LEMMA AssertKeeps ==
    ASSUME RetentionInv, NEW p \in Processes, assert_registry(p)
    PROVE  RetentionInv'
PROOF
  <1>1. /\ request'[p].phase = "asserted" /\ request'[p].epoch = Epoch /\ config[p] = Activated
        /\ \A q \in Processes : q # p => request'[q] = request[q]
        /\ request' = [q \in Processes |-> request'[q]]
        /\ UNCHANGED <<now, history, config, signed, contracts>>
    BY DEF RetentionInv, RequestsResolved, assert_registry
  <1>2. AssertedStaysActivated'
    BY <1>1 DEF RetentionInv, AssertedStaysActivated, Epoch, Activated
  <1>3. RequestsResolved'
    BY <1>1 DEF RetentionInv, RequestsResolved
  <1>q. QED BY <1>1, <1>2, <1>3 DEF RetentionInv, HistoryDescends, SignedByIssuers,
                                     ContractsResolved, Epoch, Activated

\* A resolved statement is unrevoked in the activated registry, hence in all
\* the registries it descends from.
LEMMA ResolveKeeps ==
    ASSUME RetentionInv, NEW p \in Processes, NEW e \in Statements, NEW d \in Designs,
           resolve(p, e, d)
    PROVE  RetentionInv'
PROOF
  <1> DEFINE c == [statement |-> e, epoch |-> Epoch, at |-> now]
  <1>1. /\ request[p].phase = "asserted" /\ request[p].epoch = Epoch /\ config[p] = Activated
        /\ Resolves(Activated, e, d)
    BY DEF RetentionInv, AssertedStaysActivated, resolve
  <1>2. /\ request'[p].phase = "resolved" /\ request'[p].epoch = Epoch
        /\ request'[p].contract = c
        /\ \A q \in Processes : q # p => request'[q] = request[q]
        /\ request' = [q \in Processes |-> request'[q]]
        /\ UNCHANGED <<now, history, config, signed, contracts>>
    BY <1>1 DEF RetentionInv, RequestsResolved, resolve
  <1>3. /\ c.statement = e /\ c.epoch = Epoch /\ c.at = now
        /\ Epoch \in Nat /\ Epoch = Len(history) /\ history \in Seq(RetentionRegistries)
    BY DEF RetentionInv, HistoryDescends, Epoch
  <1> HIDE DEF c
  <1>4. /\ signed[e] # NoIssuer /\ signed[e].issuer \in Issuers
        /\ e \notin Activated.revoked_statements
        /\ Activated.issuers[signed[e].issuer].revoked_at > now
    BY <1>1 DEF RetentionInv, SignedByIssuers, Resolves, IssuerTrusted
  <1>5. ASSUME NEW n \in 1 .. Epoch
        PROVE  /\ e \notin history[n].revoked_statements
               /\ history[n].issuers[signed[e].issuer] # NoIssuer =>
                     history[n].issuers[signed[e].issuer].revoked_at > now
    <2>1. Monotonic(history[n], Activated)
      BY DEF RetentionInv, HistoryDescends
    <2>2. history[n] \in RetentionRegistries /\ Activated \in RetentionRegistries
      BY <1>3 DEF Activated
    <2>3. e \notin history[n].revoked_statements
      BY <2>1, <1>4 DEF Monotonic
    <2>4. ASSUME history[n].issuers[signed[e].issuer] # NoIssuer
          PROVE  history[n].issuers[signed[e].issuer].revoked_at > now
      <3>1. /\ Activated.issuers[signed[e].issuer] # NoIssuer
            /\ Activated.issuers[signed[e].issuer].revoked_at
                 <= history[n].issuers[signed[e].issuer].revoked_at
        BY <2>1, <2>4, <1>4 DEF Monotonic, KeepsIssuers
      <3>2. /\ Activated.issuers[signed[e].issuer].revoked_at \in Nat
            /\ history[n].issuers[signed[e].issuer].revoked_at \in Nat
        BY <2>2, <2>4, <3>1, <1>4, EntriesTyped
      <3>q. QED BY <3>1, <3>2, <1>4 DEF RetentionInv
    <2>q. QED BY <2>3, <2>4
  <1>6. Unrevoked(c, signed, history)
    BY <1>3, <1>4, <1>5 DEF Unrevoked
  <1>7. AssertedStaysActivated'
    BY <1>1, <1>2 DEF RetentionInv, AssertedStaysActivated, Epoch, Activated
  <1>8. RequestsResolved'
    BY <1>2, <1>6 DEF RetentionInv, RequestsResolved
  <1>q. QED BY <1>2, <1>7, <1>8 DEF RetentionInv, HistoryDescends, SignedByIssuers,
                                     ContractsResolved, Epoch, Activated

\* A commit binds what the open transaction resolved.
LEMMA CommitKeeps ==
    ASSUME RetentionInv, NEW p \in Processes, commit_contract(p)
    PROVE  RetentionInv'
PROOF
  <1>1. /\ Unrevoked(request[p].contract, signed, history)
        /\ contracts' = contracts \cup {request[p].contract}
        /\ request' = [request EXCEPT ![p] = NoRequest]
        /\ UNCHANGED <<now, history, config, signed>>
    BY DEF RetentionInv, RequestsResolved, commit_contract
  <1>2. ContractsResolved'
    BY <1>1 DEF RetentionInv, ContractsResolved
  <1>3. /\ request'[p].phase = "idle"
        /\ \A q \in Processes : q # p => request'[q] = request[q]
        /\ request' = [q \in Processes |-> request'[q]]
    BY <1>1 DEF RetentionInv, RequestsResolved, NoRequest
  <1>4. AssertedStaysActivated'
    BY <1>1, <1>3 DEF RetentionInv, AssertedStaysActivated, Epoch, Activated
  <1>5. RequestsResolved'
    BY <1>1, <1>3 DEF RetentionInv, RequestsResolved
  <1>q. QED BY <1>1, <1>2, <1>4, <1>5 DEF RetentionInv, HistoryDescends, SignedByIssuers,
                                           Epoch, Activated

\* Nothing was activated, signed or bound at the start.
LEMMA RetentionInvInit == RetentionInit => RetentionInv
PROOF
  <1> SUFFICES ASSUME RetentionInit PROVE RetentionInv
    OBVIOUS
  <1>1. HistoryDescends
    BY DEF RetentionInit, HistoryDescends, Epoch
  <1>2. AssertedStaysActivated /\ RequestsResolved
    BY DEF RetentionInit, AssertedStaysActivated, RequestsResolved, NoRequest
  <1>q. QED BY <1>1, <1>2 DEF RetentionInit, RetentionInv, SignedByIssuers, ContractsResolved

\* Every step keeps the invariant.
LEMMA RetentionInvStep == RetentionInv /\ [RetentionNext]_retentionVars => RetentionInv'
PROOF
  <1> SUFFICES ASSUME RetentionInv, [RetentionNext]_retentionVars PROVE RetentionInv'
    OBVIOUS
  <1>1. ASSUME NEW g \in RetentionRegistries, activate_registry(g) PROVE RetentionInv'
    BY <1>1, ActivateKeeps
  <1>2. ASSUME NEW p \in Processes, NEW n \in 1 .. Epoch, deploy(p, n) PROVE RetentionInv'
    <2>1. config' = [config EXCEPT ![p] = config'[p]]
      BY <1>2 DEF deploy, RetentionInv
    <2>q. QED BY <1>2, <2>1, IdleKeeps DEF deploy
  <1>3. ASSUME NEW e \in Statements, NEW i \in Issuers, NEW k \in Materials, NEW d \in Designs,
               NEW expiry \in 1 .. Never, sign_payload(e, i, k, d, expiry)
        PROVE  RetentionInv'
    BY <1>3, SignKeeps
  <1>4. ASSUME NEW p \in Processes, assert_registry(p) PROVE RetentionInv'
    BY <1>4, AssertKeeps
  <1>5. ASSUME NEW p \in Processes, commit_contract(p) PROVE RetentionInv'
    BY <1>5, CommitKeeps
  <1>6. ASSUME NEW p \in Processes, rollback(p) PROVE RetentionInv'
    <2>1. config' = [config EXCEPT ![p] = config'[p]]
      BY <1>6 DEF rollback, RetentionInv
    <2>q. QED BY <1>6, <2>1, IdleKeeps DEF rollback
  <1>7. ASSUME NEW p \in Processes, NEW e \in Statements, NEW d \in Designs, resolve(p, e, d)
        PROVE  RetentionInv'
    BY <1>7, ResolveKeeps
  <1>8. CASE retention_tick
    BY <1>8 DEF retention_tick, RetentionInv, HistoryDescends, AssertedStaysActivated,
                SignedByIssuers, RequestsResolved, ContractsResolved, Epoch, Activated
  <1>9. CASE UNCHANGED retentionVars
    BY <1>9 DEF retentionVars, RetentionInv, HistoryDescends, AssertedStaysActivated,
                SignedByIssuers, RequestsResolved, ContractsResolved, Epoch, Activated
  <1>q. QED BY <1>1, <1>2, <1>3, <1>4, <1>5, <1>6, <1>7, <1>8, <1>9 DEF RetentionNext

\* Every reachable state satisfies the invariant.
THEOREM RetentionInvariant == RetentionSpec => []RetentionInv
PROOF
  <1>q. QED BY RetentionInvInit, RetentionInvStep, PTL DEF RetentionSpec

-----------------------------------------------------------------------------
(* The theorems                                                            *)

\* What an open transaction asserted stays activated until it ends: the shared
\* advisory lock against the exclusive one of the activation.
THEOREM AssertionsHold == RetentionSpec => []AssertedStaysActivated
PROOF
  <1>1. RetentionInv => AssertedStaysActivated
    BY DEF RetentionInv
  <1>q. QED BY <1>1, RetentionInvariant, PTL

\* Over all registries ever activated a key has one owner and an owner one key,
\* although validate_monotonic_registry_transition compares neighbours only.
THEOREM KeysHaveOneOwner == RetentionSpec => []KeyMaterialHasOneOwner
PROOF
  <1>1. ASSUME RetentionInv PROVE KeyMaterialHasOneOwner
    <2> SUFFICES ASSUME NEW n \in 1 .. Epoch, NEW m \in 1 .. Epoch,
                        NEW i \in Issuers, NEW j \in Issuers,
                        history[n].issuers[i] # NoIssuer, history[m].issuers[j] # NoIssuer
                 PROVE  history[n].issuers[i].key = history[m].issuers[j].key <=> i = j
      BY DEF KeyMaterialHasOneOwner
    <2>1. Monotonic(history[n], Activated) /\ Monotonic(history[m], Activated)
      BY <1>1 DEF RetentionInv, HistoryDescends
    <2>2. Epoch \in 1 .. Epoch /\ Activated \in RetentionRegistries
      BY <1>1 DEF RetentionInv, HistoryDescends, Epoch, Activated
    <2>3. RegistryValid(Activated)
      BY <2>2, EntriesTyped
    <2>4. /\ Activated.issuers[i] # NoIssuer /\ Activated.issuers[i].key = history[n].issuers[i].key
          /\ Activated.issuers[j] # NoIssuer /\ Activated.issuers[j].key = history[m].issuers[j].key
      BY <2>1 DEF Monotonic, KeepsIssuers
    <2>q. QED BY <2>3, <2>4 DEF RegistryValid
  <1>q. QED BY <1>1, RetentionInvariant, PTL

\* No contract rests on what a registry up to its epoch had revoked
\* (resolve_joint_retention_contract behind the assertion).
THEOREM RevocationsBind == RetentionSpec => []RevokedBindsNothing
PROOF
  <1>1. RetentionInv => RevokedBindsNothing
    BY DEF RetentionInv, ContractsResolved, Unrevoked, RevokedBindsNothing
  <1>q. QED BY <1>1, RetentionInvariant, PTL

-----------------------------------------------------------------------------
(* The workshop chain *)

USE WorkshopAssumption

\* The two clocks that the verifier compares are integers.
ClocksTyped == clock \in Nat /\ revokedAt \in [Keys -> Int]

\* A record somebody made, and when.
IsRecord(p) ==
    \E e \in EvidenceIds, claim \in {"PASS", "FAIL"}, t \in Nat :
        p = <<e, EvidenceRecord(claim, t)>>
RecordsAreRecords == \A p \in recorded : IsRecord(p)

\* Whatever stage's attestation is submitted refers to a record somebody made.
SignedRecord(a) ==
    /\ a.issued_at \in Nat
    /\ <<a.evidence.evidence_id, a.evidence.sha256>> \in recorded
SubmittedIsSigned ==
    /\ DOMAIN attestations = Stages
    /\ \A s \in Stages : attestations[s].present => SignedRecord(attestations[s])

\* An acceptance: its moment, its keys, and the only one of its challenges.
AcceptanceTyped(c) ==
    /\ c.verified_at \in Nat /\ c.verified_at <= clock
    /\ \A s \in Stages : \A role \in {"workshop_maker", "workshop_checker"} :
          c.chain[s].signers[role] \in Keys
    /\ \A s \in Stages : c.chain[s].server_nonce = Nonce(ThisRun, c.generation, s)
AcceptedOnce ==
    /\ \A c \in acceptances : AcceptanceTyped(c)
    /\ \A c, d \in acceptances : c.generation = d.generation => c = d

TrustInv ==
    /\ ClocksTyped /\ RecordsAreRecords /\ SubmittedIsSigned /\ AcceptedOnce
    /\ WorkHappenedInOrder /\ ClaimsWereRecorded /\ RolesStayApart

-----------------------------------------------------------------------------
(* What verify_workshop_attestation_chain establishes                      *)

\* A verified chain interleaves observations and signatures: each stage's
\* evidence lies between the signature before it and its own.
LEMMA VerifiedChainIsOrdered ==
    ASSUME TrustInv, NEW g, ChainVerified(attestations, g)
    PROVE  \A s \in Stages :
              /\ attestations[s].issued_at \in Nat
              /\ attestations[s].evidence.sha256.observed_at \in Nat
              /\ attestations[s].evidence.sha256.observed_at <= attestations[s].issued_at
              /\ attestations[s].issued_at <= clock
              /\ attestations[s].issued_at - attestations[s].evidence.sha256.observed_at
                    <= EvidenceAge
              /\ attestations[s].issued_at - attestations[1].issued_at <= ChainDuration
              /\ s # 1 => attestations[s].evidence.sha256.observed_at
                             > attestations[s - 1].issued_at
PROOF
  <1> SUFFICES ASSUME NEW s \in Stages
               PROVE  /\ attestations[s].issued_at \in Nat
                      /\ attestations[s].evidence.sha256.observed_at \in Nat
                      /\ attestations[s].evidence.sha256.observed_at <= attestations[s].issued_at
                      /\ attestations[s].issued_at <= clock
                      /\ attestations[s].issued_at - attestations[s].evidence.sha256.observed_at
                            <= EvidenceAge
                      /\ attestations[s].issued_at - attestations[1].issued_at <= ChainDuration
                      /\ s # 1 => attestations[s].evidence.sha256.observed_at
                                     > attestations[s - 1].issued_at
    OBVIOUS
  <1>1. attestations[s].present /\ StageVerified(attestations, s, g)
    BY DEF ChainVerified
  <1>2. SignedRecord(attestations[s])
    BY <1>1 DEF TrustInv, SubmittedIsSigned
  <1>3. IsRecord(<<attestations[s].evidence.evidence_id, attestations[s].evidence.sha256>>)
    BY <1>2 DEF TrustInv, RecordsAreRecords, SignedRecord
  <1>4. attestations[s].evidence.sha256.observed_at \in Nat
    BY <1>3 DEF IsRecord, EvidenceRecord
  <1>q. QED BY <1>1, <1>2, <1>4 DEF StageVerified, RequireVerified, SignedRecord

\* So a new acceptance is of work done in order.
LEMMA AcceptedInOrder ==
    ASSUME TrustInv, NEW g, ChainVerified(attestations, g)
    PROVE  \A s, r \in Stages : s < r =>
              /\ attestations[s].evidence.sha256.observed_at
                    < attestations[r].evidence.sha256.observed_at
              /\ attestations[r].evidence.sha256.observed_at <= clock
              /\ attestations[r].issued_at - attestations[s].evidence.sha256.observed_at
                    <= ChainDuration + EvidenceAge
PROOF
  <1> DEFINE I(s) == attestations[s].issued_at
             O(s) == attestations[s].evidence.sha256.observed_at
  <1>1. \A s \in Stages : /\ I(s) \in Nat /\ O(s) \in Nat /\ O(s) <= I(s) /\ I(s) <= clock
                          /\ I(s) - O(s) <= EvidenceAge /\ I(s) - I(1) <= ChainDuration
                          /\ s # 1 => O(s) > I(s - 1)
    BY VerifiedChainIsOrdered
  <1>2. O(2) > I(1) /\ O(3) > I(2)
    <2>1. 2 \in Stages /\ 3 \in Stages /\ 2 - 1 = 1 /\ 3 - 1 = 2
      BY DEF Stages
    <2>q. QED BY <1>1, <2>1
  <1>3. clock \in Nat /\ ChainDuration \in Nat /\ EvidenceAge \in Nat
    BY DEF TrustInv, ClocksTyped
  <1> HIDE DEF I, O
  <1>4. \A s, r \in Stages : s < r => /\ O(s) < O(r) /\ O(r) <= clock
                                      /\ I(r) - O(s) <= ChainDuration + EvidenceAge
    <2>1. /\ I(1) \in Nat /\ O(1) \in Nat /\ O(1) <= I(1) /\ I(1) <= clock
          /\ I(1) - O(1) <= EvidenceAge
          /\ I(2) \in Nat /\ O(2) \in Nat /\ O(2) <= I(2) /\ I(2) <= clock
          /\ I(2) - O(2) <= EvidenceAge /\ I(2) - I(1) <= ChainDuration
          /\ I(3) \in Nat /\ O(3) \in Nat /\ O(3) <= I(3) /\ I(3) <= clock
          /\ I(3) - O(3) <= EvidenceAge /\ I(3) - I(1) <= ChainDuration
      BY <1>1 DEF Stages
    <2>2. /\ O(1) < O(2) /\ O(1) < O(3) /\ O(2) < O(3) /\ O(2) <= clock /\ O(3) <= clock
          /\ I(2) - O(1) <= ChainDuration + EvidenceAge
          /\ I(3) - O(1) <= ChainDuration + EvidenceAge
          /\ I(3) - O(2) <= ChainDuration + EvidenceAge
      BY <2>1, <1>2, <1>3
    <2>3. \A s, r \in Stages : s < r => <<s, r>> \in {<<1, 2>>, <<1, 3>>, <<2, 3>>}
      BY DEF Stages
    <2>q. QED BY <2>2, <2>3
  <1>q. QED BY <1>4 DEF I, O

\* Every stage of a verified chain is a pass somebody recorded, signed with
\* registered keys of their role that are in force, for this challenge.
LEMMA VerifiedChainIsGenuine ==
    ASSUME TrustInv, NEW g, ChainVerified(attestations, g), NEW s \in Stages
    PROVE  /\ <<attestations[s].evidence.evidence_id,
                EvidenceRecord("PASS", attestations[s].evidence.sha256.observed_at)>>
                 \in recorded
           /\ \A role \in {"workshop_maker", "workshop_checker"} :
                 TrustedFor(attestations[s].signers[role], role)
           /\ attestations[s].server_nonce = Nonce(ThisRun, g, s)
PROOF
  <1>1. attestations[s].present /\ StageVerified(attestations, s, g)
    BY DEF ChainVerified
  <1>2. SignedRecord(attestations[s])
    BY <1>1 DEF TrustInv, SubmittedIsSigned
  <1>3. IsRecord(<<attestations[s].evidence.evidence_id, attestations[s].evidence.sha256>>)
    BY <1>2 DEF TrustInv, RecordsAreRecords, SignedRecord
  <1>4. attestations[s].evidence.sha256.claim = "PASS"
    BY <1>1 DEF StageVerified, ClaimBound, StagePassed
  <1>5. attestations[s].evidence.sha256
           = EvidenceRecord("PASS", attestations[s].evidence.sha256.observed_at)
    BY <1>3, <1>4 DEF IsRecord, EvidenceRecord
  <1>6. <<attestations[s].evidence.evidence_id,
          EvidenceRecord("PASS", attestations[s].evidence.sha256.observed_at)>> \in recorded
    BY <1>2, <1>5 DEF SignedRecord
  <1>7. \A role \in {"workshop_maker", "workshop_checker"} :
           TrustedFor(attestations[s].signers[role], role)
    BY <1>1 DEF StageVerified, SignaturesValid, Roles
  <1>8. attestations[s].server_nonce = Nonce(ThisRun, g, s)
    BY <1>1 DEF StageVerified, ChallengeMet
  <1>q. QED BY <1>6, <1>7, <1>8

-----------------------------------------------------------------------------
(* The steps                                                               *)

\* What has been accepted stays good while time passes, records are added and
\* keys are revoked no earlier than now.
LEMMA AcceptancesKept ==
    ASSUME TrustInv, UNCHANGED <<acceptances, registry>>,
           clock' \in Nat, clock <= clock', recorded \subseteq recorded',
           revokedAt' \in [Keys -> Int],
           \A k \in Keys : revokedAt'[k] = revokedAt[k] \/ revokedAt'[k] = clock
    PROVE  /\ AcceptedOnce' /\ WorkHappenedInOrder' /\ ClaimsWereRecorded' /\ RolesStayApart'
PROOF
  <1>0. clock \in Nat /\ revokedAt \in [Keys -> Int]
    BY DEF TrustInv, ClocksTyped
  <1>1. AcceptedOnce'
    BY <1>0 DEF TrustInv, AcceptedOnce, AcceptanceTyped, Nonce
  <1>2. WorkHappenedInOrder' /\ ClaimsWereRecorded'
    BY DEF TrustInv, WorkHappenedInOrder, ClaimsWereRecorded, AcceptedStages, EvidenceRecord
  <1>3. RolesStayApart'
    <2> SUFFICES ASSUME NEW c \in acceptances, NEW s \in Stages, NEW r \in Stages
                 PROVE  /\ registry[c.chain[s].signers["workshop_maker"]].principal
                             # registry[c.chain[r].signers["workshop_checker"]].principal
                        /\ \A role \in {"workshop_maker", "workshop_checker"} :
                              revokedAt'[c.chain[s].signers[role]] >= c.verified_at
      BY DEF RolesStayApart
    <2>1. /\ c.verified_at \in Nat /\ c.verified_at <= clock
          /\ \A role \in {"workshop_maker", "workshop_checker"} :
                c.chain[s].signers[role] \in Keys
      BY DEF TrustInv, AcceptedOnce, AcceptanceTyped
    <2>2. /\ registry[c.chain[s].signers["workshop_maker"]].principal
               # registry[c.chain[r].signers["workshop_checker"]].principal
          /\ \A role \in {"workshop_maker", "workshop_checker"} :
                revokedAt[c.chain[s].signers[role]] >= c.verified_at
      BY DEF TrustInv, RolesStayApart
    <2>q. QED BY <1>0, <2>1, <2>2
  <1>q. QED BY <1>1, <1>2, <1>3

\* Time, records, faults of the store, revocations and challenges.
LEMMA WorkshopSteps ==
    ASSUME TrustInv,
           \/ tick
           \/ \E e \in EvidenceIds :
                 replace_object(e) \/ \E c \in {"PASS", "FAIL"} : record_evidence(e, c)
           \/ \E k \in Keys : revoke_key(k)
           \/ \E g \in 1 .. MaxGeneration : issue_nonce_set(g) \/ invalidate_nonce_set(g)
    PROVE  TrustInv'
PROOF
  <1>0. clock \in Nat /\ revokedAt \in [Keys -> Int]
    BY DEF TrustInv, ClocksTyped
  <1>1. /\ UNCHANGED <<acceptances, registry, attestations>>
        /\ clock' \in Nat /\ clock <= clock'
    <2>1. clock' = clock \/ clock' = clock + 1
      BY DEF tick, replace_object, record_evidence, revoke_key, issue_nonce_set,
             invalidate_nonce_set
    <2>2. UNCHANGED <<acceptances, registry, attestations>>
      BY DEF tick, replace_object, record_evidence, revoke_key, issue_nonce_set,
             invalidate_nonce_set
    <2>q. QED BY <1>0, <2>1, <2>2
  <1>2. /\ revokedAt' \in [Keys -> Int]
        /\ \A k \in Keys : revokedAt'[k] = revokedAt[k] \/ revokedAt'[k] = clock
    <2>1. revokedAt' = revokedAt \/ \E k \in Keys : revokedAt' = [revokedAt EXCEPT ![k] = clock]
      BY DEF tick, replace_object, record_evidence, revoke_key, issue_nonce_set,
             invalidate_nonce_set
    <2>q. QED BY <1>0, <2>1
  <1>3. \/ recorded' = recorded
        \/ \E e \in EvidenceIds, c \in {"PASS", "FAIL"} :
              recorded' = recorded \cup {<<e, EvidenceRecord(c, clock)>>}
    BY DEF tick, replace_object, record_evidence, revoke_key, issue_nonce_set,
           invalidate_nonce_set
  <1>4. recorded \subseteq recorded'
    BY <1>3
  <1>5. RecordsAreRecords'
    <2>1. \A e \in EvidenceIds, c \in {"PASS", "FAIL"} : IsRecord(<<e, EvidenceRecord(c, clock)>>)
      BY <1>0 DEF IsRecord
    <2>q. QED BY <1>3, <2>1, SMTT(30) DEF TrustInv, RecordsAreRecords, IsRecord
  <1>6. SubmittedIsSigned'
    BY <1>1, <1>4 DEF TrustInv, SubmittedIsSigned, SignedRecord
  <1>7. ClocksTyped'
    BY <1>1, <1>2 DEF ClocksTyped
  <1>8. AcceptedOnce' /\ WorkHappenedInOrder' /\ ClaimsWereRecorded' /\ RolesStayApart'
    BY <1>1, <1>2, <1>4, AcceptancesKept
  <1>q. QED BY <1>5, <1>6, <1>7, <1>8 DEF TrustInv

\* A signature refers to a record, whatever else its signer gets wrong.
LEMMA SignStep ==
    ASSUME TrustInv, NEW s \in Stages, NEW run, NEW g, NEW setup, NEW e \in EvidenceIds,
           NEW payload, NEW signers, sign(s, run, g, setup, e, payload, signers)
    PROVE  TrustInv'
PROOF
  <1>0. clock \in Nat /\ revokedAt \in [Keys -> Int]
    BY DEF TrustInv, ClocksTyped
  <1>1. UNCHANGED <<acceptances, registry, recorded, clock, revokedAt>>
    BY DEF sign
  <1>2. SubmittedIsSigned'
    <2>1. /\ attestations' = [attestations EXCEPT ![s] =
                                 Attestation(s, run, g, setup, e, payload, signers)]
          /\ <<e, objects[e]>> \in recorded
      BY DEF sign
    <2>2. SignedRecord(Attestation(s, run, g, setup, e, payload, signers))
      BY <1>0, <2>1 DEF SignedRecord, Attestation, Reference
    <2>3. DOMAIN attestations' = Stages
      BY <2>1 DEF TrustInv, SubmittedIsSigned
    <2>4. ASSUME NEW q \in Stages, attestations'[q].present
          PROVE  SignedRecord(attestations'[q])
      <3>1. CASE q = s
        BY <2>1, <2>2, <3>1 DEF TrustInv, SubmittedIsSigned
      <3>2. CASE q # s
        BY <2>1, <2>4, <3>2 DEF TrustInv, SubmittedIsSigned
      <3>q. QED BY <3>1, <3>2
    <2>q. QED BY <1>1, <2>3, <2>4 DEF SubmittedIsSigned, SignedRecord
  <1>3. AcceptedOnce' /\ WorkHappenedInOrder' /\ ClaimsWereRecorded' /\ RolesStayApart'
    BY <1>0, <1>1, AcceptancesKept
  <1>4. ClocksTyped' /\ RecordsAreRecords'
    BY <1>1 DEF TrustInv, ClocksTyped, RecordsAreRecords, IsRecord
  <1>q. QED BY <1>2, <1>3, <1>4 DEF TrustInv

\* An acceptance adds a verified chain under challenges nobody used before.
LEMMA AcceptStep ==
    ASSUME TrustInv, NEW g \in 1 .. MaxGeneration, accept(g)
    PROVE  TrustInv'
PROOF
  <1> DEFINE new == [generation |-> g, chain |-> attestations, verified_at |-> clock]
  <1>0. clock \in Nat /\ revokedAt \in [Keys -> Int]
    BY DEF TrustInv, ClocksTyped
  <1>1. /\ UNCHANGED <<registry, recorded, clock, revokedAt, attestations>>
        /\ ChainVerified(attestations, g) /\ RegistryLoads
        /\ \A c \in acceptances : c.generation # g
        /\ acceptances' = acceptances \cup {new}
    BY DEF accept, ChainVerified
  <1>2. \A s \in Stages :
           /\ <<attestations[s].evidence.evidence_id,
                EvidenceRecord("PASS", attestations[s].evidence.sha256.observed_at)>>
                 \in recorded
           /\ \A role \in {"workshop_maker", "workshop_checker"} :
                 TrustedFor(attestations[s].signers[role], role)
           /\ attestations[s].server_nonce = Nonce(ThisRun, g, s)
    BY <1>1, VerifiedChainIsGenuine
  <1>3. new.generation = g /\ new.chain = attestations /\ new.verified_at = clock
    OBVIOUS
  <1> HIDE DEF new
  <1>4. AcceptedOnce'
    <2>1. AcceptanceTyped(new)
      <3>1. \A s \in Stages : \A role \in {"workshop_maker", "workshop_checker"} :
               attestations[s].signers[role] \in Keys
        BY <1>2 DEF TrustedFor
      <3>2. \A s \in Stages : attestations[s].server_nonce = Nonce(ThisRun, g, s)
        BY <1>2
      <3>q. QED BY <1>0, <1>3, <3>1, <3>2 DEF AcceptanceTyped
    <2>2. \A c \in acceptances' : AcceptanceTyped(c)
      BY <1>1, <2>1 DEF TrustInv, AcceptedOnce
    <2>3. \A c, d \in acceptances' : c.generation = d.generation => c = d
      BY <1>1, <1>3 DEF TrustInv, AcceptedOnce
    <2>q. QED BY <1>1, <2>2, <2>3 DEF AcceptedOnce, AcceptanceTyped, Nonce
  <1>5. WorkHappenedInOrder'
    <2>1. \A s, r \in Stages : s < r =>
              /\ attestations[s].evidence.sha256.observed_at
                    < attestations[r].evidence.sha256.observed_at
              /\ attestations[r].evidence.sha256.observed_at <= clock
              /\ attestations[r].issued_at - attestations[s].evidence.sha256.observed_at
                    <= ChainDuration + EvidenceAge
      BY <1>1, AcceptedInOrder
    <2>q. QED BY <1>1, <1>3, <2>1 DEF TrustInv, WorkHappenedInOrder
  <1>6. ClaimsWereRecorded'
    <2> SUFFICES ASSUME NEW c \in acceptances', NEW s \in Stages
                 PROVE  <<c.chain[s].evidence.evidence_id,
                          EvidenceRecord("PASS", c.chain[s].evidence.sha256.observed_at)>>
                           \in recorded
      BY <1>1 DEF ClaimsWereRecorded, AcceptedStages, EvidenceRecord
    <2>1. CASE c \in acceptances
      BY <2>1 DEF TrustInv, ClaimsWereRecorded, AcceptedStages
    <2>2. CASE c = new
      BY <2>2, <1>2, <1>3
    <2>q. QED BY <2>1, <2>2, <1>1
  <1>7. RolesStayApart'
    <2> SUFFICES ASSUME NEW c \in acceptances', NEW s \in Stages, NEW r \in Stages
                 PROVE  /\ registry[c.chain[s].signers["workshop_maker"]].principal
                             # registry[c.chain[r].signers["workshop_checker"]].principal
                        /\ \A role \in {"workshop_maker", "workshop_checker"} :
                              revokedAt[c.chain[s].signers[role]] >= c.verified_at
      BY <1>1 DEF RolesStayApart
    <2>1. CASE c \in acceptances
      BY <2>1 DEF TrustInv, RolesStayApart
    <2>2. CASE c = new
      <3> DEFINE mk == attestations[s].signers["workshop_maker"]
                 ck == attestations[r].signers["workshop_checker"]
      <3>1. /\ mk \in Keys /\ registry[mk].role = "workshop_maker"
            /\ ck \in Keys /\ registry[ck].role = "workshop_checker"
        BY <1>2 DEF TrustedFor
      <3>2. registry[mk].principal # registry[ck].principal
        BY <1>1, <3>1 DEF RegistryLoads
      <3>3. \A role \in {"workshop_maker", "workshop_checker"} :
               attestations[s].signers[role] \in Keys
               /\ revokedAt[attestations[s].signers[role]] > clock
        BY <1>2 DEF TrustedFor, NotRevoked
      <3>q. QED BY <2>2, <1>0, <1>3, <3>2, <3>3
    <2>q. QED BY <2>1, <2>2, <1>1
  <1>8. ClocksTyped' /\ RecordsAreRecords' /\ SubmittedIsSigned'
    BY <1>1 DEF TrustInv, ClocksTyped, RecordsAreRecords, IsRecord, SubmittedIsSigned,
                SignedRecord
  <1>q. QED BY <1>4, <1>5, <1>6, <1>7, <1>8 DEF TrustInv

-----------------------------------------------------------------------------
(* The theorems                                                            *)

\* Nothing is recorded, signed or accepted at first.
LEMMA TrustInvInit == TrustInit => TrustInv
PROOF
  <1> SUFFICES ASSUME TrustInit PROVE TrustInv
    OBVIOUS
  <1>1. ClocksTyped
    BY DEF TrustInit, ClocksTyped, InForce
  <1>2. RecordsAreRecords /\ AcceptedOnce /\ WorkHappenedInOrder /\ ClaimsWereRecorded
        /\ RolesStayApart
    BY DEF TrustInit, RecordsAreRecords, AcceptedOnce, WorkHappenedInOrder,
           ClaimsWereRecorded, AcceptedStages, RolesStayApart
  <1>3. SubmittedIsSigned
    BY DEF TrustInit, SubmittedIsSigned, Absent
  <1>q. QED BY <1>1, <1>2, <1>3 DEF TrustInv

\* Every step of the workshop, the store and the server keeps the invariant.
LEMMA TrustInvStep == TrustInv /\ [TrustNext]_trustVars => TrustInv'
PROOF
  <1> SUFFICES ASSUME TrustInv, [TrustNext]_trustVars PROVE TrustInv'
    OBVIOUS
  <1>1. CASE \/ tick
             \/ \E e \in EvidenceIds :
                   replace_object(e) \/ \E c \in {"PASS", "FAIL"} : record_evidence(e, c)
             \/ \E k \in Keys : revoke_key(k)
             \/ \E g \in 1 .. MaxGeneration : issue_nonce_set(g) \/ invalidate_nonce_set(g)
    BY <1>1, WorkshopSteps
  <1>2. ASSUME NEW s \in Stages, NEW run \in Runs, NEW g \in 1 .. MaxGeneration,
               NEW setup \in Setups \cup {OtherSetup}, NEW e \in EvidenceIds,
               NEW payload \in {"PASS", "FAIL"}, NEW signers \in {GoodSigners, SwappedSigners},
               sign(s, run, g, setup, e, payload, signers)
        PROVE  TrustInv'
    BY <1>2, SignStep
  <1>3. ASSUME NEW g \in 1 .. MaxGeneration, accept(g) PROVE TrustInv'
    BY <1>3, AcceptStep
  <1>4. CASE UNCHANGED trustVars
    <2>1. UNCHANGED <<acceptances, registry, recorded, clock, revokedAt, attestations>>
      BY <1>4 DEF trustVars
    <2>2. AcceptedOnce' /\ WorkHappenedInOrder' /\ ClaimsWereRecorded' /\ RolesStayApart'
      BY <2>1, AcceptancesKept DEF TrustInv, ClocksTyped
    <2>q. QED BY <2>1, <2>2 DEF TrustInv, ClocksTyped, RecordsAreRecords, IsRecord,
                                SubmittedIsSigned, SignedRecord
  <1>q. QED BY <1>1, <1>2, <1>3, <1>4 DEF TrustNext

\* Every reachable state satisfies the invariant.
THEOREM TrustInvariant == TrustSpec => []TrustInv
PROOF
  <1>q. QED BY TrustInvInit, TrustInvStep, PTL DEF TrustSpec

\* An accepted run was worked in order: each stage was observed after
\* everything of the one before it, within the duration (_require_verified).
THEOREM WorkIsOrdered == TrustSpec => []WorkHappenedInOrder
PROOF
  <1>1. TrustInv => WorkHappenedInOrder
    BY DEF TrustInv
  <1>q. QED BY <1>1, TrustInvariant, PTL

\* An accepted chain is genuine: recorded passes, separate people, unrevoked
\* keys, and no attestation that helped to accept before
\* (verify_workshop_attestation_chain, workshop_chain_acceptances).
THEOREM ChainIsGenuine == TrustSpec => []AcceptedChainIsGenuine
PROOF
  <1>1. TrustInv => AcceptedChainIsGenuine
    <2> SUFFICES ASSUME TrustInv PROVE NoReplay
      BY DEF TrustInv, AcceptedChainIsGenuine
    <2>1. \A c \in acceptances : \A s \in Stages :
             c.chain[s].server_nonce = <<ThisRun, c.generation, s>>
      BY DEF TrustInv, AcceptedOnce, AcceptanceTyped, Nonce
    <2>2. ASSUME NEW c \in acceptances, NEW d \in acceptances, c # d, NEW s \in Stages
          PROVE  c.chain[s] # d.chain[s]
      <3>1. c.generation # d.generation
        BY <2>2 DEF TrustInv, AcceptedOnce
      <3>q. QED BY <2>1, <3>1
    <2>q. QED BY <2>1, <2>2 DEF NoReplay, Nonce
  <1>q. QED BY <1>1, TrustInvariant, PTL
=============================================================================
