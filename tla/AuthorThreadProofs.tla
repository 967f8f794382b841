------------------------- MODULE AuthorThreadProofs -------------------------
(***************************************************************************)
(* Proofs about the agents' turns, for any threads, selections and bounds: *)
(* what the parser of a rollout and those of stdout compute, what the      *)
(* author's turns keep and report of it, and what a review retains.        *)
(***************************************************************************)
EXTENDS AuthorThread, CriticTurn, WellFoundedInduction, TLAPS

------------------------------------------------------------------------------
(***************************************************************************)
(* Induction over the natural numbers, for sets of them.                   *)
(***************************************************************************)
LEMMA Least ==
  ASSUME NEW T, T \subseteq Nat, T # {}
  PROVE  \E m \in T : \A n \in T : m <= n
<1> DEFINE R == OpToRel(<, Nat)
<1>1. IsWellFoundedOn(R, Nat)
  BY NatLessThanWellFounded
<1>2. \A x, y \in Nat : x < y => <<x, y>> \in R
  BY DEF OpToRel
<1> HIDE DEF R
<1>3. PICK m \in T : \A y \in T : ~ (<<y, m>> \in R)
  BY <1>1, WFMin
<1>4. ASSUME NEW n \in T PROVE m <= n
  <2>1. ~ (n < m)
    BY <1>2, <1>3
  <2> QED
    BY <2>1
<1> QED
  BY <1>4

LEMMA Induct ==
  ASSUME NEW T, 0 \in T, \A n \in Nat : n \in T => n + 1 \in T
  PROVE  Nat \subseteq T
<1> SUFFICES ASSUME Nat \ T # {} PROVE FALSE
  OBVIOUS
<1>1. PICK m \in Nat \ T : \A n \in Nat \ T : m <= n
  BY Least
<1>2. m # 0 /\ m - 1 \in Nat
  BY <1>1
<1>3. m - 1 \in T
  BY <1>1, <1>2
<1> QED
  BY <1>1, <1>2, <1>3

------------------------------------------------------------------------------
(***************************************************************************)
(* The parser of a rollout, one line after another.                        *)
(***************************************************************************)
\* What a line is, by its kind.
LEMMA LineIs ==
  ASSUME NEW line \in Line
  PROVE  /\ line.kind \in {"meta", "started", "context", "complete", "other", "rejected"}
         /\ line.kind = "meta" => line.thread \in Thread /\ line = Meta(line.thread)
         /\ line.kind = "started" => line.turn \in Turn /\ line = Started(line.turn)
         /\ line.kind = "complete" => line.turn \in Turn /\ line = Complete(line.turn)
         /\ line.kind = "context" => line.turn \in Turn /\ line.sel \in Selection
BY DEF Line, Meta, Started, Context, Complete, Other, Rejected

\* What the parser knows after each of n lines.
Scanning(thread, lines, f, n) ==
  f = [i \in 0 .. n |->
         IF i = 0 THEN Nothing
         ELSE IF f[i - 1] = None \/ Refuses(thread, f[i - 1], lines[i]) THEN None
         ELSE Learn(f[i - 1], lines[i])]

\* The turns the first lines start.
Telling(lines, f, n) ==
  f = [i \in 0 .. n |->
         IF i = 0 THEN <<>>
         ELSE IF lines[i].kind = "started" THEN Append(f[i - 1], lines[i].turn)
         ELSE f[i - 1]]

LEMMA ScanningExists ==
  ASSUME NEW thread, NEW lines
  PROVE  \A n \in Nat : \E f : Scanning(thread, lines, f, n)
<1> DEFINE T == {n \in Nat : \E f : Scanning(thread, lines, f, n)}
<1>1. 0 \in T
  <2>1. Scanning(thread, lines, [i \in 0 .. 0 |-> Nothing], 0)
    BY DEF Scanning
  <2> QED
    BY <2>1
<1>2. ASSUME NEW n \in Nat, n \in T PROVE n + 1 \in T
  <2>1. PICK f : Scanning(thread, lines, f, n)
    BY <1>2
  <2> DEFINE Reads(learnt, line) ==
               IF learnt = None \/ Refuses(thread, learnt, line) THEN None
                ELSE Learn(learnt, line)
             g == [i \in 0 .. n + 1 |-> IF i <= n THEN f[i] ELSE Reads(f[n], lines[n + 1])]
  <2>2. \A i \in 0 .. n : f[i] = IF i = 0 THEN Nothing ELSE Reads(f[i - 1], lines[i])
    BY <2>1 DEF Scanning
  <2> HIDE DEF Reads
  <2>3. \A i \in 0 .. n + 1 : g[i] = IF i = 0 THEN Nothing ELSE Reads(g[i - 1], lines[i])
    <3> TAKE i \in 0 .. n + 1
    <3>1. CASE i = 0
      <4>1. 0 \in 0 .. n /\ 0 <= n /\ g[0] = f[0]
        OBVIOUS
      <4> QED
        BY <2>2, <3>1, <4>1
    <3>2. CASE i # 0 /\ i <= n
      <4>1. /\ i \in 0 .. n /\ i - 1 \in 0 .. n /\ i \in 0 .. n + 1
            /\ i - 1 \in 0 .. n + 1 /\ i - 1 <= n
        BY <3>2
      <4>2. g[i] = f[i] /\ g[i - 1] = f[i - 1]
        BY <3>2, <4>1
      <4> QED
        BY <2>2, <3>2, <4>1, <4>2
    <3>3. CASE i = n + 1
      <4>1. i - 1 = n /\ ~(i <= n) /\ n \in 0 .. n + 1 /\ g[n] = f[n] /\ i # 0
        BY <3>3
      <4> QED
        BY <3>3, <4>1
    <3> QED
      BY <3>1, <3>2, <3>3
  <2> HIDE DEF g
  <2>4. Scanning(thread, lines, g, n + 1)
    BY <2>3 DEF Scanning, g, Reads
  <2> QED
    BY <2>4
<1> HIDE DEF T
<1>3. Nat \subseteq T
  BY <1>1, <1>2, Induct
<1> QED
  BY <1>3 DEF T

LEMMA TellingExists ==
  ASSUME NEW lines
  PROVE  \A n \in Nat : \E f : Telling(lines, f, n)
<1> DEFINE T == {n \in Nat : \E f : Telling(lines, f, n)}
<1>1. 0 \in T
  <2>1. Telling(lines, [i \in 0 .. 0 |-> <<>>], 0)
    BY DEF Telling
  <2> QED
    BY <2>1
<1>2. ASSUME NEW n \in Nat, n \in T PROVE n + 1 \in T
  <2>1. PICK f : Telling(lines, f, n)
    BY <1>2
  <2> DEFINE More(turns, line) ==
               IF line.kind = "started" THEN Append(turns, line.turn) ELSE turns
             g == [i \in 0 .. n + 1 |-> IF i <= n THEN f[i] ELSE More(f[n], lines[n + 1])]
  <2>2. \A i \in 0 .. n : f[i] = IF i = 0 THEN <<>> ELSE More(f[i - 1], lines[i])
    BY <2>1 DEF Telling
  <2> HIDE DEF More
  <2>3. \A i \in 0 .. n + 1 : g[i] = IF i = 0 THEN <<>> ELSE More(g[i - 1], lines[i])
    <3> TAKE i \in 0 .. n + 1
    <3>1. CASE i = 0
      <4>1. 0 \in 0 .. n /\ 0 <= n /\ g[0] = f[0]
        OBVIOUS
      <4> QED
        BY <2>2, <3>1, <4>1
    <3>2. CASE i # 0 /\ i <= n
      <4>1. /\ i \in 0 .. n /\ i - 1 \in 0 .. n /\ i \in 0 .. n + 1
            /\ i - 1 \in 0 .. n + 1 /\ i - 1 <= n
        BY <3>2
      <4>2. g[i] = f[i] /\ g[i - 1] = f[i - 1]
        BY <3>2, <4>1
      <4> QED
        BY <2>2, <3>2, <4>1, <4>2
    <3>3. CASE i = n + 1
      <4>1. i - 1 = n /\ ~(i <= n) /\ n \in 0 .. n + 1 /\ g[n] = f[n] /\ i # 0
        BY <3>3
      <4> QED
        BY <3>3, <4>1
    <3> QED
      BY <3>1, <3>2, <3>3
  <2> HIDE DEF g
  <2>4. Telling(lines, g, n + 1)
    BY <2>3 DEF Telling, g, More
  <2> QED
    BY <2>4
<1> HIDE DEF T
<1>3. Nat \subseteq T
  BY <1>1, <1>2, Induct
<1> QED
  BY <1>3 DEF T

\* The two unfolded, for all the lines of a rollout.
LEMMA ScanUnfolds ==
  ASSUME NEW thread, NEW lines, Len(lines) \in Nat
  PROVE  \E f : /\ f[0] = Nothing /\ Scan(thread, lines) = f[Len(lines)]
                /\ \A i \in 1 .. Len(lines) :
                     f[i] = IF f[i - 1] = None \/ Refuses(thread, f[i - 1], lines[i]) THEN None
                            ELSE Learn(f[i - 1], lines[i])
<1> DEFINE n == Len(lines)
           f == CHOOSE f : Scanning(thread, lines, f, n)
<1>1. Scanning(thread, lines, f, n)
  BY ScanningExists
<1>2. Scan(thread, lines) = f[n]
  BY DEF Scan, Scanning
<1> HIDE DEF f
<1>3. \A i \in 0 .. n : f[i] = IF i = 0 THEN Nothing
           ELSE IF f[i - 1] = None \/ Refuses(thread, f[i - 1], lines[i]) THEN None
           ELSE Learn(f[i - 1], lines[i])
  BY <1>1 DEF Scanning
<1>4. 0 \in 0 .. n /\ \A i \in 1 .. n : i \in 0 .. n /\ i # 0
  OBVIOUS
<1> QED
  BY <1>2, <1>3, <1>4, Zenon

LEMMA TurnsUnfold ==
  ASSUME NEW lines, Len(lines) \in Nat
  PROVE  \E f : /\ f[0] = <<>> /\ TurnsOf(lines) = f[Len(lines)]
                /\ \A i \in 1 .. Len(lines) :
                     f[i] = IF lines[i].kind = "started" THEN Append(f[i - 1], lines[i].turn)
                            ELSE f[i - 1]
<1> DEFINE n == Len(lines)
           f == CHOOSE f : Telling(lines, f, n)
<1>1. Telling(lines, f, n)
  BY TellingExists
<1>2. TurnsOf(lines) = f[n]
  BY DEF TurnsOf, Telling
<1> HIDE DEF f
<1>3. \A i \in 0 .. n : f[i] = IF i = 0 THEN <<>>
           ELSE IF lines[i].kind = "started" THEN Append(f[i - 1], lines[i].turn) ELSE f[i - 1]
  BY <1>1 DEF Telling
<1>4. 0 \in 0 .. n /\ \A i \in 1 .. n : i \in 0 .. n /\ i # 0
  OBVIOUS
<1> QED
  BY <1>2, <1>3, <1>4, Zenon

------------------------------------------------------------------------------
(***************************************************************************)
(* The loop invariant: what is known after the first n lines, of which the *)
(* open turn starts at line o (0 for none) and that start these turns.     *)
(***************************************************************************)
Headed(thread, lines, n, learnt) ==
  /\ learnt.opened <=> n > 0
  /\ n > 0 => lines[1] = Meta(thread)
  /\ \A i \in 2 .. n : lines[i].kind \notin {"meta", "rejected"}

Begun(lines, n, learnt) ==
  /\ \A t \in learnt.started : \E j \in 1 .. n : lines[j] = Started(t)
  /\ \A j \in 1 .. n : lines[j].kind = "started" =>
       /\ lines[j].turn \in learnt.started
       /\ \A i \in 1 .. n : lines[i] = lines[j] => i = j

\* The line that starts the open turn.
OpenAt(lines, n, o, learnt) ==
  /\ o = 0 => learnt.active = None
  /\ o # 0 => /\ learnt.active # None /\ lines[o] = Started(learnt.active)
              /\ \A i \in o + 1 .. n : lines[i].kind \notin {"started", "complete"}
  /\ learnt.contexts > 0 <=> o # 0 /\ \E i \in o + 1 .. n : lines[i].kind = "context"

Framed(lines, n, o, learnt) ==
  /\ \A j \in 1 .. n : lines[j].kind = "started" /\ j # o =>
       \E k \in 1 .. n : RunsFrom(lines, j, k)
  /\ \A k \in 1 .. n : lines[k].kind = "complete" => \E j \in 1 .. n : RunsFrom(lines, j, k)
  /\ \A i \in 1 .. n : lines[i].kind = "context" =>
       \/ o # 0 /\ o < i /\ lines[i].turn = learnt.active
       \/ \E j, k \in 1 .. n :
            RunsFrom(lines, j, k) /\ j < i /\ i < k /\ lines[i].turn = lines[j].turn

Counted(o, learnt, turns) ==
  /\ turns = IF o = 0 THEN learnt.completed ELSE Append(learnt.completed, learnt.active)
  /\ learnt.distinct = IF learnt.contexts = 0 THEN learnt.completed
                      ELSE Append(learnt.completed, learnt.active)
  /\ turns = <<>> => learnt.started = {}

Chosen(lines, n, learnt) ==
  /\ \A i \in 1 .. n : lines[i].kind = "context" => learnt.sel[lines[i].turn] = lines[i].sel
  /\ \A t \in Turn : learnt.sel[t] # None =>
       \E i \in 1 .. n : lines[i].kind = "context" /\ lines[i].turn = t
  /\ \A i \in 1 .. Len(learnt.distinct) : learnt.sel[learnt.distinct[i]] # None

Explains(thread, lines, n, o, learnt, turns) ==
  /\ learnt \in Knowledge
  /\ Headed(thread, lines, n, learnt)
  /\ Begun(lines, n, learnt)
  /\ OpenAt(lines, n, o, learnt)
  /\ Framed(lines, n, o, learnt)
  /\ Counted(o, learnt, turns)
  /\ Chosen(lines, n, learnt)

LEMMA ExplainsNothing ==
  ASSUME NEW thread, NEW lines
  PROVE  Explains(thread, lines, 0, 0, Nothing, <<>>)
BY DEF Explains, Headed, Begun, OpenAt, Framed, Counted, Chosen, Nothing, Knowledge

\* The turn of a context on an open turn is no earlier one.
LEMMA OpenContext ==
  ASSUME NEW thread, NEW lines \in Seq(Line), NEW n \in 1 .. Len(lines), NEW o \in 1 .. n,
         NEW learnt, NEW turns, Explains(thread, lines, n, o, learnt, turns),
         NEW i \in 1 .. n, lines[i].kind = "context"
  PROVE  lines[i].turn = learnt.active <=> o < i
<1> USE DEF Explains
<1>1. lines[o] = Started(learnt.active)
  BY DEF OpenAt
<1>2. CASE o < i /\ lines[i].turn = learnt.active
  BY <1>2
<1>3. ASSUME NEW j \in 1 .. n, NEW k \in 1 .. n,
             RunsFrom(lines, j, k), j < i, i < k, lines[i].turn = lines[j].turn
      PROVE  lines[i].turn # learnt.active /\ ~(o < i)
  <2>1. ~(o < i)
    BY <1>3 DEF OpenAt, RunsFrom, Complete
  <2>2. lines[j] = Started(lines[j].turn)
    BY <1>3, LineIs DEF RunsFrom
  <2>3. ASSUME lines[i].turn = learnt.active PROVE FALSE
    <3>1. lines[j] = lines[o]
      BY <1>1, <1>3, <2>2, <2>3
    <3>2. j = o
      BY <1>3, <3>1 DEF Begun, RunsFrom
    <3> QED
      BY <1>3, <2>1, <3>2
  <2> QED
    BY <2>1, <2>3
<1> QED
  BY <1>2, <1>3 DEF Framed

------------------------------------------------------------------------------
\* A line that is not refused is explained as well.
LEMMA LearnsMeta ==
  ASSUME NEW thread \in Thread, NEW lines \in Seq(Line), NEW n \in Nat, n + 1 \in 1 .. Len(lines),
         NEW o \in 0 .. n, NEW learnt, NEW turns, Explains(thread, lines, n, o, learnt, turns),
         ~Refuses(thread, learnt, lines[n + 1]),
         lines[n + 1].kind \in {"meta", "other"}
  PROVE  Explains(thread, lines, n + 1, o, Learn(learnt, lines[n + 1]), turns)
<1> DEFINE line == lines[n + 1]
           now == Learn(learnt, line)
<1>1. line \in Line
  OBVIOUS
<1>2. line.kind = "meta" => n = 0 /\ line = Meta(thread)
  BY DEF Refuses, Explains, Headed
<1>3. line.kind = "other" => n > 0
  BY <1>1, LineIs DEF Refuses, Explains, Headed, Meta
<1>4. now = IF line.kind = "meta" THEN [learnt EXCEPT !.opened = TRUE] ELSE learnt
  BY DEF Learn
<1>5. /\ now \in Knowledge /\ now.opened
      /\ now.sel = learnt.sel /\ now.distinct = learnt.distinct
      /\ now.completed = learnt.completed /\ now.started = learnt.started
      /\ now.active = learnt.active /\ now.contexts = learnt.contexts
  <2>1. CASE line.kind = "meta"
    <3>1. now = [learnt EXCEPT !.opened = TRUE] /\ learnt \in Knowledge
      BY <1>4, <2>1 DEF Explains
    <3> HIDE DEF now
    <3> QED
      BY <3>1 DEF Knowledge
  <2>2. CASE line.kind # "meta"
    <3>1. line.kind = "other" /\ now = learnt
      BY <1>4, <2>2
    <3> QED
      BY <1>3, <3>1 DEF Explains, Headed
  <2> QED
    BY <2>1, <2>2
<1> HIDE DEF now
<1>6. Headed(thread, lines, n + 1, now)
  BY <1>2, <1>3, <1>5 DEF Explains, Headed
<1>7. Begun(lines, n + 1, now)
  BY <1>5, <1>1 DEF Explains, Begun
<1>8. OpenAt(lines, n + 1, o, now)
  BY <1>5, <1>2 DEF Explains, OpenAt
<1>9. Framed(lines, n + 1, o, now)
  BY <1>5 DEF Explains, Framed
<1>10. Counted(o, now, turns) /\ Chosen(lines, n + 1, now)
  BY <1>5 DEF Explains, Counted, Chosen
<1> QED
  BY <1>5, <1>6, <1>7, <1>8, <1>9, <1>10 DEF Explains, now

LEMMA LearnsStarted ==
  ASSUME NEW thread \in Thread, NEW lines \in Seq(Line), NEW n \in Nat, n + 1 \in 1 .. Len(lines),
         NEW o \in 0 .. n, NEW learnt, NEW turns, Explains(thread, lines, n, o, learnt, turns),
         ~Refuses(thread, learnt, lines[n + 1]),
         lines[n + 1].kind = "started"
  PROVE  Explains(thread, lines, n + 1, n + 1, Learn(learnt, lines[n + 1]),
                  Append(turns, lines[n + 1].turn))
<1> DEFINE line == lines[n + 1]
           now == Learn(learnt, line)
<1>1. line \in Line /\ line.turn \in Turn /\ line = Started(line.turn) /\ line.turn # None
  BY LineIs, NoneAssumption
<1>2. learnt.active = None /\ line.turn \notin learnt.started /\ o = 0 /\ n > 0
  BY <1>1 DEF Refuses, Explains, OpenAt, Headed, Meta, Started
<1>3. now = [learnt EXCEPT !.active = line.turn, !.contexts = 0,
                          !.started = @ \cup {line.turn}]
  BY DEF Learn
<1>4. learnt \in Knowledge
  BY DEF Explains
<1>5. /\ now \in Knowledge
      /\ now.opened = learnt.opened /\ now.sel = learnt.sel /\ now.distinct = learnt.distinct
      /\ now.completed = learnt.completed /\ now.started = learnt.started \cup {line.turn}
      /\ now.active = line.turn /\ now.contexts = 0
  <2>1. now = [opened |-> learnt.opened, sel |-> learnt.sel, distinct |-> learnt.distinct,
               completed |-> learnt.completed, started |-> learnt.started \cup {line.turn},
               active |-> line.turn, contexts |-> 0]
    BY <1>3, <1>4 DEF Knowledge
  <2>2. learnt.started \cup {line.turn} \in SUBSET Turn
    BY <1>1, <1>4 DEF Knowledge
  <2> QED
    BY <1>1, <1>4, <2>1, <2>2 DEF Knowledge
<1> HIDE DEF now
<1>6. Headed(thread, lines, n + 1, now)
  BY <1>2, <1>5 DEF Explains, Headed
<1>7. Begun(lines, n + 1, now)
  <2>1. \A t \in now.started : \E j \in 1 .. n + 1 : lines[j] = Started(t)
    BY <1>1, <1>5 DEF Explains, Begun
  <2>2. \A j \in 1 .. n : lines[j].kind = "started" => lines[j].turn # line.turn
    BY <1>2 DEF Explains, Begun
  <2>3. \A j \in 1 .. n + 1 : lines[j].kind = "started" => lines[j].turn \in now.started
    BY <1>5 DEF Explains, Begun
  <2>4. ASSUME NEW j \in 1 .. n + 1, lines[j].kind = "started", NEW i \in 1 .. n + 1,
               lines[i] = lines[j]
        PROVE  i = j
    BY <2>2, <2>4 DEF Explains, Begun
  <2> QED
    BY <2>1, <2>3, <2>4 DEF Begun
<1>8. OpenAt(lines, n + 1, n + 1, now)
  BY <1>1, <1>5 DEF OpenAt
<1>9. Framed(lines, n + 1, n + 1, now)
  <2>1. \A j \in 1 .. n : lines[j].kind = "started" => \E k \in 1 .. n : RunsFrom(lines, j, k)
    BY <1>2 DEF Explains, Framed
  <2>2. \A i \in 1 .. n : lines[i].kind = "context" =>
          \E j, k \in 1 .. n :
            RunsFrom(lines, j, k) /\ j < i /\ i < k /\ lines[i].turn = lines[j].turn
    BY <1>2 DEF Explains, Framed
  <2>3. \A k \in 1 .. n : lines[k].kind = "complete" => \E j \in 1 .. n : RunsFrom(lines, j, k)
    BY DEF Explains, Framed
  <2>4. \A i \in 1 .. n + 1 : i = n + 1 \/ i \in 1 .. n
    OBVIOUS
  <2>5. 1 .. n \subseteq 1 .. n + 1
    OBVIOUS
  <2> QED
    BY <2>1, <2>2, <2>3, <2>4, <2>5, Zenon DEF Framed
<1>10. Counted(n + 1, now, Append(turns, line.turn))
  <2>1. /\ learnt.distinct = learnt.completed /\ turns = learnt.completed
        /\ learnt.completed \in Seq(Turn)
    BY <1>2, <1>4 DEF Explains, Counted, OpenAt, Knowledge
  <2>2. Append(learnt.completed, line.turn) # <<>>
    BY <1>1, <2>1
  <2> QED
    BY <1>2, <1>5, <2>1, <2>2 DEF Counted
<1>11. Chosen(lines, n + 1, now)
  <2>1. \A i \in 1 .. n + 1 : lines[i].kind = "context" => i \in 1 .. n
    OBVIOUS
  <2> QED
    BY <1>5, <2>1 DEF Explains, Chosen
<1> QED
  BY <1>5, <1>6, <1>7, <1>8, <1>9, <1>10, <1>11 DEF Explains, now

LEMMA LearnsComplete ==
  ASSUME NEW thread \in Thread, NEW lines \in Seq(Line), NEW n \in Nat, n + 1 \in 1 .. Len(lines),
         NEW o \in 0 .. n, NEW learnt, NEW turns, Explains(thread, lines, n, o, learnt, turns),
         ~Refuses(thread, learnt, lines[n + 1]),
         lines[n + 1].kind = "complete"
  PROVE  Explains(thread, lines, n + 1, 0, Learn(learnt, lines[n + 1]), turns)
<1> DEFINE line == lines[n + 1]
           now == Learn(learnt, line)
<1>1. line \in Line /\ line.turn \in Turn /\ line = Complete(line.turn) /\ line.turn # None
  BY LineIs, NoneAssumption
<1>2. learnt.active = line.turn /\ learnt.contexts # 0 /\ o # 0 /\ n > 0
  BY <1>1 DEF Refuses, Explains, OpenAt, Headed, Meta, Complete
<1>3. now = [learnt EXCEPT !.active = None, !.contexts = 0,
                          !.completed = Append(@, line.turn)]
  BY DEF Learn
<1>4. learnt \in Knowledge
  BY DEF Explains
<1>5. /\ now \in Knowledge
      /\ now.opened = learnt.opened /\ now.sel = learnt.sel /\ now.distinct = learnt.distinct
      /\ now.completed = Append(learnt.completed, line.turn) /\ now.started = learnt.started
      /\ now.active = None /\ now.contexts = 0
  <2>1. now = [opened |-> learnt.opened, sel |-> learnt.sel, distinct |-> learnt.distinct,
               completed |-> Append(learnt.completed, line.turn), started |-> learnt.started,
               active |-> None, contexts |-> 0]
    BY <1>3, <1>4 DEF Knowledge
  <2>2. Append(learnt.completed, line.turn) \in Seq(Turn)
    BY <1>1, <1>4 DEF Knowledge
  <2> QED
    BY <1>1, <1>4, <2>1, <2>2 DEF Knowledge
<1> HIDE DEF now
<1>6. o \in 1 .. n /\ RunsFrom(lines, o, n + 1)
  <2>1. o \in 1 .. n /\ learnt.contexts > 0
    BY <1>2, <1>4 DEF Knowledge
  <2>2. /\ lines[o] = Started(line.turn)
        /\ \A i \in o + 1 .. n : lines[i].kind \notin {"started", "complete"}
        /\ \E i \in o + 1 .. n : lines[i].kind = "context"
    BY <1>2, <2>1 DEF Explains, OpenAt
  <2>3. lines[o].kind = "started" /\ lines[o].turn = line.turn
    BY <2>2 DEF Started
  <2>4. lines[n + 1] = Complete(lines[o].turn)
    BY <1>1, <2>3
  <2> QED
    BY <2>1, <2>2, <2>3, <2>4 DEF RunsFrom
<1>7. Headed(thread, lines, n + 1, now)
  BY <1>2, <1>5 DEF Explains, Headed
<1>8. Begun(lines, n + 1, now)
  BY <1>1, <1>5 DEF Explains, Begun, Complete
<1>9. OpenAt(lines, n + 1, 0, now)
  BY <1>1, <1>5 DEF OpenAt
<1>10. Framed(lines, n + 1, 0, now)
  <2>1. \A j \in 1 .. n + 1 :
          lines[j].kind = "started" => \E k \in 1 .. n + 1 : RunsFrom(lines, j, k)
    BY <1>6 DEF Explains, Framed
  <2>2. \A k \in 1 .. n + 1 :
          lines[k].kind = "complete" => \E j \in 1 .. n + 1 : RunsFrom(lines, j, k)
    BY <1>6 DEF Explains, Framed
  <2>3. ASSUME NEW i \in 1 .. n + 1, lines[i].kind = "context"
        PROVE  \E j, k \in 1 .. n + 1 :
                 RunsFrom(lines, j, k) /\ j < i /\ i < k /\ lines[i].turn = lines[j].turn
    <3>1. i \in 1 .. n
      BY <2>3
    <3>2. CASE o < i /\ lines[i].turn = learnt.active
      <4>1. lines[i].turn = lines[o].turn /\ i < n + 1
        BY <1>2, <1>6, <3>1, <3>2 DEF Explains, OpenAt, Started
      <4> QED
        BY <1>6, <3>2, <4>1
    <3>3. CASE ~(o < i /\ lines[i].turn = learnt.active)
      <4>1. \E j, k \in 1 .. n :
               RunsFrom(lines, j, k) /\ j < i /\ i < k /\ lines[i].turn = lines[j].turn
        BY <2>3, <3>1, <3>3 DEF Explains, Framed
      <4> QED
        BY <4>1
    <3> QED
      BY <3>2, <3>3
  <2> QED
    BY <2>1, <2>2, <2>3 DEF Framed
<1>11. Counted(0, now, turns)
  BY <1>2, <1>5 DEF Explains, Counted
<1>12. Chosen(lines, n + 1, now)
  BY <1>1, <1>5 DEF Explains, Chosen
<1> QED
  BY <1>5, <1>7, <1>8, <1>9, <1>10, <1>11, <1>12 DEF Explains, now

LEMMA LearnsContext ==
  ASSUME NEW thread \in Thread, NEW lines \in Seq(Line), NEW n \in Nat, n + 1 \in 1 .. Len(lines),
         NEW o \in 0 .. n, NEW learnt, NEW turns, Explains(thread, lines, n, o, learnt, turns),
         ~Refuses(thread, learnt, lines[n + 1]),
         lines[n + 1].kind = "context"
  PROVE  Explains(thread, lines, n + 1, o, Learn(learnt, lines[n + 1]), turns)
<1> DEFINE line == lines[n + 1]
           now == Learn(learnt, line)
           t == line.turn
<1>1. line \in Line /\ t \in Turn /\ line.sel \in Selection /\ t # None /\ line.sel # None
  BY LineIs, NoneAssumption
<1>2. learnt.active = t /\ learnt.sel[t] \in {None, line.sel} /\ o \in 1 .. n /\ n > 0
  BY <1>1 DEF Refuses, Explains, OpenAt, Headed, Meta
<1>4. learnt \in Knowledge
  BY DEF Explains
<1>3. now = IF learnt.sel[t] = None
            THEN [learnt EXCEPT !.contexts = @ + 1, !.sel[line.turn] = line.sel,
                               !.distinct = Append(@, line.turn)]
            ELSE [learnt EXCEPT !.contexts = @ + 1]
  BY DEF Learn
<1>5. /\ now \in Knowledge
      /\ now.opened = learnt.opened /\ now.sel = [learnt.sel EXCEPT ![t] = line.sel]
      /\ now.distinct = IF learnt.sel[t] = None THEN Append(learnt.distinct, t)
                        ELSE learnt.distinct
      /\ now.completed = learnt.completed /\ now.started = learnt.started
      /\ now.active = t /\ now.contexts = learnt.contexts + 1
  <2> DEFINE sel == [learnt.sel EXCEPT ![t] = line.sel]
             distinct == IF learnt.sel[t] = None THEN Append(learnt.distinct, t)
                         ELSE learnt.distinct
  <2>1. learnt.sel[t] # None => sel = learnt.sel
    BY <1>1, <1>2, <1>4 DEF Knowledge
  <2>2. now = [opened |-> learnt.opened, sel |-> sel, distinct |-> distinct,
               completed |-> learnt.completed, started |-> learnt.started,
               active |-> learnt.active, contexts |-> learnt.contexts + 1]
    <3>3. learnt = [opened |-> learnt.opened, sel |-> learnt.sel, distinct |-> learnt.distinct,
                    completed |-> learnt.completed, started |-> learnt.started,
                    active |-> learnt.active, contexts |-> learnt.contexts]
      BY <1>4 DEF Knowledge
    <3>1. CASE learnt.sel[t] = None
      BY <1>3, <3>1, <3>3
    <3>2. CASE learnt.sel[t] # None
      BY <1>3, <2>1, <3>2, <3>3
    <3> QED
      BY <3>1, <3>2
  <2>3. sel \in [Turn -> Selection \cup {None}] /\ distinct \in Seq(Turn)
    BY <1>1, <1>4 DEF Knowledge
  <2>4. learnt.contexts + 1 \in Nat
    BY <1>4 DEF Knowledge
  <2> HIDE DEF sel, distinct
  <2>5. now \in Knowledge
    BY <1>4, <2>2, <2>3, <2>4 DEF Knowledge
  <2> QED
    BY <1>2, <2>2, <2>5 DEF sel, distinct
<1>13. learnt.sel[t] = None <=> learnt.contexts = 0
  <2>1. ASSUME learnt.sel[t] # None PROVE learnt.contexts # 0
    <3>1. PICK i \in 1 .. n : lines[i].kind = "context" /\ lines[i].turn = t
      BY <1>1, <2>1 DEF Explains, Chosen
    <3>2. o < i
      BY <1>2, <3>1, OpenContext
    <3> QED
      BY <1>2, <3>1, <3>2 DEF Explains, OpenAt
  <2>2. ASSUME learnt.contexts # 0 PROVE learnt.sel[t] # None
    <3>3. learnt.contexts > 0
      BY <1>4, <2>2 DEF Knowledge
    <3>4. OpenAt(lines, n, o, learnt)
      BY DEF Explains
    <3>1. PICK i \in o + 1 .. n : lines[i].kind = "context"
      BY <3>3, <3>4 DEF OpenAt
    <3>2. i \in 1 .. n /\ lines[i].turn = t
      BY <1>2, <3>1, OpenContext
    <3>5. learnt.sel[t] = lines[i].sel /\ lines[i] \in Line
      BY <3>1, <3>2 DEF Explains, Chosen
    <3> QED
      BY <3>1, <3>5, LineIs, NoneAssumption
  <2> QED
    BY <2>1, <2>2
<1> HIDE DEF now
<1>6. Headed(thread, lines, n + 1, now)
  BY <1>2, <1>5 DEF Explains, Headed
<1>7. Begun(lines, n + 1, now)
  <2>1. \A j \in 1 .. n + 1 : lines[j].kind = "started" => j \in 1 .. n
    OBVIOUS
  <2>2. \A s \in now.started : \E j \in 1 .. n + 1 : lines[j] = Started(s)
    BY <1>5 DEF Explains, Begun
  <2>3. \A j \in 1 .. n + 1 : lines[j].kind = "started" => lines[j].turn \in now.started
    BY <1>5, <2>1 DEF Explains, Begun
  <2>4. ASSUME NEW j \in 1 .. n + 1, lines[j].kind = "started", NEW i \in 1 .. n + 1,
               lines[i] = lines[j]
        PROVE  i = j
    <3>1. lines[i].kind = "started"
      BY <2>4
    <3> QED
      BY <2>1, <2>4, <3>1 DEF Explains, Begun
  <2> QED
    BY <2>2, <2>3, <2>4 DEF Begun
<1>8. OpenAt(lines, n + 1, o, now)
  BY <1>1, <1>2, <1>4, <1>5 DEF Explains, OpenAt, Knowledge
<1>9. Framed(lines, n + 1, o, now)
  <2>1. \A j \in 1 .. n + 1 :
          lines[j].kind = "started" /\ j # o => \E k \in 1 .. n + 1 : RunsFrom(lines, j, k)
    BY DEF Explains, Framed
  <2>2. \A k \in 1 .. n + 1 :
          lines[k].kind = "complete" => \E j \in 1 .. n + 1 : RunsFrom(lines, j, k)
    BY DEF Explains, Framed
  <2>3. ASSUME NEW i \in 1 .. n + 1, lines[i].kind = "context",
               ~(o # 0 /\ o < i /\ lines[i].turn = now.active)
        PROVE  \E j, k \in 1 .. n + 1 :
                 RunsFrom(lines, j, k) /\ j < i /\ i < k /\ lines[i].turn = lines[j].turn
    <3>1. i \in 1 .. n
      BY <1>2, <1>5, <2>3
    <3>2. \E j, k \in 1 .. n :
             RunsFrom(lines, j, k) /\ j < i /\ i < k /\ lines[i].turn = lines[j].turn
      BY <1>2, <1>5, <2>3, <3>1 DEF Explains, Framed
    <3> QED
      BY <3>2
  <2> QED
    BY <2>1, <2>2, <2>3 DEF Framed
<1>10. Counted(o, now, turns)
  BY <1>2, <1>4, <1>5, <1>13 DEF Explains, Counted, Knowledge
<1>11. Chosen(lines, n + 1, now)
  <2>1. \A s \in Turn : now.sel[s] = IF s = t THEN line.sel ELSE learnt.sel[s]
    BY <1>1, <1>4, <1>5 DEF Knowledge
  <2>2. ASSUME NEW i \in 1 .. n + 1, lines[i].kind = "context"
        PROVE  now.sel[lines[i].turn] = lines[i].sel
    <3>1. lines[i] \in Line /\ lines[i].turn \in Turn /\ lines[i].sel # None
      BY <2>2, LineIs, NoneAssumption
    <3>2. CASE i = n + 1
      BY <2>1, <3>1, <3>2
    <3>3. CASE i \in 1 .. n
      <4>1. learnt.sel[lines[i].turn] = lines[i].sel
        BY <2>2, <3>3 DEF Explains, Chosen
      <4> QED
        BY <1>2, <2>1, <3>1, <4>1
    <3> QED
      BY <3>2, <3>3
  <2>3. ASSUME NEW s \in Turn, now.sel[s] # None
        PROVE  \E i \in 1 .. n + 1 : lines[i].kind = "context" /\ lines[i].turn = s
    <3>1. CASE s = t
      BY <3>1
    <3>2. CASE s # t
      BY <2>1, <2>3, <3>2 DEF Explains, Chosen
    <3> QED
      BY <3>1, <3>2
  <2>4. ASSUME NEW i \in 1 .. Len(now.distinct) PROVE now.sel[now.distinct[i]] # None
    <3>1. learnt.distinct \in Seq(Turn)
      BY <1>4 DEF Knowledge
    <3>2. \/ now.distinct[i] = t
          \/ i \in 1 .. Len(learnt.distinct) /\ now.distinct[i] = learnt.distinct[i]
      BY <1>1, <1>5, <3>1
    <3>3. CASE now.distinct[i] = t
      BY <1>1, <2>1, <3>3
    <3>4. CASE i \in 1 .. Len(learnt.distinct) /\ now.distinct[i] = learnt.distinct[i]
      <4>1. learnt.sel[learnt.distinct[i]] # None /\ learnt.distinct[i] \in Turn
        BY <3>1, <3>4 DEF Explains, Chosen
      <4> QED
        BY <1>1, <2>1, <3>4, <4>1
    <3> QED
      BY <3>2, <3>3, <3>4
  <2> QED
    BY <2>2, <2>3, <2>4 DEF Chosen
<1> QED
  BY <1>5, <1>6, <1>7, <1>8, <1>9, <1>10, <1>11 DEF Explains, now

------------------------------------------------------------------------------
(***************************************************************************)
(* What the parser makes of a rollout.                                     *)
(***************************************************************************)
\* Soundness: as long as nothing is refused, what is known is explained.
LEMMA ScanExplains ==
  ASSUME NEW thread \in Thread, NEW lines \in Seq(Line)
  PROVE  \E f, g :
           /\ f[0] = Nothing /\ Scan(thread, lines) = f[Len(lines)]
           /\ \A i \in 1 .. Len(lines) :
                f[i] = IF f[i - 1] = None \/ Refuses(thread, f[i - 1], lines[i]) THEN None
                       ELSE Learn(f[i - 1], lines[i])
           /\ g[0] = <<>> /\ TurnsOf(lines) = g[Len(lines)]
           /\ \A i \in 0 .. Len(lines) :
                f[i] # None => \E o \in 0 .. i : Explains(thread, lines, i, o, f[i], g[i])
<1> DEFINE N == Len(lines)
<1>1. N \in Nat
  OBVIOUS
<1>2. PICK f : /\ f[0] = Nothing /\ Scan(thread, lines) = f[N]
               /\ \A i \in 1 .. N :
                    f[i] = IF f[i - 1] = None \/ Refuses(thread, f[i - 1], lines[i]) THEN None
                           ELSE Learn(f[i - 1], lines[i])
  BY <1>1, ScanUnfolds
<1>3. PICK g : /\ g[0] = <<>> /\ TurnsOf(lines) = g[N]
               /\ \A i \in 1 .. N :
                    g[i] = IF lines[i].kind = "started" THEN Append(g[i - 1], lines[i].turn)
                           ELSE g[i - 1]
  BY <1>1, TurnsUnfold
<1> DEFINE Explained(i) ==
             f[i] # None => \E o \in 0 .. i : Explains(thread, lines, i, o, f[i], g[i])
           T == {i \in Nat : i <= N => Explained(i)}
<1>4. 0 \in T
  BY <1>2, <1>3, ExplainsNothing
<1>5. ASSUME NEW n \in Nat, n \in T PROVE n + 1 \in T
  <2> SUFFICES ASSUME n + 1 <= N, f[n + 1] # None PROVE Explained(n + 1)
    BY DEF T
  <2>1. n + 1 \in 1 .. N /\ n <= N /\ (n + 1) - 1 = n
    BY <1>1
  <2>2. /\ f[n] # None /\ ~Refuses(thread, f[n], lines[n + 1])
        /\ f[n + 1] = Learn(f[n], lines[n + 1])
    BY <1>2, <2>1
  <2>3. g[n + 1] = IF lines[n + 1].kind = "started" THEN Append(g[n], lines[n + 1].turn)
                   ELSE g[n]
    BY <1>3, <2>1
  <2>4. PICK o \in 0 .. n : Explains(thread, lines, n, o, f[n], g[n])
    BY <1>5, <2>1, <2>2
  <2> DEFINE line == lines[n + 1]
  <2>5. line \in Line
    BY <2>1
  <2>6. CASE line.kind \in {"meta", "other"}
    <3>1. Explains(thread, lines, n + 1, o, f[n + 1], g[n + 1])
      BY <2>1, <2>2, <2>3, <2>4, <2>6, LearnsMeta
    <3> QED
      BY <3>1
  <2>7. CASE line.kind = "started"
    <3>1. Explains(thread, lines, n + 1, n + 1, f[n + 1], g[n + 1])
      BY <2>1, <2>2, <2>3, <2>4, <2>7, LearnsStarted
    <3> QED
      BY <3>1
  <2>8. CASE line.kind = "complete"
    <3>1. Explains(thread, lines, n + 1, 0, f[n + 1], g[n + 1])
      BY <2>1, <2>2, <2>3, <2>4, <2>8, LearnsComplete
    <3> QED
      BY <3>1
  <2>9. CASE line.kind = "context"
    <3>1. Explains(thread, lines, n + 1, o, f[n + 1], g[n + 1])
      BY <2>1, <2>2, <2>3, <2>4, <2>9, LearnsContext
    <3> QED
      BY <3>1
  <2>10. line.kind # "rejected"
    BY <2>2 DEF Refuses
  <2> QED
    BY <2>5, <2>6, <2>7, <2>8, <2>9, <2>10, LineIs
<1> HIDE DEF T
<1>6. Nat \subseteq T
  BY <1>4, <1>5, Induct
<1>7. \A i \in 0 .. N : Explained(i)
  BY <1>1, <1>6 DEF T
<1> QED
  BY <1>2, <1>3, <1>7

\* A scan that is satisfied has read a rollout of whole turns.
LEMMA FinishedIsWhole ==
  ASSUME NEW thread \in Thread, NEW lines \in Seq(Line), Finished(Scan(thread, lines))
  PROVE  LET learnt == Scan(thread, lines) IN
         /\ learnt \in Knowledge
         /\ Whole(thread, lines)
         /\ learnt.distinct = TurnsOf(lines)
         /\ \A i \in 1 .. Len(learnt.distinct) :
              /\ ContextsOf(lines, learnt.distinct[i]) # {}
              /\ learnt.sel[learnt.distinct[i]] = SelectionOf(lines, learnt.distinct[i])
<1> DEFINE N == Len(lines)
           learnt == Scan(thread, lines)
<1>1. PICK g : /\ TurnsOf(lines) = g[N]
               /\ learnt # None => \E o \in 0 .. N : Explains(thread, lines, N, o, learnt, g[N])
  <2>1. N \in 0 .. N
    OBVIOUS
  <2> QED
    BY <2>1, ScanExplains
<1>2. PICK o \in 0 .. N : Explains(thread, lines, N, o, learnt, TurnsOf(lines))
  BY <1>1 DEF Finished
<1> DEFINE turns == TurnsOf(lines)
<1> HIDE DEF learnt, turns
<1>3. learnt \in Knowledge /\ learnt.opened /\ learnt.active = None
  BY <1>2 DEF Explains, Finished, learnt
<1>4. o = 0 /\ N > 0 /\ lines # <<>> /\ lines[1] = Meta(thread)
  BY <1>2, <1>3 DEF Explains, OpenAt, Headed
<1>5. learnt.distinct = turns /\ turns # <<>>
  BY <1>2, <1>4 DEF Explains, Counted, Finished, learnt, turns
<1>6. \A i \in 1 .. Len(learnt.distinct) :
        learnt.distinct[i] \in Turn /\ learnt.sel[learnt.distinct[i]] # None
  BY <1>2, <1>3 DEF Explains, Chosen, Knowledge, turns
<1>7. \A i \in 1 .. N : lines[i] \in Line
  OBVIOUS
<1>8. \A i \in 1 .. N : lines[i].kind = "context" =>
        lines[i].turn \in Turn /\ learnt.sel[lines[i].turn] = lines[i].sel
  BY <1>2, <1>7, LineIs DEF Explains, Chosen, turns
<1>9. ASSUME NEW t \in Turn, learnt.sel[t] # None
      PROVE  ContextsOf(lines, t) # {} /\ learnt.sel[t] = SelectionOf(lines, t)
  <2>1. ContextsOf(lines, t) # {}
    BY <1>2, <1>9 DEF Explains, Chosen, ContextsOf, turns
  <2>2. \A i \in ContextsOf(lines, t) : learnt.sel[t] = lines[i].sel
    BY <1>8 DEF ContextsOf
  <2> QED
    BY <2>1, <2>2 DEF SelectionOf
<1>10. Whole(thread, lines)
  <2>1. \A i \in 1 .. N \ {1} : lines[i].kind \notin {"meta", "rejected"}
    BY <1>2 DEF Explains, Headed
  <2>2. \E j \in 1 .. N : lines[j].kind = "started"
    <3>1. turns # <<>> /\ turns \in Seq(Turn)
      BY <1>3, <1>5 DEF Knowledge
    <3>2. learnt.contexts = 0 /\ learnt.completed = turns
      BY <1>2, <1>3, <1>4 DEF Explains, OpenAt, Counted, Knowledge, turns
    <3>3. \E i \in 1 .. N : lines[i].kind = "context"
      BY <1>2, <1>3, <1>5, <3>1 DEF Explains, Chosen, Knowledge
    <3>4. \E j, k \in 1 .. N : RunsFrom(lines, j, k)
      BY <1>2, <1>4, <3>3 DEF Explains, Framed
    <3> QED
      BY <3>4 DEF RunsFrom
  <2>3. ASSUME NEW j \in 1 .. N, lines[j].kind = "started"
        PROVE  /\ \A i \in 1 .. N : lines[i] = lines[j] => i = j
               /\ \E k \in 1 .. N : RunsFrom(lines, j, k)
    BY <1>2, <1>4, <2>3 DEF Explains, Begun, Framed
  <2>4. \A k \in 1 .. N : lines[k].kind = "complete" => \E j \in 1 .. N : RunsFrom(lines, j, k)
    BY <1>2 DEF Explains, Framed
  <2>5. ASSUME NEW i \in 1 .. N, lines[i].kind = "context"
        PROVE  /\ \E j, k \in 1 .. N :
                    RunsFrom(lines, j, k) /\ j < i /\ i < k /\ lines[i].turn = lines[j].turn
               /\ \A l \in ContextsOf(lines, lines[i].turn) : lines[l].sel = lines[i].sel
    <3>1. \E j, k \in 1 .. N :
            RunsFrom(lines, j, k) /\ j < i /\ i < k /\ lines[i].turn = lines[j].turn
      BY <1>2, <1>4, <2>5 DEF Explains, Framed
    <3>2. \A l \in ContextsOf(lines, lines[i].turn) : lines[l].sel = lines[i].sel
      BY <1>8, <2>5 DEF ContextsOf
    <3> QED
      BY <3>1, <3>2
  <2> QED
    BY <1>4, <2>1, <2>2, <2>3, <2>4, <2>5 DEF Whole
<1> QED
  BY <1>3, <1>5, <1>6, <1>9, <1>10 DEF learnt, turns

LEMMA AppendTurn ==
  \A s \in Seq(Turn), t \in Turn : Append(s, t) # <<>> /\ LastOf(Append(s, t)) = t
BY DEF LastOf

\* Completeness: nothing in a rollout of whole turns is refused.
LEMMA WholeIsRead ==
  ASSUME NEW thread \in Thread, NEW lines \in Seq(Line), Whole(thread, lines),
         NEW n \in Nat, n + 1 \in 1 .. Len(lines), NEW o \in 0 .. n, NEW learnt, NEW turns,
         Explains(thread, lines, n, o, learnt, turns)
  PROVE  ~Refuses(thread, learnt, lines[n + 1])
<1> DEFINE N == Len(lines)
           line == lines[n + 1]
<1>1. line \in Line /\ (n = 0 \/ n + 1 \in 1 .. N \ {1}) /\ N \in Nat
  OBVIOUS
<1>2. learnt \in Knowledge
  BY DEF Explains
<1>3. line.kind # "rejected" /\ (~learnt.opened => line = Meta(thread))
  BY <1>1 DEF Whole, Explains, Headed, Meta
<1>4. learnt.opened => line.kind # "meta"
  BY <1>1 DEF Whole, Explains, Headed
\* A turn that runs over this line is the open one.
<1>5. ASSUME NEW j \in 1 .. N, NEW k \in 1 .. N, RunsFrom(lines, j, k), j <= n, n < k
      PROVE  o = j /\ learnt.active = lines[j].turn /\ o # 0
  <2>1. j \in 1 .. n /\ lines[j].kind = "started"
    BY <1>5 DEF RunsFrom
  <2>2. ASSUME NEW l \in 1 .. n, RunsFrom(lines, j, l) PROVE FALSE
    <3>1. l \in j + 1 .. k - 1 /\ lines[l].kind = "complete"
      BY <1>5, <2>2 DEF RunsFrom, Complete
    <3> QED
      BY <1>5, <3>1 DEF RunsFrom
  <2>3. o = j
    BY <2>1, <2>2 DEF Explains, Framed
  <2> QED
    BY <2>1, <2>3 DEF Explains, OpenAt, Started
\* And the open one has not ended.
<1>6. ASSUME o # 0
      PROVE  \E k \in 1 .. N : RunsFrom(lines, o, k) /\ n < k
  <2>1. o \in 1 .. n /\ o \in 1 .. N /\ lines[o].kind = "started"
    BY <1>1, <1>6 DEF Explains, OpenAt, Started
  <2>2. PICK k \in 1 .. N : RunsFrom(lines, o, k)
    BY <2>1 DEF Whole
  <2>3. lines[k].kind = "complete" /\ o < k
    BY <2>2 DEF RunsFrom, Complete
  <2>4. ~(k \in o + 1 .. n)
    BY <2>1, <2>3 DEF Explains, OpenAt
  <2> QED
    BY <2>1, <2>2, <2>3, <2>4
<1>7. ASSUME line.kind = "started"
      PROVE  learnt.active = None /\ line.turn \notin learnt.started
  <2>1. o = 0
    <3>1. SUFFICES ASSUME o # 0 PROVE FALSE
      OBVIOUS
    <3>2. PICK k \in 1 .. N : RunsFrom(lines, o, k) /\ n < k
      BY <1>6, <3>1
    <3>3. k # n + 1
      BY <1>7, <3>2 DEF RunsFrom, Complete
    <3>4. n + 1 \in o + 1 .. k - 1
      BY <1>1, <3>2, <3>3
    <3> QED
      BY <1>7, <3>2, <3>4 DEF RunsFrom
  <2>2. learnt.active = None
    BY <2>1 DEF Explains, OpenAt
  <2>3. ASSUME line.turn \in learnt.started PROVE FALSE
    <3>1. PICK j \in 1 .. n : lines[j] = Started(line.turn)
      BY <2>3 DEF Explains, Begun
    <3>2. line = Started(line.turn)
      BY <1>1, <1>7, LineIs
    <3>3. j \in 1 .. N /\ n + 1 \in 1 .. N /\ j # n + 1
      BY <1>1
    <3> QED
      BY <1>7, <3>1, <3>2, <3>3 DEF Whole
  <2> QED
    BY <2>2, <2>3
<1>8. ASSUME line.kind = "complete"
      PROVE  learnt.active = line.turn /\ learnt.contexts # 0
  <2>1. PICK j \in 1 .. N : RunsFrom(lines, j, n + 1)
    BY <1>8 DEF Whole
  <2>2. j <= n /\ n < n + 1
    BY <1>1, <2>1 DEF RunsFrom
  <2>3. o = j /\ learnt.active = lines[j].turn /\ o # 0
    BY <1>5, <2>1, <2>2
  <2>4. \E i \in o + 1 .. n : lines[i].kind = "context"
    BY <2>1, <2>3 DEF RunsFrom
  <2>5. learnt.contexts > 0
    BY <2>3, <2>4 DEF Explains, OpenAt
  <2>6. line.turn = lines[j].turn
    BY <2>1 DEF RunsFrom, Complete
  <2> QED
    BY <1>2, <2>3, <2>5, <2>6 DEF Knowledge
<1>9. ASSUME line.kind = "context"
      PROVE  /\ learnt.active = line.turn
             /\ learnt.sel[line.turn] \in {None, line.sel}
             /\ learnt.sel[line.turn] # None =>
                  learnt.distinct # <<>> /\ LastOf(learnt.distinct) = line.turn
  <2>1. PICK j \in 1 .. N, k \in 1 .. N :
          RunsFrom(lines, j, k) /\ j < n + 1 /\ n + 1 < k /\ line.turn = lines[j].turn
    BY <1>9 DEF Whole
  <2>2. o = j /\ learnt.active = line.turn /\ o # 0 /\ o \in 1 .. n
    BY <1>5, <2>1
  <2>3. line.turn \in Turn
    BY <1>1, <1>9, LineIs
  <2>4. ASSUME learnt.sel[line.turn] # None
        PROVE  /\ learnt.sel[line.turn] = line.sel
               /\ learnt.distinct # <<>> /\ LastOf(learnt.distinct) = line.turn
    <3>1. PICK i \in 1 .. n : lines[i].kind = "context" /\ lines[i].turn = line.turn
      BY <2>3, <2>4 DEF Explains, Chosen
    <3>2. learnt.sel[line.turn] = lines[i].sel
      BY <3>1 DEF Explains, Chosen
    <3>3. i \in ContextsOf(lines, line.turn)
      BY <1>1, <3>1 DEF ContextsOf
    <3>4. lines[i].sel = line.sel
      BY <1>9, <3>3 DEF Whole
    <3>5. o < i
      BY <1>1, <2>2, <3>1, OpenContext
    <3>6. learnt.contexts # 0
      BY <2>2, <3>1, <3>5 DEF Explains, OpenAt
    <3>7. learnt.distinct = Append(learnt.completed, line.turn) /\ learnt.completed \in Seq(Turn)
      BY <1>2, <2>2, <3>6 DEF Explains, Counted, Knowledge
    <3>8. learnt.distinct # <<>> /\ LastOf(learnt.distinct) = line.turn
      BY <2>3, <3>7, AppendTurn
    <3> QED
      BY <3>2, <3>4, <3>8
  <2> QED
    BY <2>2, <2>4
<1> QED
  BY <1>3, <1>4, <1>7, <1>8, <1>9, Zenon DEF Refuses

LEMMA WholeIsFinished ==
  ASSUME NEW thread \in Thread, NEW lines \in Seq(Line), Whole(thread, lines)
  PROVE  Finished(Scan(thread, lines))
<1> DEFINE N == Len(lines)
<1>1. N \in Nat /\ lines # <<>> /\ N > 0
  BY DEF Whole
<1>2. PICK f, g :
        /\ f[0] = Nothing /\ Scan(thread, lines) = f[N]
        /\ \A i \in 1 .. N :
             f[i] = IF f[i - 1] = None \/ Refuses(thread, f[i - 1], lines[i]) THEN None
                    ELSE Learn(f[i - 1], lines[i])
        /\ \A i \in 0 .. N :
             f[i] # None => \E o \in 0 .. i : Explains(thread, lines, i, o, f[i], g[i])
  BY ScanExplains
<1> DEFINE T == {i \in Nat : i <= N => f[i] # None /\ f[i] \in Knowledge}
<1>3. 0 \in T
  BY <1>1, <1>2, KnowledgeAssumption, ExplainsNothing DEF Explains
<1>4. ASSUME NEW n \in Nat, n \in T PROVE n + 1 \in T
  <2> SUFFICES ASSUME n + 1 <= N PROVE f[n + 1] # None /\ f[n + 1] \in Knowledge
    BY DEF T
  <2>1. n + 1 \in 1 .. N /\ n \in 0 .. N /\ (n + 1) - 1 = n /\ f[n] # None
    BY <1>1, <1>4
  <2>2. PICK o \in 0 .. n : Explains(thread, lines, n, o, f[n], g[n])
    BY <1>2, <2>1
  <2>3. ~Refuses(thread, f[n], lines[n + 1])
    BY <2>1, <2>2, WholeIsRead
  <2>4. f[n + 1] = Learn(f[n], lines[n + 1])
    BY <1>2, <2>1, <2>3
  <2>5. lines[n + 1] \in Line /\ lines[n + 1].kind # "rejected"
    BY <2>1, <2>3 DEF Refuses
  <2>6. \E p, turns : Explains(thread, lines, n + 1, p, Learn(f[n], lines[n + 1]), turns)
    <3>1. CASE lines[n + 1].kind \in {"meta", "other"}
      BY <2>1, <2>2, <2>3, <3>1, LearnsMeta
    <3>2. CASE lines[n + 1].kind = "started"
      BY <2>1, <2>2, <2>3, <3>2, LearnsStarted
    <3>3. CASE lines[n + 1].kind = "complete"
      BY <2>1, <2>2, <2>3, <3>3, LearnsComplete
    <3>4. CASE lines[n + 1].kind = "context"
      BY <2>1, <2>2, <2>3, <3>4, LearnsContext
    <3> QED
      BY <2>5, <3>1, <3>2, <3>3, <3>4, LineIs
  <2>7. f[n + 1] \in Knowledge
    BY <2>4, <2>6 DEF Explains
  <2> QED
    BY <2>7, KnowledgeAssumption
<1> HIDE DEF T
<1>5. Nat \subseteq T
  BY <1>3, <1>4, Induct
<1>6. N \in 0 .. N /\ f[N] # None /\ f[N] \in Knowledge
  BY <1>1, <1>5 DEF T
<1>7. PICK o \in 0 .. N : Explains(thread, lines, N, o, f[N], g[N])
  BY <1>2, <1>6
<1> DEFINE learnt == f[N]
<1> HIDE DEF learnt
<1>8. o = 0
  <2>1. SUFFICES ASSUME o # 0 PROVE FALSE
    OBVIOUS
  <2>2. o \in 1 .. N /\ lines[o].kind = "started"
    BY <1>7, <2>1 DEF Explains, OpenAt, Started
  <2>3. PICK k \in 1 .. N : RunsFrom(lines, o, k)
    BY <2>2 DEF Whole
  <2>4. k \in o + 1 .. N /\ lines[k].kind = "complete"
    BY <2>2, <2>3 DEF RunsFrom, Complete
  <2> QED
    BY <1>7, <2>1, <2>4 DEF Explains, OpenAt
<1>9. learnt.opened /\ learnt.active = None
  BY <1>1, <1>7, <1>8 DEF Explains, Headed, OpenAt, learnt
<1>10. learnt.contexts = 0
  BY <1>6, <1>7, <1>8 DEF Explains, OpenAt, Knowledge, learnt
<1>11. learnt.distinct = learnt.completed /\ learnt.completed = g[N]
  BY <1>7, <1>8, <1>10 DEF Explains, Counted, learnt
<1>12. g[N] # <<>>
  BY <1>7 DEF Explains, Counted, Begun, Whole
<1> QED
  BY <1>2, <1>6, <1>9, <1>11, <1>12 DEF Finished, learnt

------------------------------------------------------------------------------
(***************************************************************************)
(* A rollout and what it grew from.                                        *)
(***************************************************************************)
\* The turns of the first lines come first.
LEMMA TurnsGrow ==
  ASSUME NEW lines \in Seq(Line), NEW c \in 0 .. Len(lines)
  PROVE  LET cut == SubSeq(lines, 1, c) IN
         /\ cut \in Seq(Line) /\ Len(cut) = c /\ \A i \in 1 .. c : cut[i] = lines[i]
         /\ TurnsOf(cut) \in Seq(Turn) /\ TurnsOf(lines) \in Seq(Turn)
         /\ Len(TurnsOf(cut)) <= Len(TurnsOf(lines))
         /\ \A i \in 1 .. Len(TurnsOf(cut)) : TurnsOf(cut)[i] = TurnsOf(lines)[i]
<1> DEFINE N == Len(lines)
           cut == SubSeq(lines, 1, c)
<1>1. N \in Nat /\ c \in Nat /\ c <= N
  OBVIOUS
<1>2. cut \in Seq(Line) /\ Len(cut) = c /\ \A i \in 1 .. c : cut[i] = lines[i]
  BY <1>1
<1> HIDE DEF cut
<1>3. PICK f : /\ f[0] = <<>> /\ TurnsOf(lines) = f[N]
               /\ \A i \in 1 .. N :
                    f[i] = IF lines[i].kind = "started" THEN Append(f[i - 1], lines[i].turn)
                           ELSE f[i - 1]
  BY <1>1, TurnsUnfold
<1>4. PICK g : /\ g[0] = <<>> /\ TurnsOf(cut) = g[c]
               /\ \A i \in 1 .. c :
                    g[i] = IF cut[i].kind = "started" THEN Append(g[i - 1], cut[i].turn)
                           ELSE g[i - 1]
  <2>1. Len(cut) = c /\ Len(cut) \in Nat
    BY <1>1, <1>2
  <2>2. \E g : /\ g[0] = <<>> /\ TurnsOf(cut) = g[Len(cut)]
               /\ \A i \in 1 .. Len(cut) :
                    g[i] = IF cut[i].kind = "started" THEN Append(g[i - 1], cut[i].turn)
                           ELSE g[i - 1]
    BY <2>1, TurnsUnfold
  <2> QED
    BY <2>1, <2>2
<1> DEFINE Grown(s, t) ==
             /\ s \in Seq(Turn) /\ t \in Seq(Turn) /\ Len(s) <= Len(t)
             /\ \A i \in 1 .. Len(s) : s[i] = t[i]
           T == {i \in Nat : /\ i <= c => f[i] \in Seq(Turn) /\ g[i] = f[i]
                             /\ i >= c /\ i <= N => Grown(g[c], f[i])}
<1>5. 0 \in T
  <2>1. f[0] \in Seq(Turn) /\ g[0] = f[0]
    BY <1>3, <1>4
  <2>2. 0 >= c => Grown(g[c], f[0])
    BY <1>1, <2>1
  <2> QED
    BY <2>1, <2>2
<1>6. ASSUME NEW n \in Nat, n \in T PROVE n + 1 \in T
  <2>1. n + 1 <= N => n + 1 \in 1 .. N /\ (n + 1) - 1 = n /\ lines[n + 1] \in Line
    BY <1>1
  <2>2. n + 1 <= c => n + 1 \in 1 .. c /\ n + 1 <= N
    BY <1>1
  <2>3. n + 1 <= c => f[n + 1] \in Seq(Turn) /\ g[n + 1] = f[n + 1]
    <3>1. SUFFICES ASSUME n + 1 <= c PROVE f[n + 1] \in Seq(Turn) /\ g[n + 1] = f[n + 1]
      OBVIOUS
    <3>2. f[n] \in Seq(Turn) /\ g[n] = f[n]
      BY <1>1, <1>6, <3>1
    <3>3. cut[n + 1] = lines[n + 1] /\ lines[n + 1] \in Line
      BY <1>2, <2>1, <2>2, <3>1
    <3>4. lines[n + 1].kind = "started" => lines[n + 1].turn \in Turn
      BY <3>3, LineIs
    <3>5. f[n + 1] = IF lines[n + 1].kind = "started" THEN Append(f[n], lines[n + 1].turn)
                     ELSE f[n]
      BY <1>3, <2>1, <2>2, <3>1
    <3>6. g[n + 1] = IF lines[n + 1].kind = "started" THEN Append(g[n], lines[n + 1].turn)
                     ELSE g[n]
      BY <1>4, <2>1, <2>2, <3>1, <3>3
    <3> QED
      BY <3>2, <3>4, <3>5, <3>6
  <2>4. n + 1 >= c /\ n + 1 <= N => Grown(g[c], f[n + 1])
    <3>1. SUFFICES ASSUME n + 1 >= c, n + 1 <= N PROVE Grown(g[c], f[n + 1])
      OBVIOUS
    <3>2. CASE n + 1 = c
      BY <2>3, <3>2
    <3>3. CASE n >= c
      <4>1. Grown(g[c], f[n]) /\ n <= N
        BY <1>1, <1>6, <3>1, <3>3
      <4>2. lines[n + 1].kind = "started" => lines[n + 1].turn \in Turn
        BY <2>1, <3>1, LineIs
      <4>3. f[n + 1] = IF lines[n + 1].kind = "started" THEN Append(f[n], lines[n + 1].turn)
                       ELSE f[n]
        BY <1>3, <2>1, <3>1
      <4> QED
        BY <4>1, <4>2, <4>3
    <3> QED
      BY <1>1, <3>1, <3>2, <3>3
  <2> QED
    BY <2>3, <2>4
<1> HIDE DEF T
<1>7. Nat \subseteq T
  BY <1>5, <1>6, Induct
<1>8. Grown(g[c], f[N])
  BY <1>1, <1>7 DEF T
<1> QED
  BY <1>2, <1>3, <1>4, <1>8 DEF cut

\* A turn ran with the same selection in a rollout of whole turns and in a longer one.
LEMMA SelectionStays ==
  ASSUME NEW thread, NEW lines \in Seq(Line), NEW c \in 0 .. Len(lines), NEW t,
         Whole(thread, lines), ContextsOf(SubSeq(lines, 1, c), t) # {}
  PROVE  SelectionOf(lines, t) = SelectionOf(SubSeq(lines, 1, c), t)
<1> DEFINE cut == SubSeq(lines, 1, c)
<1>1. Len(cut) = c /\ \A i \in 1 .. c : cut[i] = lines[i]
  OBVIOUS
<1> HIDE DEF cut
<1>2. ContextsOf(cut, t) \subseteq ContextsOf(lines, t)
  BY <1>1 DEF ContextsOf
<1> DEFINE k == CHOOSE i \in ContextsOf(cut, t) : TRUE
           l == CHOOSE i \in ContextsOf(lines, t) : TRUE
<1>3. k \in ContextsOf(cut, t) /\ k \in ContextsOf(lines, t) /\ l \in ContextsOf(lines, t)
  BY <1>2 DEF cut
<1>4. SelectionOf(lines, t) = lines[l].sel /\ SelectionOf(cut, t) = cut[k].sel
  BY DEF SelectionOf
<1> HIDE DEF k, l
<1>5. cut[k] = lines[k]
  BY <1>1, <1>3 DEF ContextsOf
<1>6. k \in 1 .. Len(lines) /\ lines[k].kind = "context" /\ lines[k].turn = t
  BY <1>3 DEF ContextsOf
<1>7. lines[l].sel = lines[k].sel
  BY <1>3, <1>6 DEF Whole
<1> QED
  BY <1>4, <1>5, <1>7 DEF cut

\* Two sequences of one length, one of which begins with the other.
LEMMA SameTurns ==
  ASSUME NEW s \in Seq(Turn), NEW t \in Seq(Turn), Len(s) = Len(t),
         \A i \in 1 .. Len(s) : s[i] = t[i]
  PROVE  s = t
OBVIOUS

LEMMA StartsWithItself ==
  ASSUME NEW S, NEW s \in Seq(S), NEW p \in Seq(S), StartsWith(s, p)
  PROVE  /\ p = SubSeq(s, 1, Len(p)) /\ Len(p) \in 0 .. Len(s)
         /\ Len(p) = Len(s) => p = s
BY DEF StartsWith
------------------------------------------------------------------------------
(***************************************************************************)
(* The strengthening.                                                      *)
(***************************************************************************)
\* What is held back, retained and settled at each step of turn.
Order ==
  /\ pc \in {"launch", "run", "attach"} => held = {}
  /\ pc \in {"launch", "run", "attach", "reconcile", "refresh", "sink"} => ~retained
  /\ pc \in {"attach", "reconcile", "refresh", "sink"} /\ held = {} => captured
  /\ pc \in {"refresh", "sink", "decide"} /\ held = {} => settled = gen
  /\ pc = "decide" /\ held = {} => retained
  /\ retained => known = gen
  /\ pc = "idle" /\ returned # <<>> => settled = gen /\ known = gen /\ retained
  /\ pc = "over" /\ held \cap {"refresh", "reconcile"} # {} =>
       outcome \in {"refresh", "reconcile"}

\* What the adapter remembers is what the loop was told.
Memory ==
  /\ returned \in Seq(Result)
  /\ Attest => IF returned = <<>> THEN memory = Fresh
               ELSE /\ memory.thread = LastOf(returned).thread
                    /\ memory.turns # <<>> /\ memory.prefix # None

Asking == {"launch", "run", "attach", "reconcile", "refresh", "sink", "decide"}

\* The turn in progress is of the thread that was asked for, and its evidence extends
\* what is remembered.
Turning ==
  /\ pc \in Asking => asked = Wanted
  /\ pc \in {"attach", "reconcile", "refresh", "sink", "decide"} /\ held = {} =>
       said \in Result /\ (asked # None => said.thread = asked)
  /\ pc \in {"launch", "run", "attach"} => evidence = NoEvidence
  /\ pc = "attach" => Attest
  /\ pc \in {"reconcile", "refresh", "sink", "decide"} /\ held = {} =>
       /\ Attest => evidence # NoEvidence
       /\ evidence # NoEvidence =>
            /\ Attest
            /\ evidence.turns # <<>> /\ evidence.lines # None
            /\ Len(evidence.turns) = Len(Witness.turns) + 1
            /\ StartsWith(evidence.turns, Witness.turns)
            /\ StartsWith(evidence.lines, Witness.lines)

IInv == Order /\ Memory /\ Turning

------------------------------------------------------------------------------
\* A result names a thread, and None is none.
LEMMA ResultThread ==
  \A r \in Result : r.thread \in Thread /\ r.thread # None
BY NoneAssumption DEF Result

LEMMA LastResult ==
  \A s \in Seq(Result) : s # <<>> => LastOf(s) \in Result
BY DEF LastOf

LEMMA AppendResult ==
  \A s \in Seq(Result), r \in Result :
    Append(s, r) \in Seq(Result) /\ Append(s, r) # <<>> /\ LastOf(Append(s, r)) = r
BY DEF LastOf

LEMMA WantedIsThread ==
  ASSUME Memory
  PROVE  Wanted = None <=> returned = <<>>
BY ResultThread, LastResult DEF Memory, Wanted

\* What Accepts demands of a rollout, for the evidence it gives.
LEMMA AttestedExtends ==
  ASSUME NEW result \in Result, Attested(result)
  PROVE  LET e == Evidence(result.thread, rollout[result.thread]) IN
         /\ e.turns # <<>> /\ e.lines = rollout[result.thread] /\ e.lines # None
         /\ Len(e.turns) = Len(Witness.turns) + 1
         /\ StartsWith(e.turns, Witness.turns)
         /\ StartsWith(e.lines, Witness.lines)
<1> DEFINE lines == rollout[result.thread]
           e == Evidence(result.thread, lines)
<1>1. e.turns = Scan(result.thread, lines).distinct /\ e.lines = lines
  BY DEF Evidence
<1>2. Accepts(result.thread, Witness, lines, Torn(result.thread)) /\ lines # None
  BY DEF Attested, Found
<1>3. /\ Scan(result.thread, lines).distinct # <<>>
      /\ Advances(Witness, Scan(result.thread, lines).distinct)
      /\ StartsWith(lines, Witness.lines)
  BY <1>2 DEF Accepts, Finished, Preserves
<1> QED
  BY <1>1, <1>2, <1>3 DEF Advances

------------------------------------------------------------------------------
LEMMA InitIInv == Init => IInv
BY DEF Init, IInv, Order, Memory, Turning, Asking, Fresh

LEMMA OrderNext == IInv /\ [Next]_vars => Order'
<1> SUFFICES ASSUME IInv, [Next]_vars PROVE Order'
  OBVIOUS
<1> USE DEF IInv, Order
<1>1. CASE Ask
  BY <1>1 DEF Ask, Fail, credential
<1>2. CASE Launch
  BY <1>2 DEF Launch, Fail
<1>3. CASE CliEnds
  BY <1>3 DEF CliEnds, credential
<1>4. CASE Attach
  BY <1>4 DEF Attach, credential
<1>5. CASE Reconcile
  BY <1>5 DEF Reconcile
<1>6. CASE Refresh
  BY <1>6 DEF Refresh
<1>7. CASE Sink
  BY <1>7 DEF Sink
<1>8. CASE Raise
  BY <1>8 DEF Raise, Fail, FirstOf, turn, credential
<1>9. CASE Return
  BY <1>9 DEF Return, Fail, turn, credential
<1>10. CASE CliStep
  <2>1. /\ pc = "run"
        /\ UNCHANGED <<pc, held, captured, settled, known, retained, returned, outcome>>
    BY <1>10 DEF CliStep, WriteLine, TearLine, Rewrite, LeaveBeside, Rotate, Running, turn
  <2> QED
    BY <2>1
<1>11. CASE Over \/ UNCHANGED vars
  BY <1>11 DEF Over, vars, turn, credential
<1> QED
  BY <1>1, <1>2, <1>3, <1>4, <1>5, <1>6, <1>7, <1>8, <1>9, <1>10, <1>11 DEF Next, Step

LEMMA MemoryNext == IInv /\ [Next]_vars => Memory'
<1> SUFFICES ASSUME IInv, [Next]_vars PROVE Memory'
  OBVIOUS
<1> USE DEF IInv
<1>1. CASE UNCHANGED <<memory, returned>>
  BY <1>1 DEF Memory
<1>2. CASE Return /\ ~UNCHANGED <<memory, returned>>
  <2>1. pc = "decide" /\ held = {} /\ said \in Result
    BY <1>2 DEF Return, Turning, Asking
  <2>2. Remember /\ returned' = Append(returned, said)
    BY <1>2 DEF Return
  <2>3. returned' \in Seq(Result) /\ returned' # <<>> /\ LastOf(returned') = said
    BY <2>1, <2>2, AppendResult DEF Memory
  <2>4. ASSUME Attest
        PROVE  memory'.thread = said.thread /\ memory'.turns # <<>> /\ memory'.prefix # None
    BY <2>1, <2>2, <2>4 DEF Remember, Turning
  <2> QED
    BY <2>3, <2>4 DEF Memory
<1>3. Next => UNCHANGED <<memory, returned>> \/ Return
  BY DEF Next, Step, Ask, Launch, CliEnds, Attach, Reconcile, Refresh, Sink, Raise, Over,
         CliStep, WriteLine, TearLine, Rewrite, LeaveBeside, Rotate, Running, vars
<1> QED
  BY <1>1, <1>2, <1>3 DEF vars

LEMMA TurningNext == IInv /\ [Next]_vars => Turning'
<1> SUFFICES ASSUME IInv, [Next]_vars PROVE Turning'
  OBVIOUS
<1> USE DEF IInv, Asking
<1>1. CASE Ask
  BY <1>1 DEF Ask, Fail, Turning, Wanted
<1>2. CASE Launch
  BY <1>2 DEF Launch, Fail, Turning, Wanted
<1>3. CASE CliEnds
  <2>1. /\ pc = "run" /\ held = {} /\ evidence = NoEvidence /\ asked = Wanted
        /\ UNCHANGED <<asked, memory, returned, evidence>>
    BY <1>3 DEF CliEnds, Turning, Order
  <2>2. asked' = Wanted' /\ evidence' = NoEvidence
    BY <2>1 DEF Wanted
  <2>3. CASE held' = {"client"} /\ pc' = "reconcile"
    BY <2>2, <2>3 DEF Turning
  <2>4. CASE UNCHANGED held /\ pc' = (IF Attest THEN "attach" ELSE "reconcile")
    <3>1. said' \in Result /\ (asked # None => said'.thread = asked)
      BY <1>3, <2>1, <2>4 DEF CliEnds
    <3> QED
      BY <2>1, <2>2, <2>4, <3>1 DEF Turning
  <2> QED
    BY <1>3, <2>3, <2>4 DEF CliEnds
<1>4. CASE Attach
  <2>1. pc = "attach" /\ held = {} /\ said \in Result /\ (asked # None => said.thread = asked)
    BY <1>4 DEF Attach, Turning, Order
  <2>2. UNCHANGED <<asked, memory, returned, rollout>> /\ asked = Wanted
    BY <1>4 DEF Attach, Turning, session
  <2>3. Witness' = Witness /\ Wanted' = Wanted
    BY <2>2 DEF Witness, Wanted
  <2>4. CASE Attested(said)
    <3>1. CASE held' # {}
      BY <1>4, <2>2, <2>3, <3>1 DEF Attach, Turning
    <3>2. CASE held' = {}
      <4>1. /\ evidence' = Evidence(said.thread, rollout[said.thread])
            /\ said' = [said EXCEPT !.sel = Requested]
        BY <1>4, <2>4 DEF Attach
      <4>2. said' \in Result /\ said'.thread = said.thread
        BY <2>1, <4>1, RequestedAssumption DEF Result
      <4>3. /\ evidence'.turns # <<>> /\ evidence'.lines # None
            /\ Len(evidence'.turns) = Len(Witness.turns) + 1
            /\ StartsWith(evidence'.turns, Witness.turns)
            /\ StartsWith(evidence'.lines, Witness.lines)
        BY <2>1, <2>4, <4>1, AttestedExtends
      <4>4. pc' = "reconcile" /\ asked' = Wanted'
        BY <1>4, <2>2, <2>3 DEF Attach
      <4>5. asked' # None => said'.thread = asked'
        BY <2>1, <2>2, <4>2
      <4>6. Attest /\ evidence' # NoEvidence
        BY <1>4, <2>1, <4>3 DEF Attach, Turning, NoEvidence
      <4> QED
        BY <2>3, <4>2, <4>3, <4>4, <4>5, <4>6 DEF Turning
    <3> QED
      BY <3>1, <3>2
  <2>5. CASE ~Attested(said)
    BY <1>4, <2>2, <2>3, <2>5 DEF Attach, Turning
  <2> QED
    BY <2>4, <2>5
<1>5. CASE Reconcile \/ Refresh \/ Sink
  BY <1>5 DEF Reconcile, Refresh, Sink, Turning, Wanted, Witness
<1>6. CASE Raise \/ Return
  BY <1>6 DEF Raise, Return, Fail, Turning, turn
<1>7. CASE CliStep
  BY <1>7 DEF CliStep, WriteLine, TearLine, Rewrite, LeaveBeside, Rotate, Running, turn,
              Turning, Wanted
<1>8. CASE Over \/ UNCHANGED vars
  BY <1>8 DEF Over, vars, turn, Turning, Wanted, Witness
<1> QED
  BY <1>1, <1>2, <1>3, <1>4, <1>5, <1>6, <1>7, <1>8 DEF Next, Step

LEMMA Invariance == Spec => []IInv
<1>1. IInv /\ [Next]_vars => IInv'
  BY OrderNext, MemoryNext, TurningNext DEF IInv
<1> QED
  BY InitIInv, <1>1, PTL DEF Spec

------------------------------------------------------------------------------
\* When an attempt of the author is on disk, no generation of the credential is unknown,
\* those included that the status probe of the reconciliation created; and turn gives the
\* loop a turn only with its credential settled and its attempt kept.
THEOREM SettledAlways == Spec => []TurnsAreSettled
<1>1. IInv => TurnsAreSettled
  BY DEF IInv, Order, TurnsAreSettled, RetainedKnowsAll, ReturnedIsSettled
<1> QED
  BY Invariance, <1>1, PTL

\* An error of the CLI never hides that the credential is not in order.
THEOREM SpeaksFirst == Spec => []CredentialSpeaksFirst
<1>1. IInv => CredentialSpeaksFirst
  BY DEF IInv, Order, CredentialSpeaksFirst
<1> QED
  BY Invariance, <1>1, PTL

\* The failure "rollout state is inconsistent" of turn is unreachable: the loop never
\* makes a request that the adapter's own memory contradicts.
THEOREM Resumes == Spec => []ResumeIsConsistent
<1>1. IInv => Consistent(Wanted)
  <2> SUFFICES ASSUME IInv PROVE Consistent(Wanted)
    OBVIOUS
  <2>1. Wanted = None <=> returned = <<>>
    BY WantedIsThread DEF IInv
  <2> QED
    BY <2>1 DEF IInv, Memory, Consistent, Wanted
<1>2. Init => ResumeIsConsistent
  BY DEF Init, ResumeIsConsistent
<1>3. IInv /\ ResumeIsConsistent /\ [Next]_vars => ResumeIsConsistent'
  <2> SUFFICES ASSUME IInv, ResumeIsConsistent, [Next]_vars PROVE outcome' # "inconsistent"
    BY DEF ResumeIsConsistent
  <2>1. CASE Ask
    BY <1>1, <2>1 DEF Ask, ResumeIsConsistent
  <2>2. CASE Raise
    BY <2>2 DEF Raise, Fail, FirstOf
  <2>3. CASE Launch \/ Return
    BY <2>3 DEF Launch, Return, Fail, ResumeIsConsistent
  <2>4. CASE UNCHANGED outcome
    BY <2>4 DEF ResumeIsConsistent
  <2>5. Next => Ask \/ Raise \/ Launch \/ Return \/ UNCHANGED outcome
    BY DEF Next, Step, CliEnds, Attach, Reconcile, Refresh, Sink, Over, CliStep, WriteLine,
           TearLine, Rewrite, LeaveBeside, Rotate, Running, vars
  <2> QED
    BY <2>1, <2>2, <2>3, <2>4, <2>5 DEF vars
<1> QED
  BY Invariance, <1>2, <1>3, PTL DEF Spec

\* What was accepted of a thread is only ever extended, by one whole turn at a time, and
\* its bytes stay.
THEOREM Kept == Spec => PastIsKept
<1> DEFINE Extends ==
      memory' # memory =>
        /\ Len(memory'.turns) = Len(memory.turns) + 1
        /\ StartsWith(memory'.turns, memory.turns)
        /\ memory # Fresh => /\ memory'.thread = memory.thread
                             /\ StartsWith(memory'.prefix, memory.prefix)
<1>1. IInv /\ [Next]_vars => [Extends]_vars
  <2> SUFFICES ASSUME IInv, [Next]_vars, memory' # memory PROVE Extends
    OBVIOUS
  <2>1. Return
    BY DEF Next, Step, Ask, Launch, CliEnds, Attach, Reconcile, Refresh, Sink, Raise, Over,
           CliStep, WriteLine, TearLine, Rewrite, LeaveBeside, Rotate, Running, vars
  <2>2. /\ pc = "decide" /\ held = {} /\ evidence # NoEvidence
        /\ memory' = [thread |-> said.thread, turns |-> evidence.turns,
                      prefix |-> evidence.lines]
    BY <2>1 DEF Return, Remember
  <2>3. /\ Attest /\ said \in Result /\ asked = Wanted
        /\ asked # None => said.thread = asked
        /\ Len(evidence.turns) = Len(Witness.turns) + 1
        /\ StartsWith(evidence.turns, Witness.turns)
        /\ StartsWith(evidence.lines, Witness.lines)
    BY <2>2 DEF IInv, Turning, Asking
  <2>4. Wanted = None <=> returned = <<>>
    BY WantedIsThread DEF IInv
  <2>5. CASE asked = None
    <3>1. memory = Fresh
      BY <2>3, <2>4, <2>5 DEF IInv, Memory
    <3>2. memory.turns = <<>> /\ Witness.turns = <<>>
      BY <2>5, <3>1 DEF Witness, Fresh
    <3> QED
      BY <2>2, <2>3, <3>1, <3>2
  <2>6. CASE asked # None
    BY <2>2, <2>3, <2>4, <2>6 DEF IInv, Memory, Witness, Wanted
  <2> QED
    BY <2>5, <2>6
<1> QED
  BY Invariance, <1>1, PTL DEF Spec, PastIsKept

------------------------------------------------------------------------------
(***************************************************************************)
(* Types, which rest on what the parser returns.                           *)
(***************************************************************************)
LEMMA LastTurn ==
  \A s \in Seq(Turn) :
    s # <<>> => LastOf(s) \in Turn /\ Len(s) \in 1 .. Len(s) /\ LastOf(s) = s[Len(s)]
BY DEF LastOf

LEMMA EvidenceTyped ==
  ASSUME NEW thread \in Thread, NEW lines \in Seq(Line), Finished(Scan(thread, lines))
  PROVE  Evidence(thread, lines) \in Proof
<1> DEFINE learnt == Scan(thread, lines)
<1>1. learnt \in Knowledge
  BY FinishedIsWhole
<1>2. learnt.distinct \in Seq(Turn) /\ learnt.distinct # <<>>
  BY <1>1 DEF Finished, Knowledge
<1>3. LastOf(learnt.distinct) \in Turn
  BY <1>2, LastTurn
<1>4. learnt.sel[LastOf(learnt.distinct)] \in Selection \cup {None}
  BY <1>1, <1>3 DEF Knowledge
<1> HIDE DEF learnt
<1> QED
  BY <1>2, <1>4 DEF Evidence, Proof, learnt

\* The CLI works on a thread.
Working == pc = "run" => cli \in Thread

LEMMA InitTypes == Init => TypeOK /\ Working
<1> SUFFICES ASSUME Init PROVE TypeOK /\ Working
  OBVIOUS
<1>1. /\ memory \in [thread : Thread \cup {None}, turns : Seq(Turn),
                     prefix : Seq(Line) \cup {None}]
      /\ evidence \in Proof /\ rollout \in [Thread -> Seq(Line) \cup {None}]
  BY DEF Init, Fresh, NoEvidence, Proof
<1>2. /\ returned \in Seq(Result)
      /\ gen \in 0 .. MaxGen /\ settled \in 0 .. MaxGen /\ known \in 0 .. MaxGen
  BY BoundAssumption DEF Init
<1> QED
  BY <1>1, <1>2 DEF Init, TypeOK, Working

LEMMA TypesNext == IInv /\ TypeOK /\ Working /\ [Next]_vars => TypeOK' /\ Working'
<1> SUFFICES ASSUME IInv, TypeOK, Working, [Next]_vars PROVE TypeOK' /\ Working'
  OBVIOUS
<1>1. CASE Ask
  <2>1. asked' \in Thread \cup {None}
    BY <1>1, ResultThread, LastResult DEF Ask, Wanted, TypeOK
  <2>2. evidence' \in Proof /\ said' \in Result \cup {None} /\ held' = {} /\ captured' = FALSE
    BY <1>1 DEF Ask, NoEvidence, Proof
  <2>3. pc' \in {"launch", "over"} /\ outcome' \in {outcome, "inconsistent"} /\ retained' = FALSE
    BY <1>1 DEF Ask, Fail
  <2>4. UNCHANGED <<memory, rollout, torn, beside, cli, gen, settled, known, returned>>
    BY <1>1 DEF Ask, session, credential
  <2> QED
    BY <2>1, <2>2, <2>3, <2>4 DEF TypeOK, Working
<1>2. CASE Launch
  <2>1. cli' \in Thread \cup {None} /\ known' \in 0 .. MaxGen
    BY <1>2 DEF Launch, TypeOK
  <2>2. /\ pc' \in {"run", "decide", "over"} /\ held' \subseteq Errors
        /\ outcome' \in {outcome, "refresh", "author_timeout"}
    BY <1>2 DEF Launch, Fail, TypeOK, Errors
  <2>3. pc' = "run" => cli' \in Thread
    BY <1>2 DEF Launch, Fail
  <2>4. UNCHANGED <<memory, asked, said, evidence, captured, rollout, torn, beside, gen, settled,
                    retained, returned>>
    BY <1>2 DEF Launch
  <2> QED
    BY <2>1, <2>2, <2>3, <2>4 DEF TypeOK, Working, Errors
<1>3. CASE CliEnds
  BY <1>3 DEF CliEnds, session, credential, TypeOK, Working, Errors
<1>4. CASE Attach
  <2>1. UNCHANGED <<memory, asked, captured, session, credential, retained, returned, outcome>>
        /\ pc' = "reconcile"
    BY <1>4 DEF Attach
  <2>2. held' \subseteq Errors
    BY <1>4 DEF Attach, TypeOK, Errors
  <2>3. said' \in Result \cup {None} /\ evidence' \in Proof
    <3>1. CASE said' = None /\ UNCHANGED evidence
      BY <3>1 DEF TypeOK
    <3>2. CASE /\ Attested(said)
               /\ evidence' = Evidence(said.thread, rollout[said.thread])
               /\ said' = [said EXCEPT !.sel = Requested]
      <4>1. said \in Result /\ said.thread \in Thread
        BY <1>4, ResultThread DEF Attach, IInv, Turning, Order
      <4>2. /\ rollout[said.thread] \in Seq(Line)
            /\ Finished(Scan(said.thread, rollout[said.thread]))
        BY <3>2, <4>1 DEF Attested, Found, Accepts, TypeOK
      <4>3. evidence' \in Proof
        BY <3>2, <4>1, <4>2, EvidenceTyped
      <4>4. said' \in Result
        BY <3>2, <4>1, RequestedAssumption DEF Result
      <4> QED
        BY <4>3, <4>4
    <3> QED
      BY <1>4, <3>1, <3>2 DEF Attach
  <2> QED
    BY <2>1, <2>2, <2>3 DEF TypeOK, Working, session, credential
<1>5. CASE Reconcile
  <2>1. /\ UNCHANGED <<memory, asked, said, evidence, captured, session, returned, outcome>>
        /\ pc' = "refresh" /\ held' \subseteq Errors /\ retained' \in BOOLEAN
    BY <1>5 DEF Reconcile, TypeOK, Errors
  <2>2. gen' \in 0 .. MaxGen /\ settled' \in 0 .. MaxGen /\ known' \in 0 .. MaxGen
    BY <1>5 DEF Reconcile, TypeOK
  <2> QED
    BY <2>1, <2>2 DEF TypeOK, Working, session
<1>6. CASE Refresh
  <2>1. /\ UNCHANGED <<memory, asked, said, evidence, captured, session, returned, outcome>>
        /\ pc' = "sink" /\ held' \subseteq Errors /\ retained' \in BOOLEAN
    BY <1>6 DEF Refresh, TypeOK, Errors
  <2>2. gen' \in 0 .. MaxGen /\ settled' \in 0 .. MaxGen /\ known' \in 0 .. MaxGen
    BY <1>6 DEF Refresh, TypeOK
  <2> QED
    BY <2>1, <2>2 DEF TypeOK, Working, session
<1>7. CASE Sink
  <2>1. /\ UNCHANGED <<memory, asked, said, evidence, captured, session, returned, outcome>>
        /\ pc' = "decide" /\ held' \subseteq Errors /\ retained' \in BOOLEAN
    BY <1>7 DEF Sink, TypeOK, Errors
  <2>2. gen' \in 0 .. MaxGen /\ settled' \in 0 .. MaxGen /\ known' \in 0 .. MaxGen
    BY <1>7 DEF Sink, TypeOK
  <2> QED
    BY <2>1, <2>2 DEF TypeOK, Working, session
<1>8. CASE Raise
  BY <1>8 DEF Raise, Fail, FirstOf, turn, session, credential, TypeOK, Working, Errors
<1>9. CASE Return
  <2>1. UNCHANGED <<turn, session, credential, retained>> /\ pc = "decide" /\ held = {}
    BY <1>9 DEF Return
  <2>2. CASE Fail("persist") /\ UNCHANGED <<memory, returned>>
    BY <2>1, <2>2 DEF Fail, TypeOK, Working, turn, session, credential
  <2>3. CASE Remember /\ returned' = Append(returned, said) /\ pc' = "idle" /\ UNCHANGED outcome
    <3>1. said \in Result /\ said.thread \in Thread
      BY <2>1, ResultThread DEF IInv, Turning
    <3>2. returned' \in Seq(Result)
      BY <2>3, <3>1 DEF TypeOK
    <3>3. memory' \in [thread : Thread \cup {None}, turns : Seq(Turn),
                       prefix : Seq(Line) \cup {None}]
      BY <2>3, <3>1 DEF Remember, TypeOK, Proof
    <3> QED
      BY <2>1, <2>3, <3>2, <3>3 DEF TypeOK, Working, turn, session, credential
  <2> QED
    BY <1>9, <2>2, <2>3 DEF Return
<1>10. CASE CliStep
  <2>1. /\ pc = "run" /\ cli \in Thread
        /\ UNCHANGED <<pc, memory, turn, cli, settled, known, retained, returned, outcome>>
    BY <1>10 DEF CliStep, WriteLine, TearLine, Rewrite, LeaveBeside, Rotate, Running, Working
  <2>2. rollout' \in [Thread -> Seq(Line) \cup {None}]
    <3>1. CASE WriteLine
      BY <2>1, <3>1 DEF WriteLine, Written, LinesOf, TypeOK
    <3>2. CASE Rewrite
      <4>1. rollout[cli] \in Seq(Line) /\ Written = rollout[cli]
        BY <2>1, <3>2 DEF Rewrite, TypeOK, Written, LinesOf
      <4>2. PICK i \in 1 .. Len(rollout[cli]) :
              rollout' = [rollout EXCEPT ![cli] =
                            SubSeq(rollout[cli], 1, i - 1)
                              \o SubSeq(rollout[cli], i + 1, Len(rollout[cli]))]
        BY <2>1, <3>2, <4>1 DEF Rewrite, TypeOK
      <4>3. /\ SubSeq(rollout[cli], 1, i - 1) \in Seq(Line)
            /\ SubSeq(rollout[cli], i + 1, Len(rollout[cli])) \in Seq(Line)
        BY <4>1
      <4>4. SubSeq(rollout[cli], 1, i - 1) \o SubSeq(rollout[cli], i + 1, Len(rollout[cli]))
              \in Seq(Line)
        BY <4>3
      <4> QED
        BY <2>1, <4>2, <4>4 DEF TypeOK
    <3>3. CASE TearLine \/ LeaveBeside \/ Rotate
      BY <3>3 DEF TearLine, LeaveBeside, Rotate, TypeOK
    <3> QED
      BY <1>10, <3>1, <3>2, <3>3 DEF CliStep
  <2>3. torn' \in BOOLEAN /\ beside' \subseteq Beside /\ gen' \in 0 .. MaxGen
    <3>1. \/ torn' \in {torn, TRUE} /\ UNCHANGED <<beside, gen>>
          \/ LeaveBeside
          \/ Rotate
      BY <1>10 DEF CliStep, WriteLine, TearLine, Rewrite
    <3>2. CASE LeaveBeside
      BY <3>2 DEF LeaveBeside, TypeOK
    <3>3. CASE Rotate
      BY <3>3, BoundAssumption DEF Rotate, TypeOK
    <3> QED
      BY <3>1, <3>2, <3>3 DEF TypeOK
  <2> QED
    BY <2>1, <2>2, <2>3 DEF TypeOK, Working, turn
<1>11. CASE Over \/ UNCHANGED vars
  BY <1>11 DEF Over, vars, turn, session, credential, TypeOK, Working
<1> QED
  BY <1>1, <1>2, <1>3, <1>4, <1>5, <1>6, <1>7, <1>8, <1>9, <1>10, <1>11 DEF Next, Step

------------------------------------------------------------------------------
(***************************************************************************)
(* The rollouts that were accepted.                                        *)
(***************************************************************************)
\* A rollout of whole turns of this thread, all of which ran with the requested
\* selection.
Vouched(thread, lines, turns) ==
  /\ thread \in Thread /\ lines \in Seq(Line)
  /\ Whole(thread, lines) /\ turns = TurnsOf(lines)
  /\ \A i \in 1 .. Len(turns) : SelectionOf(lines, turns[i]) = Requested

\* So is what the adapter remembers, and what it is about to.
Vouching ==
  /\ Attest /\ returned # <<>> => Vouched(memory.thread, memory.prefix, memory.turns)
  /\ Attest => /\ Len(returned) = Len(memory.turns)
               /\ \A i \in 1 .. Len(returned) :
                    returned[i] = [thread |-> memory.thread, sel |-> Requested]
  /\ pc \in {"reconcile", "refresh", "sink", "decide"} /\ held = {} /\ Attest =>
       Vouched(said.thread, evidence.lines, evidence.turns) /\ said.sel = Requested

AInv == IInv /\ TypeOK /\ Working /\ Vouching

LEMMA NoTurns == TurnsOf(<<>>) = <<>>
<1>1. Len(<<>>) = 0 /\ 0 \in Nat
  OBVIOUS
<1>2. \E f : f[0] = <<>> /\ TurnsOf(<<>>) = f[Len(<<>>)]
  BY <1>1, TurnsUnfold
<1> QED
  BY <1>1, <1>2

\* The accepted past that the parser is given.
LEMMA WitnessIs ==
  ASSUME AInv, Attest, pc \in Asking
  PROVE  /\ Witness.lines \in Seq(Line) /\ Witness.turns \in Seq(Turn)
         /\ Witness.turns = TurnsOf(Witness.lines)
         /\ asked = None => Witness = [turns |-> <<>>, lines |-> <<>>] /\ returned = <<>>
         /\ asked # None => /\ returned # <<>> /\ asked = memory.thread
                            /\ Vouched(asked, Witness.lines, Witness.turns)
<1> USE DEF AInv
<1>1. asked = Wanted /\ (Wanted = None <=> returned = <<>>)
  BY WantedIsThread DEF IInv, Turning
<1>2. CASE asked = None
  BY <1>1, <1>2, NoTurns DEF Witness
<1>3. CASE asked # None
  <2>1. returned # <<>> /\ asked = memory.thread
    BY <1>1, <1>3 DEF IInv, Memory, Wanted
  <2>2. Witness.lines = memory.prefix /\ Witness.turns = memory.turns
    BY <1>3 DEF Witness
  <2>3. Vouched(memory.thread, memory.prefix, memory.turns) /\ memory.turns \in Seq(Turn)
    BY <2>1 DEF Vouching, TypeOK
  <2> QED
    BY <1>3, <2>1, <2>2, <2>3 DEF Vouched
<1> QED
  BY <1>2, <1>3

\* What a rollout told before, it tells when it has grown.
LEMMA PastStays ==
  ASSUME NEW thread \in Thread, NEW lines \in Seq(Line), NEW other \in Thread,
         NEW past \in Seq(Line), Whole(thread, lines), Whole(other, past),
         StartsWith(lines, past), NEW i \in 1 .. Len(TurnsOf(past))
  PROVE  SelectionOf(lines, TurnsOf(past)[i]) = SelectionOf(past, TurnsOf(past)[i])
<1>1. Finished(Scan(other, past))
  BY WholeIsFinished
<1>2. ContextsOf(past, TurnsOf(past)[i]) # {}
  BY <1>1, FinishedIsWhole
<1>3. past = SubSeq(lines, 1, Len(past)) /\ Len(past) \in 0 .. Len(lines)
  BY StartsWithItself
<1> DEFINE c == Len(past)
           t == TurnsOf(past)[i]
<1> HIDE DEF c, t
<1>4. past = SubSeq(lines, 1, c) /\ c \in 0 .. Len(lines) /\ ContextsOf(past, t) # {}
  BY <1>2, <1>3 DEF c, t
<1>5. SelectionOf(lines, t) = SelectionOf(past, t)
  BY <1>4, SelectionStays
<1> QED
  BY <1>5 DEF t

\* A rollout that is attested vouches for all its turns.
LEMMA AttestedVouches ==
  ASSUME AInv, Attest, pc = "attach", NEW result \in Result, Attested(result)
  PROVE  LET e == Evidence(result.thread, rollout[result.thread]) IN
         Vouched(result.thread, e.lines, e.turns)
<1> DEFINE thread == result.thread
           lines == rollout[thread]
           learnt == Scan(thread, lines)
           e == Evidence(thread, lines)
<1>1. thread \in Thread /\ lines \in Seq(Line)
  BY DEF Result, Attested, Found, AInv, TypeOK
<1>2. /\ Finished(learnt) /\ Advances(Witness, learnt.distinct)
      /\ StartsWith(lines, Witness.lines)
      /\ e.turns = learnt.distinct /\ e.lines = lines
      /\ e.sel = learnt.sel[LastOf(learnt.distinct)] /\ e.sel = Requested
  BY DEF Attested, Accepts, Preserves, Evidence
<1>3. /\ learnt \in Knowledge /\ Whole(thread, lines) /\ learnt.distinct = TurnsOf(lines)
      /\ \A i \in 1 .. Len(learnt.distinct) :
           learnt.sel[learnt.distinct[i]] = SelectionOf(lines, learnt.distinct[i])
  BY <1>1, <1>2, FinishedIsWhole
<1> DEFINE turns == TurnsOf(lines)
<1>4. turns \in Seq(Turn) /\ turns # <<>>
  BY <1>2, <1>3 DEF Finished, Knowledge
<1>5. /\ Witness.lines \in Seq(Line) /\ Witness.turns \in Seq(Turn)
      /\ Witness.turns = TurnsOf(Witness.lines)
      /\ asked = None => Witness.turns = <<>>
      /\ asked # None => asked \in Thread /\ Vouched(asked, Witness.lines, Witness.turns)
  BY WitnessIs DEF Asking, Vouched
<1>6. /\ Len(turns) = Len(Witness.turns) + 1
      /\ \A i \in 1 .. Len(Witness.turns) : turns[i] = Witness.turns[i]
  <2>1. Len(turns) = Len(Witness.turns) + 1 /\ StartsWith(turns, Witness.turns)
    BY <1>2, <1>3 DEF Advances
  <2>2. /\ Witness.turns = SubSeq(turns, 1, Len(Witness.turns))
        /\ Len(Witness.turns) \in 0 .. Len(turns)
    BY <1>4, <1>5, <2>1, StartsWithItself
  <2> QED
    BY <1>4, <2>1, <2>2
<1> HIDE DEF turns, e, learnt, lines
<1>7. ASSUME NEW i \in 1 .. Len(turns) PROVE SelectionOf(lines, turns[i]) = Requested
  <2>1. CASE i = Len(turns)
    <3>1. learnt.distinct = turns /\ LastOf(turns) = turns[i]
      BY <1>3, <2>1 DEF LastOf, turns
    <3> QED
      BY <1>2, <1>3, <3>1
  <2>2. CASE i # Len(turns)
    <3>1. i \in 1 .. Len(Witness.turns) /\ turns[i] = Witness.turns[i]
      BY <1>4, <1>5, <1>6, <2>2
    <3>2. asked # None
      BY <1>5, <3>1
    <3>3. SelectionOf(Witness.lines, Witness.turns[i]) = Requested /\ Whole(asked, Witness.lines)
      BY <1>5, <3>1, <3>2 DEF Vouched
    <3>4. SelectionOf(lines, Witness.turns[i]) = SelectionOf(Witness.lines, Witness.turns[i])
      BY <1>1, <1>2, <1>3, <1>5, <3>1, <3>2, <3>3, PastStays DEF lines
    <3> QED
      BY <3>1, <3>3, <3>4
  <2> QED
    BY <2>1, <2>2
<1> QED
  BY <1>1, <1>2, <1>3, <1>7 DEF Vouched, turns, e, learnt, lines

LEMMA VouchingNext == AInv /\ [Next]_vars => Vouching'
<1> SUFFICES ASSUME AInv, [Next]_vars PROVE Vouching'
  OBVIOUS
<1> DEFINE Checked == {"reconcile", "refresh", "sink", "decide"}
<1>1. CASE Attach
  <2>1. UNCHANGED <<memory, returned>>
    BY <1>1 DEF Attach
  <2>2. CASE Attested(said) /\ Attest
    <3>1. said \in Result /\ pc = "attach"
      BY <1>1 DEF Attach, AInv, IInv, Turning, Order
    <3> DEFINE e == Evidence(said.thread, rollout[said.thread])
    <3>2. Vouched(said.thread, e.lines, e.turns)
      BY <2>2, <3>1, AttestedVouches
    <3>3. evidence' = e /\ said' = [said EXCEPT !.sel = Requested]
      BY <1>1, <2>2 DEF Attach
    <3>4. said'.thread = said.thread /\ said'.sel = Requested
      BY <3>1, <3>3 DEF Result
    <3> HIDE DEF e
    <3> QED
      BY <2>1, <3>2, <3>3, <3>4 DEF Vouching, AInv, Vouched
  <2>3. CASE ~Attested(said)
    <3>1. held' # {}
      BY <1>1, <2>3 DEF Attach
    <3> QED
      BY <2>1, <3>1 DEF Vouching, AInv, Vouched
  <2>4. CASE ~Attest
    BY <2>4 DEF Vouching
  <2> QED
    BY <2>2, <2>3, <2>4
<1>2. CASE Return /\ Attest /\ ~UNCHANGED <<memory, returned>>
  <2>1. /\ pc = "decide" /\ held = {} /\ pc' = "idle" /\ Remember
        /\ returned' = Append(returned, said)
    BY <1>2 DEF Return
  <2>2. /\ Vouched(said.thread, evidence.lines, evidence.turns) /\ said.sel = Requested
        /\ said \in Result /\ evidence # NoEvidence
        /\ Len(evidence.turns) = Len(Witness.turns) + 1
        /\ asked # None => said.thread = asked
    BY <1>2, <2>1 DEF AInv, Vouching, IInv, Turning
  <2>3. memory' = [thread |-> said.thread, turns |-> evidence.turns, prefix |-> evidence.lines]
    BY <2>1, <2>2 DEF Remember
  <2>4. said = [thread |-> said.thread, sel |-> Requested]
    BY <2>2 DEF Result
  <2>5. returned \in Seq(Result) /\ Len(returned) = Len(memory.turns)
    BY <1>2 DEF AInv, TypeOK, Vouching
  <2>6. Len(evidence.turns) = Len(returned) + 1
    <3>1. CASE asked = None
      <4>1. Witness.turns = <<>> /\ returned = <<>>
        BY <1>2, <2>1, <3>1, WitnessIs DEF Asking
      <4> QED
        BY <2>2, <4>1
    <3>2. CASE asked # None
      BY <2>2, <2>5, <3>2 DEF Witness
    <3> QED
      BY <3>1, <3>2
  <2>7. \A i \in 1 .. Len(returned) : returned[i] = [thread |-> said.thread, sel |-> Requested]
    <3>1. CASE asked = None
      <4>1. returned = <<>>
        BY <1>2, <2>1, <3>1, WitnessIs DEF Asking
      <4> QED
        BY <4>1
    <3>2. CASE asked # None
      <4>1. said.thread = memory.thread
        BY <1>2, <2>1, <2>2, <3>2, WitnessIs DEF Asking
      <4> QED
        BY <1>2, <4>1 DEF AInv, Vouching
    <3> QED
      BY <3>1, <3>2
  <2>8. Len(returned') = Len(evidence.turns)
    BY <2>1, <2>2, <2>5, <2>6
  <2>9. \A i \in 1 .. Len(returned') : returned'[i] = [thread |-> said.thread, sel |-> Requested]
    <3> TAKE i \in 1 .. Len(returned')
    <3>1. CASE i \in 1 .. Len(returned)
      BY <2>1, <2>2, <2>5, <2>7, <3>1
    <3>2. CASE i = Len(returned) + 1
      BY <2>1, <2>2, <2>4, <2>5, <3>2
    <3> QED
      BY <2>1, <2>2, <2>5, <3>1, <3>2
  <2> QED
    BY <2>1, <2>2, <2>3, <2>8, <2>9 DEF Vouching, Vouched
<1>3. CASE UNCHANGED <<memory, returned>> /\ ~Attach
  <2>1. ASSUME pc' \in Checked, held' = {}, Attest
        PROVE  pc \in Checked /\ held = {} /\ UNCHANGED <<said, evidence>>
    <3>1. CASE CliEnds
      <4>1. pc' = "attach" \/ held' # {}
        BY <2>1, <3>1 DEF CliEnds
      <4> QED
        BY <2>1, <4>1
    <3>2. CASE CliStep
      <4>1. pc = "run" /\ pc' = pc
        BY <3>2 DEF CliStep, WriteLine, TearLine, Rewrite, LeaveBeside, Rotate, Running
      <4> QED
        BY <2>1, <4>1
    <3>3. CASE Ask \/ Launch
      <4>1. pc' \notin Checked \/ held' # {}
        BY <3>3 DEF Ask, Launch, Fail
      <4> QED
        BY <2>1, <4>1
    <3>4. CASE Reconcile
      BY <2>1, <3>4 DEF Reconcile
    <3>5. CASE Refresh
      BY <2>1, <3>5 DEF Refresh
    <3>6. CASE Sink
      BY <2>1, <3>6 DEF Sink
    <3>7. CASE Raise \/ Return
      BY <2>1, <3>7 DEF Raise, Return, Fail, turn
    <3>8. CASE Over \/ UNCHANGED vars
      BY <2>1, <3>8 DEF Over, vars, turn
    <3> QED
      BY <1>3, <3>1, <3>2, <3>3, <3>4, <3>5, <3>6, <3>7, <3>8 DEF Next, Step
  <2> QED
    BY <1>3, <2>1 DEF Vouching, AInv, Vouched
<1>4. CASE ~Attest
  BY <1>4 DEF Vouching
<1>5. Next => UNCHANGED <<memory, returned>> \/ Return
  BY DEF Next, Step, Ask, Launch, CliEnds, Attach, Reconcile, Refresh, Sink, Raise, Over,
         CliStep, WriteLine, TearLine, Rewrite, LeaveBeside, Rotate, Running, vars
<1> QED
  BY <1>1, <1>2, <1>3, <1>4, <1>5 DEF vars

LEMMA RolloutInvariance == Spec => []AInv
<1>1. Init => AInv
  BY InitIInv, InitTypes DEF Init, AInv, Vouching, Fresh
<1>2. AInv /\ [Next]_vars => AInv'
  <2> SUFFICES ASSUME AInv, [Next]_vars PROVE AInv'
    OBVIOUS
  <2>1. IInv' /\ TypeOK' /\ Working'
    BY OrderNext, MemoryNext, TurningNext, TypesNext DEF AInv, IInv
  <2> QED
    BY <2>1, VouchingNext DEF AInv
<1> QED
  BY <1>1, <1>2, PTL DEF Spec

------------------------------------------------------------------------------
\* Every state of a turn is typed: what the parser returns is a piece of evidence,
\* whatever the CLI wrote.
THEOREM AuthorTypeCorrect == Spec => []TypeOK
<1>1. AInv => TypeOK
  BY DEF AInv
<1> QED
  BY RolloutInvariance, <1>1, PTL

\* Every turn the loop was given is a whole turn of the one thread's rollout, in order, and
\* ran with the requested selection: of the turns that were accepted earlier that stays
\* true in every rollout that is accepted later.
THEOREM AlwaysAttested == Spec => []EveryTurnAttested
<1>1. ASSUME AInv PROVE EveryTurnAttested
  <2>1. ASSUME Attest, returned # <<>>
        PROVE  /\ Whole(memory.thread, memory.prefix)
               /\ TurnsOf(memory.prefix) = memory.turns
               /\ \A i \in 1 .. Len(memory.turns) :
                    SelectionOf(memory.prefix, memory.turns[i]) = Requested
    BY <1>1, <2>1 DEF AInv, Vouching, Vouched
  <2> QED
    BY <1>1, <2>1 DEF AInv, Vouching, EveryTurnAttested
<1> QED
  BY RolloutInvariance, <1>1, PTL

LEMMA TakenExactly ==
  ASSUME AInv, Attest, pc = "attach", NEW thread \in Thread, NEW lines \in Seq(Line)
  PROVE  TakesExactly(thread, lines)
<1> DEFINE turns == TurnsOf(lines)
           learnt == Scan(thread, lines)
           e == Evidence(thread, lines)
           taken == Accepts(thread, Witness, lines, Torn(thread))
<1>1. /\ Witness.lines \in Seq(Line) /\ Witness.turns = TurnsOf(Witness.lines)
      /\ Witness.turns \in Seq(Turn)
  BY WitnessIs DEF Asking
<1>2. taken <=> /\ ~Torn(thread) /\ Len(lines) > Len(Witness.lines)
                /\ StartsWith(lines, Witness.lines)
                /\ Finished(learnt) /\ Advances(Witness, learnt.distinct)
  BY DEF Accepts, Preserves
<1>3. Finished(learnt) <=> Whole(thread, lines)
  BY FinishedIsWhole, WholeIsFinished
<1>4. Finished(learnt) =>
        /\ learnt \in Knowledge /\ learnt.distinct = turns
        /\ \A i \in 1 .. Len(learnt.distinct) :
             learnt.sel[learnt.distinct[i]] = SelectionOf(lines, learnt.distinct[i])
  BY FinishedIsWhole
\* The past is shorter, or it would tell as many turns.
<1>5. StartsWith(lines, Witness.lines) /\ Len(turns) = Len(Witness.turns) + 1
        => Len(lines) > Len(Witness.lines)
  <2>1. SUFFICES ASSUME StartsWith(lines, Witness.lines), Len(turns) = Len(Witness.turns) + 1,
                        ~(Len(lines) > Len(Witness.lines))
                 PROVE  FALSE
    OBVIOUS
  <2>2. Len(Witness.lines) = Len(lines)
    BY <1>1, <2>1 DEF StartsWith
  <2>3. Witness.lines = lines
    BY <1>1, <2>1, <2>2, StartsWithItself
  <2> QED
    BY <1>1, <2>1, <2>3
<1>6. e.turns = learnt.distinct /\ e.sel = learnt.sel[LastOf(learnt.distinct)]
  BY DEF Evidence
<1>7. taken => e.turns = turns /\ e.sel = SelectionOf(lines, LastOf(turns))
  <2> SUFFICES ASSUME taken PROVE e.turns = turns /\ e.sel = SelectionOf(lines, LastOf(turns))
    OBVIOUS
  <2>1. Finished(learnt)
    BY <1>2
  <2>2. learnt.distinct \in Seq(Turn) /\ learnt.distinct # <<>>
    BY <1>4, <2>1 DEF Finished, Knowledge
  <2>3. Len(learnt.distinct) \in 1 .. Len(learnt.distinct)
        /\ LastOf(learnt.distinct) = learnt.distinct[Len(learnt.distinct)]
    BY <2>2, LastTurn
  <2>4. learnt.sel[LastOf(learnt.distinct)] = SelectionOf(lines, LastOf(learnt.distinct))
    BY <1>4, <2>1, <2>3
  <2> QED
    BY <1>4, <1>6, <2>1, <2>4
<1> HIDE DEF turns, learnt, e
<1>8. taken <=> /\ ~Torn(thread) /\ StartsWith(lines, Witness.lines) /\ Whole(thread, lines)
                /\ Len(turns) = Len(Witness.turns) + 1 /\ StartsWith(turns, Witness.turns)
  <2>1. Finished(learnt) => (Advances(Witness, learnt.distinct) <=>
          Len(turns) = Len(Witness.turns) + 1 /\ StartsWith(turns, Witness.turns))
    BY <1>4 DEF Advances
  <2> HIDE DEF taken
  <2> QED
    BY <1>2, <1>3, <1>5, <2>1, Zenon
<1> QED
  BY <1>7, <1>8 DEF TakesExactly, turns, e

LEMMA CutsAgree ==
  ASSUME AInv, Attest, pc = "attach", NEW thread \in Thread, NEW lines \in Seq(Line)
  PROVE  CutNeverCounts(thread, lines)
<1> SUFFICES ASSUME NEW k \in 1 .. Len(lines) - 1,
                    Accepts(thread, Witness, lines, FALSE),
                    Accepts(thread, Witness, SubSeq(lines, 1, k), FALSE)
             PROVE  /\ Evidence(thread, SubSeq(lines, 1, k)).turns = Evidence(thread, lines).turns
                    /\ Evidence(thread, SubSeq(lines, 1, k)).sel = Evidence(thread, lines).sel
  BY DEF CutNeverCounts
<1> DEFINE cut == SubSeq(lines, 1, k)
           all == Scan(thread, lines)
           some == Scan(thread, cut)
<1>1. k \in 0 .. Len(lines)
  OBVIOUS
<1>2. /\ cut \in Seq(Line) /\ TurnsOf(cut) \in Seq(Turn) /\ TurnsOf(lines) \in Seq(Turn)
      /\ \A i \in 1 .. Len(TurnsOf(cut)) : TurnsOf(cut)[i] = TurnsOf(lines)[i]
  BY <1>1, TurnsGrow
<1>3. /\ Finished(all) /\ Len(all.distinct) = Len(Witness.turns) + 1
      /\ Finished(some) /\ Len(some.distinct) = Len(Witness.turns) + 1
  BY DEF Accepts, Advances
<1>4. /\ all.distinct = TurnsOf(lines) /\ Whole(thread, lines)
      /\ \A i \in 1 .. Len(all.distinct) :
           all.sel[all.distinct[i]] = SelectionOf(lines, all.distinct[i])
  BY <1>3, FinishedIsWhole
<1>5. /\ some.distinct = TurnsOf(cut) /\ some.distinct # <<>>
      /\ \A i \in 1 .. Len(some.distinct) :
           /\ ContextsOf(cut, some.distinct[i]) # {}
           /\ some.sel[some.distinct[i]] = SelectionOf(cut, some.distinct[i])
  BY <1>2, <1>3, FinishedIsWhole DEF Finished
<1> HIDE DEF all, some
<1>6. some.distinct = all.distinct /\ all.distinct \in Seq(Turn)
  BY <1>2, <1>3, <1>4, <1>5, SameTurns
<1> DEFINE n == Len(all.distinct)
           last == all.distinct[n]
<1>7. n \in 1 .. n /\ LastOf(all.distinct) = last
  BY <1>5, <1>6, LastTurn
<1>8. /\ all.sel[last] = SelectionOf(lines, last)
      /\ some.sel[last] = SelectionOf(cut, last)
      /\ ContextsOf(cut, last) # {}
  BY <1>4, <1>5, <1>6, <1>7
<1> HIDE DEF last, n
<1>9. SelectionOf(lines, last) = SelectionOf(cut, last)
  BY <1>1, <1>4, <1>8, SelectionStays
<1> QED
  BY <1>6, <1>7, <1>8, <1>9 DEF Evidence, all, some

\* parse_codex_rollout_selection is exact for a rollout of any length, with any threads,
\* turns and selections in it: it takes the rollouts of whole turns that keep the accepted
\* bytes and tell one turn more, no others, and reports that turn and its selection; and
\* one that is cut off at the end of a line is never taken for another turn.
THEOREM RolloutAlwaysExact == Spec => []RolloutExact
<1>1. ASSUME AInv PROVE RolloutExact
  <2> SUFFICES ASSUME pc = "attach", rollout[said.thread] # None
               PROVE  /\ TakesExactly(said.thread, rollout[said.thread])
                      /\ CutNeverCounts(said.thread, rollout[said.thread])
    BY DEF RolloutExact
  <2>1. said \in Result /\ said.thread \in Thread /\ Attest
    BY <1>1, ResultThread DEF AInv, IInv, Turning, Order
  <2>2. rollout[said.thread] \in Seq(Line)
    BY <1>1, <2>1 DEF AInv, TypeOK
  <2> QED
    BY <1>1, <2>1, <2>2, TakenExactly, CutsAgree
<1> QED
  BY RolloutInvariance, <1>1, PTL

------------------------------------------------------------------------------
(***************************************************************************)
(* The parsers of stdout, one event after another.                         *)
(***************************************************************************)
\* What an event is, by its kind.
LEMMA EventIs ==
  ASSUME NEW event \in Stream!Event
  PROVE  /\ event.kind \in {"thread", "started", "completed", "message", "sandbox", "refused",
                            "other", "malformed", "misframed", "failed", "error"}
         /\ event.kind = "thread" => event.thread \in Thread
         /\ event.kind \in Stream!Telling => event.fact \in Selection \cup {None}
         /\ event.kind = "failed" => event = [kind |-> "failed", cause |-> event.cause]
BY DEF Stream!Event, Stream!Told, Stream!Telling

Parsing(lines, f, n) ==
  f = [i \in 0 .. n |->
         IF i = 0 THEN Stream!Nothing ELSE Stream!Learn(f[i - 1], lines[i], i)]

LEMMA ParsingExists ==
  ASSUME NEW lines
  PROVE  \A n \in Nat : \E f : Parsing(lines, f, n)
<1> DEFINE T == {n \in Nat : \E f : Parsing(lines, f, n)}
<1>1. 0 \in T
  <2>1. Parsing(lines, [i \in 0 .. 0 |-> Stream!Nothing], 0)
    BY DEF Parsing
  <2> QED
    BY <2>1
<1>2. ASSUME NEW n \in Nat, n \in T PROVE n + 1 \in T
  <2>1. PICK f : Parsing(lines, f, n)
    BY <1>2
  <2> DEFINE Reads(learnt, line, i) == Stream!Learn(learnt, line, i)
             g == [i \in 0 .. n + 1 |->
                     IF i <= n THEN f[i] ELSE Reads(f[n], lines[n + 1], n + 1)]
  <2>2. \A i \in 0 .. n : f[i] = IF i = 0 THEN Stream!Nothing ELSE Reads(f[i - 1], lines[i], i)
    BY <2>1 DEF Parsing
  <2> HIDE DEF Reads
  <2>3. \A i \in 0 .. n + 1 :
          g[i] = IF i = 0 THEN Stream!Nothing ELSE Reads(g[i - 1], lines[i], i)
    <3> TAKE i \in 0 .. n + 1
    <3>1. CASE i = 0
      <4>1. 0 \in 0 .. n /\ 0 <= n /\ g[0] = f[0]
        OBVIOUS
      <4> QED
        BY <2>2, <3>1, <4>1
    <3>2. CASE i # 0 /\ i <= n
      <4>1. /\ i \in 0 .. n /\ i - 1 \in 0 .. n /\ i \in 0 .. n + 1
            /\ i - 1 \in 0 .. n + 1 /\ i - 1 <= n
        BY <3>2
      <4>2. g[i] = f[i] /\ g[i - 1] = f[i - 1]
        BY <3>2, <4>1
      <4> QED
        BY <2>2, <3>2, <4>1, <4>2
    <3>3. CASE i = n + 1
      <4>1. i - 1 = n /\ ~(i <= n) /\ n \in 0 .. n + 1 /\ g[n] = f[n] /\ i # 0
        BY <3>3
      <4> QED
        BY <3>3, <4>1
    <3> QED
      BY <3>1, <3>2, <3>3
  <2> HIDE DEF g
  <2>4. Parsing(lines, g, n + 1)
    BY <2>3 DEF Parsing, g, Reads
  <2> QED
    BY <2>4
<1> HIDE DEF T
<1>3. Nat \subseteq T
  BY <1>1, <1>2, Induct
<1> QED
  BY <1>3 DEF T

LEMMA ParseUnfolds ==
  ASSUME NEW lines, Len(lines) \in Nat
  PROVE  \E f : /\ f[0] = Stream!Nothing /\ Stream!Scan(lines) = f[Len(lines)]
                /\ \A i \in 1 .. Len(lines) : f[i] = Stream!Learn(f[i - 1], lines[i], i)
<1> DEFINE n == Len(lines)
           f == CHOOSE f : Parsing(lines, f, n)
<1>1. Parsing(lines, f, n)
  BY ParsingExists
<1>2. Stream!Scan(lines) = f[n]
  BY DEF Stream!Scan, Parsing
<1> HIDE DEF f
<1>3. \A i \in 0 .. n :
        f[i] = IF i = 0 THEN Stream!Nothing ELSE Stream!Learn(f[i - 1], lines[i], i)
  BY <1>1 DEF Parsing
<1>4. 0 \in 0 .. n /\ \A i \in 1 .. n : i \in 0 .. n /\ i # 0
  OBVIOUS
<1> QED
  BY <1>2, <1>3, <1>4, Zenon

\* What is known of the first n events, none of which was refused.
Unsound == {"malformed", "refused", "sandbox", "failed", "error"}
Facts == [thread : Thread \cup {None}, final : Nat, done : BOOLEAN,
          fact : Selection \cup {None},
          fault : {"none", "author_process_failure", "sandbox_setup_failure"}]

Opens(lines, n, learnt) ==
  /\ n = 0 => learnt.thread = None
  /\ n > 0 => lines[1].kind = "thread" /\ learnt.thread = lines[1].thread
  /\ \A i \in 2 .. n : lines[i].kind # "thread"
  /\ \A i \in 1 .. n : lines[i].kind \notin Unsound

Speaks(lines, n, learnt) ==
  /\ learnt.final > 0 => learnt.final \in 1 .. n /\ lines[learnt.final].kind = "message"
  /\ \A i \in 1 .. n : lines[i].kind = "message" => i <= learnt.final

Ends(lines, n, learnt) ==
  /\ learnt.done = TRUE => \E i \in 1 .. n : lines[i].kind = "completed"
  /\ \A i \in 1 .. n : lines[i].kind = "completed" =>
       /\ learnt.done = TRUE
       /\ \A j \in 1 .. n : lines[j].kind = "completed" => j = i

Tells(lines, n, learnt) ==
  /\ \A i \in 1 .. n :
       lines[i].kind \in Stream!Telling /\ lines[i].fact # None => lines[i].fact = learnt.fact
  /\ learnt.fact # None =>
       \E i \in 1 .. n : lines[i].kind \in Stream!Telling /\ lines[i].fact # None

Accounts(lines, n, learnt) ==
  /\ Opens(lines, n, learnt) /\ Speaks(lines, n, learnt)
  /\ Ends(lines, n, learnt) /\ Tells(lines, n, learnt)

LEMMA AccountsNothing ==
  ASSUME NEW lines
  PROVE  /\ Stream!Nothing \in Facts /\ Accounts(lines, 0, Stream!Nothing)
         /\ Stream!Nothing.fault = "none"
BY DEF Stream!Nothing, Facts, Accounts, Opens, Speaks, Ends, Tells

LEMMA LearnTyped ==
  ASSUME NEW learnt \in Facts, NEW event \in Stream!Event, NEW i \in Nat
  PROVE  LET now == Stream!Learn(learnt, event, i) IN
         /\ now \in Facts
         /\ now.thread = IF event.kind = "thread" THEN event.thread ELSE learnt.thread
         /\ now.final = IF event.kind = "message" THEN i ELSE learnt.final
         /\ now.done = TRUE <=> learnt.done = TRUE \/ event.kind = "completed"
         /\ now.fact = IF event.kind \in Stream!Telling /\ event.fact # None THEN event.fact
                       ELSE learnt.fact
         /\ now.fault = Stream!Fault(learnt, event)
<1> DEFINE now == Stream!Learn(learnt, event, i)
           thread == IF event.kind = "thread" THEN event.thread ELSE learnt.thread
           final == IF event.kind = "message" THEN i ELSE learnt.final
           done == learnt.done \/ event.kind = "completed"
           fact == IF event.kind \in Stream!Telling /\ event.fact # None THEN event.fact
                   ELSE learnt.fact
           fault == Stream!Fault(learnt, event)
<1>1. now = [thread |-> thread, final |-> final, done |-> done, fact |-> fact, fault |-> fault]
  BY DEF Stream!Learn
<1>2. thread \in Thread \cup {None} /\ final \in Nat /\ fact \in Selection \cup {None}
  BY EventIs DEF Facts
<1>3. fault \in {"none", "author_process_failure", "sandbox_setup_failure"}
  BY DEF Stream!Fault, Facts
<1>4. done \in BOOLEAN
  OBVIOUS
<1>5. learnt.done \in BOOLEAN
  BY DEF Facts
<1>6. done = TRUE <=> learnt.done = TRUE \/ event.kind = "completed"
  BY <1>5
<1> HIDE DEF thread, final, done, fact, fault, now
<1>7. now \in Facts
  BY <1>1, <1>2, <1>3, <1>4 DEF Facts
<1>8. /\ now.thread = thread /\ now.final = final /\ now.fact = fact /\ now.fault = fault
      /\ now.done = done
  BY <1>1
<1> QED
  BY <1>6, <1>7, <1>8 DEF thread, final, fact, fault, now

\* An event that is neither refused nor of the sandbox is accounted for.
LEMMA LearnsEvent ==
  ASSUME NEW lines \in Seq(Stream!Event), NEW n \in Nat, n + 1 \in 1 .. Len(lines),
         NEW learnt \in Facts, Accounts(lines, n, learnt),
         Stream!Learn(learnt, lines[n + 1], n + 1).fault = "none"
  PROVE  /\ learnt.fault = "none"
         /\ Accounts(lines, n + 1, Stream!Learn(learnt, lines[n + 1], n + 1))
<1> DEFINE event == lines[n + 1]
           now == Stream!Learn(learnt, event, n + 1)
<1>1. event \in Stream!Event
  OBVIOUS
<1>2. /\ now \in Facts
      /\ now.thread = IF event.kind = "thread" THEN event.thread ELSE learnt.thread
      /\ now.final = IF event.kind = "message" THEN n + 1 ELSE learnt.final
      /\ now.done = TRUE <=> learnt.done = TRUE \/ event.kind = "completed"
      /\ now.fact = IF event.kind \in Stream!Telling /\ event.fact # None THEN event.fact
                    ELSE learnt.fact
      /\ now.fault = Stream!Fault(learnt, event)
  <2>1. n + 1 \in Nat
    OBVIOUS
  <2> QED
    BY <1>1, <2>1, LearnTyped, Zenon
<1>3. learnt.fault = "none" /\ ~Stream!Refuses(learnt, event) /\ event.kind # "sandbox"
  <2>1. Stream!Fault(learnt, event) = "none"
    BY <1>2
  <2> QED
    BY <2>1 DEF Stream!Fault
<1>4. /\ event.kind \notin Unsound
      /\ learnt.thread = None => event.kind = "thread"
      /\ event.kind = "thread" => learnt.thread = None
      /\ event.kind = "completed" => ~learnt.done
      /\ event.kind \in Stream!Telling /\ event.fact # None => learnt.fact \in {None, event.fact}
  BY <1>3 DEF Stream!Refuses, Stream!Contradicts, Unsound
<1> HIDE DEF now
<1>5. n > 0 => learnt.thread # None
  BY EventIs, NoneAssumption DEF Accounts, Opens
<1>6. Opens(lines, n + 1, now)
  BY <1>2, <1>4, <1>5 DEF Accounts, Opens
<1>7. Speaks(lines, n + 1, now)
  BY <1>2 DEF Accounts, Speaks, Facts
<1>8. Ends(lines, n + 1, now)
  <2>1. event.kind = "completed" => \A i \in 1 .. n : lines[i].kind # "completed"
    BY <1>4 DEF Accounts, Ends
  <2> QED
    BY <1>2, <2>1 DEF Accounts, Ends
<1>9. Tells(lines, n + 1, now)
  <2>1. \A i \in 1 .. n :
          lines[i].kind \in Stream!Telling /\ lines[i].fact # None => lines[i].fact = learnt.fact
    BY DEF Accounts, Tells
  <2>2. \A i \in 1 .. n + 1 : i = n + 1 \/ i \in 1 .. n
    OBVIOUS
  <2>3. learnt.fact # None =>
          \E i \in 1 .. n + 1 : lines[i].kind \in Stream!Telling /\ lines[i].fact # None
    BY DEF Accounts, Tells
  <2> QED
    BY <1>2, <1>4, <2>1, <2>2, <2>3 DEF Tells
<1> QED
  BY <1>3, <1>6, <1>7, <1>8, <1>9 DEF Accounts, now

LEMMA LearnFault ==
  ASSUME NEW learnt \in Facts, NEW event \in Stream!Event, NEW i \in Nat
  PROVE  /\ Stream!Learn(learnt, event, i) \in Facts
         /\ Stream!Learn(learnt, event, i).fault = Stream!Fault(learnt, event)
BY LearnTyped

\* What the scan of a stream ends with, and that of its beginnings.
LEMMA ParseAccounts ==
  ASSUME NEW lines \in Seq(Stream!Event)
  PROVE  \E f : /\ f[0] = Stream!Nothing /\ Stream!Scan(lines) = f[Len(lines)]
                /\ \A i \in 1 .. Len(lines) : f[i] = Stream!Learn(f[i - 1], lines[i], i)
                /\ \A i \in 0 .. Len(lines) :
                     f[i] \in Facts /\ (f[i].fault = "none" => Accounts(lines, i, f[i]))
<1> DEFINE N == Len(lines)
<1>1. N \in Nat
  OBVIOUS
<1>2. PICK f : /\ f[0] = Stream!Nothing /\ Stream!Scan(lines) = f[N]
               /\ \A i \in 1 .. N : f[i] = Stream!Learn(f[i - 1], lines[i], i)
  BY <1>1, ParseUnfolds
<1> DEFINE Accounted(i) == f[i] \in Facts /\ (f[i].fault = "none" => Accounts(lines, i, f[i]))
           T == {i \in Nat : i <= N => Accounted(i)}
<1>3. 0 \in T
  BY <1>2, AccountsNothing
<1>4. ASSUME NEW n \in Nat, n \in T PROVE n + 1 \in T
  <2> SUFFICES ASSUME n + 1 <= N PROVE Accounted(n + 1)
    OBVIOUS
  <2>1. /\ n + 1 \in 1 .. N /\ n + 1 \in Nat /\ (n + 1) - 1 = n
        /\ lines[n + 1] \in Stream!Event /\ Accounted(n)
    BY <1>1, <1>4
  <2>2. f[n + 1] = Stream!Learn(f[n], lines[n + 1], n + 1)
    BY <1>2, <2>1
  <2>3. f[n + 1] \in Facts /\ f[n + 1].fault = Stream!Fault(f[n], lines[n + 1])
    BY <2>1, <2>2, LearnFault
  <2>4. ASSUME f[n + 1].fault = "none" PROVE Accounts(lines, n + 1, f[n + 1])
    <3>1. f[n].fault = "none"
      BY <2>3, <2>4 DEF Stream!Fault
    <3> QED
      BY <2>1, <2>2, <2>4, <3>1, LearnsEvent
  <2> QED
    BY <2>3, <2>4
<1> HIDE DEF T
<1>5. Nat \subseteq T
  BY <1>3, <1>4, Induct
<1>6. \A i \in 0 .. N : Accounted(i)
  BY <1>1, <1>5 DEF T
<1> QED
  BY <1>2, <1>6

\* Exactly one of the events ends the turn.
LEMMA OneCompleted ==
  ASSUME NEW lines
  PROVE  (\E k \in 1 .. Len(lines) : Stream!OfKind(lines, "completed") = {k}) <=>
           \E i \in 1 .. Len(lines) :
             /\ lines[i].kind = "completed"
             /\ \A j \in 1 .. Len(lines) : lines[j].kind = "completed" => j = i
BY DEF Stream!OfKind

\* The turn that a satisfied scan has read.
LEMMA AcceptedIsOneTurn ==
  ASSUME NEW lines \in Seq(Stream!Event), NEW wanted \in Thread \cup {None},
         lines # <<>>, Stream!Lined(lines),
         Accounts(lines, Len(lines), Stream!Scan(lines)), Stream!Scan(lines) \in Facts,
         wanted # None => Stream!Scan(lines).thread = wanted,
         Stream!Scan(lines).final > 0, Stream!Scan(lines).done
  PROVE  Stream!OneTurn(lines, wanted)
<1> DEFINE learnt == Stream!Scan(lines)
           N == Len(lines)
<1>1. N \in Nat /\ N > 0 /\ N \in 1 .. MaxEvent
  BY BoundAssumption DEF Stream!Lined
<1> HIDE DEF learnt
<1>2. /\ Opens(lines, N, learnt) /\ Speaks(lines, N, learnt)
      /\ Ends(lines, N, learnt) /\ Tells(lines, N, learnt)
  BY DEF Accounts, learnt
<1>3. Stream!OfKind(lines, "thread") = {1}
  BY <1>1, <1>2 DEF Opens, Stream!OfKind
<1>4. wanted # None => lines[1].thread = wanted
  BY <1>1, <1>2 DEF Opens, learnt
<1>5. \A kind \in Unsound : Stream!OfKind(lines, kind) = {}
  BY <1>2 DEF Opens, Stream!OfKind
<1>6. \E i \in 1 .. N : Stream!OfKind(lines, "completed") = {i}
  <2>1. learnt.done = TRUE
    BY DEF Facts, learnt
  <2>2. \E i \in 1 .. N : lines[i].kind = "completed"
                         /\ \A j \in 1 .. N : lines[j].kind = "completed" => j = i
    BY <1>2, <2>1 DEF Ends
  <2> QED
    BY <1>1, <2>2, OneCompleted
<1>7. Stream!OfKind(lines, "message") # {}
  BY <1>2 DEF Speaks, Stream!OfKind, learnt
<1>8. \A i, j \in 1 .. N :
        {lines[i].kind, lines[j].kind} \subseteq Stream!Telling =>
          lines[i].fact = lines[j].fact \/ None \in {lines[i].fact, lines[j].fact}
  BY <1>2 DEF Tells
<1>9. \A kind \in {"misframed", "malformed", "refused", "sandbox", "failed", "error"} :
        Stream!OfKind(lines, kind) = {}
  BY <1>5 DEF Unsound, Stream!Lined
<1> QED
  BY <1>1, <1>3, <1>4, <1>6, <1>7, <1>8, <1>9, Zenon DEF Stream!OneTurn

\* In a stream of one turn nothing is refused.
LEMMA OneTurnIsRead ==
  ASSUME NEW lines \in Seq(Stream!Event), NEW wanted \in Thread \cup {None},
         Stream!OneTurn(lines, wanted), NEW n \in Nat, n + 1 \in 1 .. Len(lines),
         NEW learnt \in Facts, Accounts(lines, n, learnt), learnt.fault = "none"
  PROVE  Stream!Fault(learnt, lines[n + 1]) = "none"
<1> DEFINE event == lines[n + 1]
           N == Len(lines)
<1>1. event \in Stream!Event /\ N \in Nat /\ 1 \in 1 .. N
  OBVIOUS
<1>2. event.kind \notin Unsound
  BY DEF Stream!OneTurn, Stream!OfKind, Unsound
<1>3. event.kind = "thread" <=> n = 0
  BY <1>1 DEF Stream!OneTurn, Stream!OfKind
<1>4. n = 0 <=> learnt.thread = None
  BY <1>1, EventIs, NoneAssumption DEF Accounts, Opens
<1>5. ASSUME event.kind = "completed", learnt.done PROVE FALSE
  <2>1. learnt.done = TRUE
    BY <1>5 DEF Facts
  <2>2. PICK i \in 1 .. n : lines[i].kind = "completed"
    BY <2>1 DEF Accounts, Ends
  <2>4. \E k \in 1 .. N : Stream!OfKind(lines, "completed") = {k}
    BY DEF Stream!OneTurn
  <2>3. \E k \in 1 .. N : \A j \in 1 .. N : lines[j].kind = "completed" => j = k
    BY <1>1, <2>4, OneCompleted
  <2> QED
    BY <1>1, <1>5, <2>2, <2>3
<1>6. ~Stream!Contradicts(learnt, event)
  <2> SUFFICES ASSUME event.kind \in Stream!Telling, event.fact # None, learnt.fact # None,
                      learnt.fact # event.fact
               PROVE  FALSE
    BY DEF Stream!Contradicts
  <2>1. PICK i \in 1 .. n : lines[i].kind \in Stream!Telling /\ lines[i].fact # None
    BY DEF Accounts, Tells
  <2>2. lines[i].fact = learnt.fact
    BY <2>1 DEF Accounts, Tells
  <2>3. i \in 1 .. N /\ n + 1 \in 1 .. N
    BY <1>1
  <2>4. {lines[i].kind, event.kind} \subseteq Stream!Telling
    BY <2>1
  <2>5. lines[i].fact = event.fact \/ None \in {lines[i].fact, event.fact}
    BY <2>3, <2>4 DEF Stream!OneTurn
  <2> QED
    BY <2>1, <2>2, <2>5
<1>7. ~Stream!Refuses(learnt, event)
  BY <1>2, <1>3, <1>4, <1>5, <1>6 DEF Stream!Refuses, Unsound
<1> QED
  BY <1>2, <1>7 DEF Stream!Fault, Unsound

LEMMA OneTurnIsAccepted ==
  ASSUME NEW lines \in Seq(Stream!Event), NEW wanted \in Thread \cup {None},
         Stream!OneTurn(lines, wanted)
  PROVE  LET learnt == Stream!Scan(lines) IN
         /\ learnt.fault = "none" /\ learnt \in Facts /\ Accounts(lines, Len(lines), learnt)
         /\ learnt.thread = lines[1].thread /\ learnt.thread \in Thread
         /\ learnt.final > 0 /\ learnt.done = TRUE
<1> DEFINE N == Len(lines)
           learnt == Stream!Scan(lines)
<1>1. N \in Nat /\ N > 0 /\ 1 \in 1 .. N
  BY DEF Stream!OneTurn
<1>2. PICK f : /\ f[0] = Stream!Nothing /\ Stream!Scan(lines) = f[N]
               /\ \A i \in 1 .. N : f[i] = Stream!Learn(f[i - 1], lines[i], i)
               /\ \A i \in 0 .. N :
                    f[i] \in Facts /\ (f[i].fault = "none" => Accounts(lines, i, f[i]))
  BY ParseAccounts
<1> DEFINE T == {i \in Nat : i <= N => f[i].fault = "none"}
<1>3. 0 \in T
  BY <1>2, AccountsNothing
<1>4. ASSUME NEW n \in Nat, n \in T PROVE n + 1 \in T
  <2> SUFFICES ASSUME n + 1 <= N PROVE f[n + 1].fault = "none"
    OBVIOUS
  <2>1. n + 1 \in 1 .. N /\ n \in 0 .. N /\ (n + 1) - 1 = n /\ f[n].fault = "none"
    BY <1>1, <1>4
  <2>2. f[n] \in Facts /\ Accounts(lines, n, f[n]) /\ lines[n + 1] \in Stream!Event
    BY <1>2, <2>1
  <2>3. Stream!Fault(f[n], lines[n + 1]) = "none"
    BY <2>1, <2>2, OneTurnIsRead
  <2>5. n + 1 \in Nat
    OBVIOUS
  <2>4. f[n + 1] = Stream!Learn(f[n], lines[n + 1], n + 1)
    BY <1>2, <2>1
  <2> QED
    BY <2>2, <2>3, <2>4, <2>5, LearnFault
<1> HIDE DEF T
<1>5. Nat \subseteq T
  BY <1>3, <1>4, Induct
<1>6. N \in 0 .. N /\ f[N].fault = "none"
  BY <1>1, <1>5 DEF T
<1>7. learnt.fault = "none" /\ learnt \in Facts /\ Accounts(lines, N, learnt)
  BY <1>2, <1>6
<1> HIDE DEF learnt
<1>8. learnt.thread = lines[1].thread /\ learnt.thread \in Thread
  BY <1>1, <1>7, EventIs DEF Accounts, Opens
<1>9. learnt.final > 0
  BY <1>7 DEF Accounts, Speaks, Facts, Stream!OneTurn, Stream!OfKind
<1>10. learnt.done = TRUE
  <2>2. \E i \in 1 .. N : Stream!OfKind(lines, "completed") = {i}
    BY DEF Stream!OneTurn
  <2>1. \E i \in 1 .. N : lines[i].kind = "completed"
    BY <1>1, <2>2, OneCompleted
  <2> QED
    BY <1>7, <2>1 DEF Accounts, Ends
<1> QED
  BY <1>7, <1>8, <1>9, <1>10 DEF learnt

\* parse_codex_jsonl: what it returns, and what it says of the rest.
LEMMA ParseIs ==
  ASSUME NEW lines \in Seq(Stream!Event), NEW wanted \in Thread \cup {None}
  PROVE  LET result == Stream!Parse(lines, wanted)
             learnt == Stream!Scan(lines)
         IN /\ result.fault = "none" <=> Stream!OneTurn(lines, wanted)
            /\ result.fault = "none" => result = learnt
            /\ Stream!Lined(lines) /\ learnt.fault # "none" => result.fault = learnt.fault
<1> DEFINE learnt == Stream!Scan(lines)
           whole == /\ lines # <<>>
                    /\ wanted # None => learnt.thread = wanted
                    /\ learnt.thread # None /\ learnt.final > 0 /\ learnt.done
           result == Stream!Parse(lines, wanted)
<1>1. /\ learnt \in Facts
      /\ learnt.fault = "none" => Accounts(lines, Len(lines), learnt)
  <2>1. Len(lines) \in 0 .. Len(lines)
    OBVIOUS
  <2> QED
    BY <2>1, ParseAccounts
<1>2. result = IF Stream!Lined(lines) /\ learnt.fault # "none"
               THEN [learnt EXCEPT !.done = FALSE]
               ELSE IF Stream!Lined(lines) /\ whole THEN learnt
               ELSE [learnt EXCEPT !.fault = "author_process_failure", !.done = FALSE]
  BY DEF Stream!Parse
<1>3. Stream!OneTurn(lines, wanted) => learnt.fault = "none" /\ Stream!Lined(lines) /\ whole
  <2> SUFFICES ASSUME Stream!OneTurn(lines, wanted)
               PROVE  learnt.fault = "none" /\ Stream!Lined(lines) /\ whole
    OBVIOUS
  <2>1. /\ learnt.fault = "none" /\ learnt.thread = lines[1].thread /\ learnt.thread \in Thread
        /\ learnt.final > 0 /\ learnt.done = TRUE
    BY OneTurnIsAccepted
  <2>2. Len(lines) \in 1 .. MaxEvent /\ (wanted # None => lines[1].thread = wanted)
    BY DEF Stream!OneTurn
  <2>3. Stream!Lined(lines) /\ lines # <<>>
    BY <2>2, BoundAssumption DEF Stream!OneTurn, Stream!Lined
  <2> HIDE DEF learnt
  <2> QED
    BY <2>1, <2>2, <2>3, NoneAssumption
<1>4. learnt.fault = "none" /\ Stream!Lined(lines) /\ whole => Stream!OneTurn(lines, wanted)
  BY <1>1, AcceptedIsOneTurn
<1> HIDE DEF learnt, whole, result
<1>5. CASE Stream!Lined(lines) /\ learnt.fault # "none"
  <2>1. result = [learnt EXCEPT !.done = FALSE]
    BY <1>2, <1>5
  <2>2. result.fault = learnt.fault
    BY <1>1, <2>1 DEF Facts
  <2> QED
    BY <1>3, <1>5, <2>2 DEF result, learnt
<1>6. CASE ~(Stream!Lined(lines) /\ learnt.fault # "none") /\ Stream!Lined(lines) /\ whole
  <2>1. result = learnt /\ learnt.fault = "none"
    BY <1>2, <1>6
  <2> QED
    BY <1>4, <1>6, <2>1 DEF result, learnt
<1>7. CASE ~(Stream!Lined(lines) /\ learnt.fault # "none") /\ ~(Stream!Lined(lines) /\ whole)
  <2>1. result = [learnt EXCEPT !.fault = "author_process_failure", !.done = FALSE]
    BY <1>2, <1>7
  <2>2. result.fault = "author_process_failure"
    BY <1>1, <2>1 DEF Facts
  <2> QED
    BY <1>3, <1>7, <2>2 DEF result, learnt
<1> QED
  BY <1>5, <1>6, <1>7

\* The accepting parser, by its three claims.
LEMMA TurnIsExact ==
  ASSUME NEW lines \in Seq(Stream!Event), NEW wanted \in Thread \cup {None}
  PROVE  Stream!TurnExact(lines, wanted)
<1> DEFINE result == Stream!Parse(lines, wanted)
           learnt == Stream!Scan(lines)
<1>1. /\ result.fault = "none" <=> Stream!OneTurn(lines, wanted)
      /\ result.fault = "none" => result = learnt
  BY ParseIs
<1>2. Stream!OneTurn(lines, wanted) =>
        /\ learnt \in Facts /\ Accounts(lines, Len(lines), learnt)
        /\ learnt.thread = lines[1].thread /\ learnt.final > 0
  BY OneTurnIsAccepted
<1> HIDE DEF result, learnt
<1>3. ASSUME result.fault = "none"
      PROVE  /\ result.thread = lines[1].thread
             /\ lines[result.final].kind = "message"
             /\ \A i \in Stream!OfKind(lines, "message") : i <= result.final
             /\ result.fact # None <=>
                  \E i \in 1 .. Len(lines) :
                    lines[i].kind \in Stream!Telling /\ lines[i].fact # None
  <2>1. /\ result = learnt /\ Accounts(lines, Len(lines), learnt)
        /\ learnt.thread = lines[1].thread /\ learnt.final > 0
    BY <1>1, <1>2, <1>3
  <2> QED
    BY <2>1 DEF Accounts, Speaks, Tells, Stream!OfKind
<1> QED
  BY <1>1, <1>3 DEF Stream!TurnExact, result

LEMMA SandboxDominates ==
  ASSUME NEW lines \in Seq(Stream!Event), NEW wanted \in Thread \cup {None}
  PROVE  Stream!SandboxFailureDominates(lines, wanted)
<1> SUFFICES ASSUME Stream!Lined(lines), NEW k \in Stream!OfKind(lines, "sandbox"),
                    Stream!Scan(SubSeq(lines, 1, k - 1)).fault = "none", k > 1
             PROVE  Stream!Parse(lines, wanted).fault = "sandbox_setup_failure"
  BY DEF Stream!SandboxFailureDominates
<1> DEFINE N == Len(lines)
           cut == SubSeq(lines, 1, k - 1)
<1>1. k \in 1 .. N /\ lines[k].kind = "sandbox" /\ N \in Nat /\ k - 1 \in 1 .. N
  BY DEF Stream!OfKind
<1>2. cut \in Seq(Stream!Event) /\ Len(cut) = k - 1 /\ \A i \in 1 .. k - 1 : cut[i] = lines[i]
  BY <1>1
<1> HIDE DEF cut
<1>3. PICK f : /\ f[0] = Stream!Nothing /\ Stream!Scan(lines) = f[N]
               /\ \A i \in 1 .. N : f[i] = Stream!Learn(f[i - 1], lines[i], i)
               /\ \A i \in 0 .. N :
                    f[i] \in Facts /\ (f[i].fault = "none" => Accounts(lines, i, f[i]))
  BY ParseAccounts
<1>4. PICK g : /\ g[0] = Stream!Nothing /\ Stream!Scan(cut) = g[k - 1]
               /\ \A i \in 1 .. k - 1 : g[i] = Stream!Learn(g[i - 1], cut[i], i)
  <2>1. Len(cut) \in Nat
    BY <1>1, <1>2
  <2>2. \E g : /\ g[0] = Stream!Nothing /\ Stream!Scan(cut) = g[Len(cut)]
               /\ \A i \in 1 .. Len(cut) : g[i] = Stream!Learn(g[i - 1], cut[i], i)
    BY <2>1, ParseUnfolds
  <2> QED
    BY <1>2, <2>2
\* The scan of the beginning is the beginning of the scan.
<1> DEFINE T == {i \in Nat : i <= k - 1 => g[i] = f[i]}
<1>5. 0 \in T
  BY <1>3, <1>4
<1>6. ASSUME NEW n \in Nat, n \in T PROVE n + 1 \in T
  <2> SUFFICES ASSUME n + 1 <= k - 1 PROVE g[n + 1] = f[n + 1]
    OBVIOUS
  <2>1. n + 1 \in 1 .. k - 1 /\ n + 1 \in 1 .. N /\ (n + 1) - 1 = n /\ g[n] = f[n]
    BY <1>1, <1>6
  <2> QED
    BY <1>2, <1>3, <1>4, <2>1
<1> HIDE DEF T
<1>7. Nat \subseteq T
  BY <1>5, <1>6, Induct
<1>8. f[k - 1].fault = "none" /\ f[k - 1] \in Facts /\ Accounts(lines, k - 1, f[k - 1])
  <2>1. k - 1 \in T /\ k - 1 \in 0 .. N
    BY <1>1, <1>7
  <2>2. g[k - 1] = f[k - 1]
    BY <1>1, <2>1 DEF T
  <2> QED
    BY <1>3, <1>4, <2>1, <2>2 DEF cut
<1>9. f[k].fault = "sandbox_setup_failure"
  <2>1. lines[k] \in Stream!Event /\ lines[1] \in Stream!Event
    BY <1>1
  <2>2. f[k - 1].thread # None
    BY <1>1, <1>8, <2>1, EventIs, NoneAssumption DEF Accounts, Opens
  <2>3. ~Stream!Refuses(f[k - 1], lines[k])
    BY <1>1, <2>2 DEF Stream!Refuses, Stream!Contradicts, Stream!Telling
  <2>4. Stream!Fault(f[k - 1], lines[k]) = "sandbox_setup_failure"
    BY <1>1, <1>8, <2>3 DEF Stream!Fault
  <2>5. f[k] = Stream!Learn(f[k - 1], lines[k], k) /\ k \in Nat
    BY <1>1, <1>3
  <2>6. Stream!Learn(f[k - 1], lines[k], k).fault = Stream!Fault(f[k - 1], lines[k])
    BY <1>8, <2>1, <2>5, LearnFault, Zenon
  <2> QED
    BY <2>4, <2>5, <2>6
<1> DEFINE U == {i \in Nat : i >= k /\ i <= N => f[i].fault = "sandbox_setup_failure"}
<1>10. 0 \in U
  BY <1>1
<1>11. ASSUME NEW n \in Nat, n \in U PROVE n + 1 \in U
  <2> SUFFICES ASSUME n + 1 >= k, n + 1 <= N PROVE f[n + 1].fault = "sandbox_setup_failure"
    OBVIOUS
  <2>1. CASE n + 1 = k
    BY <1>9, <2>1
  <2>2. CASE n + 1 # k
    <3>1. /\ n >= k /\ n <= N /\ n + 1 \in 1 .. N /\ n \in 0 .. N /\ (n + 1) - 1 = n
          /\ n + 1 \in Nat
      BY <1>1, <2>2
    <3>2. f[n].fault = "sandbox_setup_failure" /\ f[n] \in Facts /\ lines[n + 1] \in Stream!Event
      BY <1>3, <1>11, <3>1
    <3>3. Stream!Fault(f[n], lines[n + 1]) = "sandbox_setup_failure"
      BY <3>2 DEF Stream!Fault
    <3>4. f[n + 1] = Stream!Learn(f[n], lines[n + 1], n + 1)
      BY <1>3, <3>1
    <3> QED
      BY <3>1, <3>2, <3>3, <3>4, LearnFault
  <2> QED
    BY <2>1, <2>2
<1> HIDE DEF U
<1>12. Nat \subseteq U
  BY <1>10, <1>11, Induct
<1>13. Stream!Scan(lines).fault = "sandbox_setup_failure"
  BY <1>1, <1>3, <1>12 DEF U
<1> QED
  BY <1>13, ParseIs

\* The two parsers do not contradict each other.
LEMMA TheyAgree ==
  ASSUME NEW lines \in Seq(Stream!Event), NEW wanted \in Thread \cup {None}
  PROVE  Stream!ParsersAgree(lines, wanted)
<1> DEFINE facts == Stream!NonzeroFacts(lines, wanted)
           last == lines[Len(lines)]
           ended == \E i \in Stream!OfKind(lines, "failed") : lines[i].cause = "ended"
           terminal == IF last.kind \in {"failed", "error"} THEN last.kind ELSE "none"
<1>1. CASE lines = <<>>
  <2>1. facts = [protocol |-> "empty", terminal |-> "none", ended |-> FALSE]
    BY <1>1 DEF Stream!NonzeroFacts
  <2>2. ~facts.ended
    BY <2>1
  <2>3. ~Stream!OneTurn(lines, wanted)
    BY <1>1 DEF Stream!OneTurn
  <2> HIDE DEF facts
  <2> QED
    BY <2>2, <2>3 DEF Stream!ParsersAgree, facts
<1>2. CASE lines # <<>> /\ (~Stream!Framed(lines, wanted) \/ ~Stream!FailureIsLast(lines))
  <2>1. facts = [protocol |-> "invalid", terminal |-> "unverified", ended |-> FALSE]
    BY <1>2 DEF Stream!NonzeroFacts, Stream!Unverified
  <2>2. ~facts.ended
    BY <2>1
  <2>3. ~Stream!OneTurn(lines, wanted)
    <3> SUFFICES ASSUME Stream!OneTurn(lines, wanted)
                 PROVE  Stream!Framed(lines, wanted) /\ Stream!FailureIsLast(lines)
      BY <1>2
    <3> QED
      BY BoundAssumption DEF Stream!OneTurn, Stream!Framed, Stream!Lined, Stream!FailureIsLast
  <2> HIDE DEF facts
  <2> QED
    BY <2>2, <2>3 DEF Stream!ParsersAgree, facts
<1>3. CASE lines # <<>> /\ Stream!Framed(lines, wanted) /\ Stream!FailureIsLast(lines)
  <2>1. facts = [protocol |-> "valid", terminal |-> terminal, ended |-> ended]
    BY <1>3 DEF Stream!NonzeroFacts
  <2>2. Len(lines) \in 1 .. Len(lines) /\ last \in Stream!Event
    BY <1>3
  <2>3. ASSUME Stream!OneTurn(lines, wanted) PROVE ~ended /\ terminal = "none"
    BY <2>2, <2>3 DEF Stream!OneTurn, Stream!OfKind
  <2>4. ASSUME ended
        PROVE  /\ terminal = "failed" /\ Stream!Parse(lines, wanted).fault # "none"
               /\ last = [kind |-> "failed", cause |-> "ended"]
               /\ wanted # None => lines[1].thread = wanted
    <3>1. PICK i \in Stream!OfKind(lines, "failed") : lines[i].cause = "ended"
      BY <2>4
    <3>2. i = Len(lines) /\ last.kind = "failed" /\ last.cause = "ended"
      BY <1>3, <3>1 DEF Stream!FailureIsLast, Stream!OfKind
    <3>3. last = [kind |-> "failed", cause |-> "ended"]
      BY <2>2, <3>2, EventIs
    <3>4. ~Stream!OneTurn(lines, wanted)
      BY <3>1 DEF Stream!OneTurn
    <3> QED
      BY <1>3, <3>2, <3>3, <3>4, ParseIs DEF Stream!Framed
  <2> HIDE DEF facts, ended, terminal, last
  <2>5. facts.ended = ended /\ facts.terminal = terminal
    BY <2>1
  <2>6. Stream!OneTurn(lines, wanted) =>
          facts = [protocol |-> "valid", terminal |-> "none", ended |-> FALSE]
    <3>1. ended \in BOOLEAN
      BY DEF ended
    <3> QED
      BY <2>1, <2>3, <3>1
  <2>7. facts.ended =>
          /\ facts.terminal = "failed" /\ Stream!Parse(lines, wanted).fault # "none"
          /\ last = [kind |-> "failed", cause |-> "ended"]
          /\ wanted # None => lines[1].thread = wanted
    BY <2>4, <2>5, Zenon
  <2> QED
    BY <2>6, <2>7 DEF Stream!ParsersAgree, facts, last
<1> QED
  BY <1>1, <1>2, <1>3

------------------------------------------------------------------------------
(***************************************************************************)
(* Every stream that is tried is one of events, and whatever the client    *)
(* can return is returned for one of them.                                 *)
(***************************************************************************)
\* The streams of up to n events.
Wider(before, i) ==
  before \cup
    UNION {{Append(lines, event) : event \in Stream!Further(lines)} :
             lines \in {l \in before : Len(l) = i - 1}}

Widening(f, n) == f = [i \in 0 .. n |-> IF i = 0 THEN {<<>>} ELSE Wider(f[i - 1], i)]

LEMMA FurtherIs ==
  ASSUME NEW s
  PROVE  /\ Stream!Further(s) \subseteq Stream!Event
         /\ Stream!Lined(s) /\ Stream!Open(s) /\ Len(s) # MaxEvent => Stream!Further(s) = Stream!Event
<1>1. [kind |-> "message"] \in Stream!Event /\ [kind |-> "misframed"] \in Stream!Event
  BY DEF Stream!Event
<1> QED
  BY <1>1 DEF Stream!Further

LEMMA WiderHas ==
  ASSUME NEW before, NEW i \in Nat
  PROVE  /\ before \subseteq Wider(before, i)
         /\ i <= MaxEvent =>
              \A s \in before, event \in Stream!Event :
                Len(s) = i - 1 /\ Stream!Lined(s) /\ Stream!Open(s) =>
                  Append(s, event) \in Wider(before, i)
         /\ \A l \in Wider(before, i) :
              l \in before \/ \E s \in before, event \in Stream!Event : l = Append(s, event)
<1>2. before \subseteq Wider(before, i)
  BY DEF Wider
<1>3. ASSUME i <= MaxEvent, NEW s \in before, NEW event \in Stream!Event,
             Len(s) = i - 1, Stream!Lined(s), Stream!Open(s)
      PROVE  Append(s, event) \in Wider(before, i)
  <2>1. Len(s) # MaxEvent
    BY <1>3, BoundAssumption
  <2>2. s \in {l \in before : Len(l) = i - 1} /\ event \in Stream!Further(s)
    BY <1>3, <2>1, FurtherIs
  <2> QED
    BY <2>2 DEF Wider
<1>4. ASSUME NEW l \in Wider(before, i)
      PROVE  l \in before \/ \E s \in before, event \in Stream!Event : l = Append(s, event)
  <2>1. l \in before \/ \E s \in before : \E event \in Stream!Further(s) : l = Append(s, event)
    BY DEF Wider
  <2> QED
    BY <2>1, FurtherIs
<1> QED
  BY <1>2, <1>3, <1>4

LEMMA WideningExists == \A n \in Nat : \E f : Widening(f, n)
<1> DEFINE T == {n \in Nat : \E f : Widening(f, n)}
<1>1. 0 \in T
  <2>1. Widening([i \in 0 .. 0 |-> {<<>>}], 0)
    BY DEF Widening
  <2> QED
    BY <2>1
<1>2. ASSUME NEW n \in Nat, n \in T PROVE n + 1 \in T
  <2>1. PICK f : Widening(f, n)
    BY <1>2
  <2> DEFINE g == [i \in 0 .. n + 1 |-> IF i <= n THEN f[i] ELSE Wider(f[n], n + 1)]
  <2>2. \A i \in 0 .. n : f[i] = IF i = 0 THEN {<<>>} ELSE Wider(f[i - 1], i)
    BY <2>1 DEF Widening
  <2>3. \A i \in 0 .. n + 1 : g[i] = IF i = 0 THEN {<<>>} ELSE Wider(g[i - 1], i)
    <3> TAKE i \in 0 .. n + 1
    <3>1. CASE i = 0
      <4>1. 0 \in 0 .. n /\ 0 <= n /\ g[0] = f[0]
        OBVIOUS
      <4> QED
        BY <2>2, <3>1, <4>1
    <3>2. CASE i # 0 /\ i <= n
      <4>1. /\ i \in 0 .. n /\ i - 1 \in 0 .. n /\ i \in 0 .. n + 1
            /\ i - 1 \in 0 .. n + 1 /\ i - 1 <= n
        BY <3>2
      <4>2. g[i] = f[i] /\ g[i - 1] = f[i - 1]
        BY <3>2, <4>1
      <4> QED
        BY <2>2, <3>2, <4>1, <4>2
    <3>3. CASE i = n + 1
      <4>1. i - 1 = n /\ ~(i <= n) /\ n \in 0 .. n + 1 /\ g[n] = f[n] /\ i # 0
        BY <3>3
      <4> QED
        BY <3>3, <4>1
    <3> QED
      BY <3>1, <3>2, <3>3
  <2> HIDE DEF g
  <2>4. Widening(g, n + 1)
    BY <2>3 DEF Widening, g
  <2> QED
    BY <2>4
<1> HIDE DEF T
<1>3. Nat \subseteq T
  BY <1>1, <1>2, Induct
<1> QED
  BY <1>3 DEF T

LEMMA StreamsUnfold ==
  \E f : /\ f[0] = {<<>>} /\ Stream!Streams = f[MaxEvent + 1]
         /\ \A i \in 1 .. MaxEvent + 1 : f[i] = Wider(f[i - 1], i)
<1> DEFINE n == MaxEvent + 1
           f == CHOOSE f : Widening(f, n)
<1>1. n \in Nat
  BY BoundAssumption
<1>2. Widening(f, n)
  BY <1>1, WideningExists
<1>3. Stream!Streams = f[n]
  BY DEF Stream!Streams, Widening, Wider
<1> HIDE DEF f
<1>4. \A i \in 0 .. n : f[i] = IF i = 0 THEN {<<>>} ELSE Wider(f[i - 1], i)
  BY <1>2 DEF Widening
<1>5. 0 \in 0 .. n /\ \A i \in 1 .. n : i \in 0 .. n /\ i # 0
  BY <1>1
<1>6. f[0] = {<<>>} /\ \A i \in 1 .. n : f[i] = Wider(f[i - 1], i)
  BY <1>4, <1>5, Zenon
<1> QED
  BY <1>3, <1>6

LEMMA StreamsAreEvents == Stream!Streams \subseteq Seq(Stream!Event)
<1>1. PICK f : /\ f[0] = {<<>>} /\ Stream!Streams = f[MaxEvent + 1]
               /\ \A i \in 1 .. MaxEvent + 1 : f[i] = Wider(f[i - 1], i)
  BY StreamsUnfold
<1> DEFINE T == {i \in Nat : i <= MaxEvent + 1 => f[i] \subseteq Seq(Stream!Event)}
<1>2. 0 \in T
  <2>1. <<>> \in Seq(Stream!Event)
    OBVIOUS
  <2>2. f[0] \subseteq Seq(Stream!Event)
    BY <1>1, <2>1
  <2> QED
    BY <2>2
<1>3. ASSUME NEW n \in Nat, n \in T PROVE n + 1 \in T
  <2> SUFFICES ASSUME n + 1 <= MaxEvent + 1, NEW l \in f[n + 1] PROVE l \in Seq(Stream!Event)
    OBVIOUS
  <2>1. /\ n + 1 \in 1 .. MaxEvent + 1 /\ n + 1 \in Nat /\ (n + 1) - 1 = n
        /\ f[n] \subseteq Seq(Stream!Event)
    BY <1>3, BoundAssumption
  <2>2. f[n + 1] = Wider(f[n], n + 1)
    BY <1>1, <2>1
  <2>3. l \in f[n] \/ \E s \in f[n], event \in Stream!Event : l = Append(s, event)
    BY <2>1, <2>2, WiderHas
  <2> QED
    BY <2>1, <2>3
<1> HIDE DEF T
<1>4. Nat \subseteq T
  BY <1>2, <1>3, Induct
<1> QED
  BY <1>1, <1>4, BoundAssumption DEF T

\* A turn in as few events as possible.
Briefly(th, fact) ==
  <<[kind |-> "thread", thread |-> th, fact |-> fact], [kind |-> "message"],
    [kind |-> "completed", fact |-> None]>>

\* A sequence, one element after another.
LEMMA LengthenedIs ==
  ASSUME NEW S, NEW seq \in Seq(S), NEW e \in S
  PROVE  /\ Append(seq, e) \in Seq(S)
         /\ Len(Append(seq, e)) = Len(seq) + 1
         /\ \A i \in 1 .. Len(seq) : Append(seq, e)[i] = seq[i]
         /\ Append(seq, e)[Len(seq) + 1] = e
OBVIOUS

LEMMA OneAndTwo ==
  ASSUME NEW S, NEW a \in S, NEW b \in S
  PROVE  LET first == Append(<<>>, a)
             second == Append(first, b)
         IN /\ first \in Seq(S) /\ Len(first) = 1 /\ first[1] = a
            /\ second \in Seq(S) /\ Len(second) = 2 /\ second[1] = a /\ second[2] = b
<1> DEFINE one == Append(<<>>, a)
           two == Append(one, b)
<1>1. one \in Seq(S) /\ Len(one) = 1 /\ one[1] = a
  BY LengthenedIs
<1>2. two \in Seq(S) /\ Len(two) = Len(one) + 1 /\ two[Len(one) + 1] = b
      /\ \A i \in 1 .. Len(one) : two[i] = one[i]
  <2>1. one \in Seq(S)
    BY <1>1
  <2>2. \A o \in Seq(S) :
          /\ Append(o, b) \in Seq(S) /\ Len(Append(o, b)) = Len(o) + 1
          /\ Append(o, b)[Len(o) + 1] = b
          /\ \A i \in 1 .. Len(o) : Append(o, b)[i] = o[i]
    BY LengthenedIs
  <2> HIDE DEF one
  <2> QED
    BY <2>1, <2>2, Zenon
<1> HIDE DEF one, two
<1>3. two[1] = one[1]
  BY <1>1, <1>2
<1>4. Len(one) + 1 = 2
  BY <1>1
<1>5. two \in Seq(S) /\ Len(two) = 2 /\ two[2] = b
  BY ONLY <1>2, <1>4, Zenon
<1> QED
  BY <1>1, <1>3, <1>5 DEF one, two

LEMMA BriefTurn ==
  ASSUME MaxEvent >= 3, NEW th \in Thread, NEW fact \in Selection \cup {None},
         NEW wanted \in Thread \cup {None}, wanted # None => th = wanted
  PROVE  /\ Briefly(th, fact) \in Stream!Streams
         /\ Stream!OneTurn(Briefly(th, fact), wanted)
         /\ Stream!Parse(Briefly(th, fact), wanted).thread = th
         /\ Stream!Parse(Briefly(th, fact), wanted).fact = fact
<1> DEFINE first == [kind |-> "thread", thread |-> th, fact |-> fact]
           word == [kind |-> "message"]
           done == [kind |-> "completed", fact |-> None]
           lines == Briefly(th, fact)
<1>1. /\ first \in Stream!Event /\ word \in Stream!Event /\ done \in Stream!Event
      /\ lines \in Seq(Stream!Event) /\ Len(lines) = 3
      /\ lines[1] = first /\ lines[2] = word /\ lines[3] = done
  BY DEF Stream!Event, Stream!Told, Briefly
<1>2. lines \in Stream!Streams
  <2>1. PICK f : /\ f[0] = {<<>>} /\ Stream!Streams = f[MaxEvent + 1]
                 /\ \A i \in 1 .. MaxEvent + 1 : f[i] = Wider(f[i - 1], i)
    BY StreamsUnfold
  <2>2. 1 \in 1 .. MaxEvent + 1 /\ 2 \in 1 .. MaxEvent + 1 /\ 3 \in 1 .. MaxEvent + 1
    BY BoundAssumption
  <2>3. f[1] = Wider(f[0], 1) /\ f[2] = Wider(f[1], 2) /\ f[3] = Wider(f[2], 3)
    <3>1. f[1] = Wider(f[1 - 1], 1) /\ f[2] = Wider(f[2 - 1], 2) /\ f[3] = Wider(f[3 - 1], 3)
      BY <2>1, <2>2, Zenon
    <3>2. 1 - 1 = 0 /\ 2 - 1 = 1 /\ 3 - 1 = 2
      OBVIOUS
    <3> QED
      BY <3>1, <3>2
  <2>4. \A s : \A event \in Stream!Event :
          /\ s \in f[0] /\ Len(s) = 0 /\ Stream!Lined(s) /\ Stream!Open(s) => Append(s, event) \in f[1]
          /\ s \in f[1] /\ Len(s) = 1 /\ Stream!Lined(s) /\ Stream!Open(s) => Append(s, event) \in f[2]
          /\ s \in f[2] /\ Len(s) = 2 /\ Stream!Lined(s) /\ Stream!Open(s) => Append(s, event) \in f[3]
    <3>1. /\ 1 <= MaxEvent /\ 2 <= MaxEvent /\ 3 <= MaxEvent
          /\ 1 \in Nat /\ 2 \in Nat /\ 3 \in Nat /\ 1 - 1 = 0 /\ 2 - 1 = 1 /\ 3 - 1 = 2
      BY BoundAssumption
    <3> TAKE s
    <3> TAKE event \in Stream!Event
    <3>2. s \in f[0] /\ Len(s) = 1 - 1 /\ Stream!Lined(s) /\ Stream!Open(s) =>
            Append(s, event) \in Wider(f[0], 1)
      BY <3>1, WiderHas
    <3>3. s \in f[1] /\ Len(s) = 2 - 1 /\ Stream!Lined(s) /\ Stream!Open(s) =>
            Append(s, event) \in Wider(f[1], 2)
      BY <3>1, WiderHas
    <3>4. s \in f[2] /\ Len(s) = 3 - 1 /\ Stream!Lined(s) /\ Stream!Open(s) =>
            Append(s, event) \in Wider(f[2], 3)
      BY <3>1, WiderHas
    <3> QED
      BY <2>3, <3>1, <3>2, <3>3, <3>4
  <2> DEFINE one == Append(<<>>, first)
             two == Append(one, word)
  <2>5. /\ Len(<<>>) = 0
        /\ one \in Seq(Stream!Event) /\ Len(one) = 1 /\ one[1] = first
        /\ two \in Seq(Stream!Event) /\ Len(two) = 2 /\ two[1] = first /\ two[2] = word
    <3>1. Len(<<>>) = 0
      OBVIOUS
    <3> HIDE DEF first, word
    <3>2. /\ one \in Seq(Stream!Event) /\ Len(one) = 1 /\ one[1] = first
          /\ two \in Seq(Stream!Event) /\ Len(two) = 2 /\ two[1] = first /\ two[2] = word
      BY <1>1, OneAndTwo
    <3> QED
      BY <3>1, <3>2
  <2>6. lines = Append(two, done)
    BY DEF Briefly
  <2>7. /\ Stream!Open(<<>>) /\ Stream!Open(one) /\ Stream!Open(two)
        /\ Stream!Lined(<<>>) /\ Stream!Lined(one) /\ Stream!Lined(two)
    <3> HIDE DEF one, two
    <3>1. /\ \A i \in 1 .. 1 : i = 1
          /\ \A i \in 1 .. 2 : i = 1 \/ i = 2
          /\ one[1].kind = "thread" /\ two[1].kind = "thread" /\ two[2].kind = "message"
      BY <2>5
    <3>2. Stream!OfKind(one, "malformed") = {} /\ Stream!OfKind(one, "thread") = {1}
      BY <2>5, <3>1 DEF Stream!OfKind
    <3>3. Stream!OfKind(two, "malformed") = {} /\ Stream!OfKind(two, "thread") = {1}
      BY <2>5, <3>1 DEF Stream!OfKind
    <3>4. /\ Stream!OfKind(<<>>, "misframed") = {} /\ Stream!OfKind(one, "misframed") = {}
          /\ Stream!OfKind(two, "misframed") = {}
      BY <2>5, <3>1 DEF Stream!OfKind
    <3>5. 0 <= MaxEvent /\ 1 <= MaxEvent /\ 2 <= MaxEvent
      BY BoundAssumption
    <3>6. Stream!Lined(<<>>) /\ Stream!Lined(one) /\ Stream!Lined(two)
      BY <2>5, <3>4, <3>5 DEF Stream!Lined
    <3> QED
      BY <3>2, <3>3, <3>6 DEF Stream!Open
  <2>8. <<>> \in f[0]
    BY <2>1
  <2>9. lines \in f[3]
    <3> HIDE DEF lines, first, word, done
    <3>1. one \in f[1]
      BY <1>1, <2>4, <2>5, <2>7, <2>8
    <3> HIDE DEF one
    <3>2. two \in f[2]
      BY <1>1, <2>4, <2>5, <2>7, <3>1
    <3> HIDE DEF two
    <3> QED
      BY <1>1, <2>4, <2>5, <2>6, <2>7, <3>2
  <2> DEFINE T == {n \in Nat : 3 + n <= MaxEvent + 1 => lines \in f[3 + n]}
  <2>10. 0 \in T
    BY <2>9
  <2>11. ASSUME NEW n \in Nat, n \in T PROVE n + 1 \in T
    <3>1. SUFFICES ASSUME 3 + (n + 1) <= MaxEvent + 1 PROVE lines \in f[3 + (n + 1)]
      OBVIOUS
    <3>2. /\ 3 + (n + 1) \in 1 .. MaxEvent + 1 /\ 3 + (n + 1) \in Nat
          /\ (3 + (n + 1)) - 1 = 3 + n /\ lines \in f[3 + n]
      BY <2>11, <3>1, BoundAssumption
    <3>3. f[3 + n] \subseteq f[3 + (n + 1)]
      BY <2>1, <3>2, WiderHas
    <3> QED
      BY <3>2, <3>3
  <2> HIDE DEF T
  <2>12. Nat \subseteq T
    BY <2>10, <2>11, Induct
  <2>13. MaxEvent - 2 \in Nat /\ 3 + (MaxEvent - 2) = MaxEvent + 1
    BY BoundAssumption
  <2> QED
    BY <2>1, <2>12, <2>13, BoundAssumption DEF T
<1> HIDE DEF lines
<1>3. /\ \A i \in 1 .. 3 : i = 1 \/ i = 2 \/ i = 3
      /\ lines[1].kind = "thread" /\ lines[1].thread = th /\ lines[1].fact = fact
      /\ lines[2].kind = "message" /\ lines[3].kind = "completed" /\ lines[3].fact = None
  BY <1>1
<1>4. Stream!OneTurn(lines, wanted)
  <2>1. Len(lines) \in 1 .. MaxEvent
    BY <1>1, BoundAssumption
  <2>2. /\ Stream!OfKind(lines, "thread") = {1}
        /\ \A kind \in {"misframed", "malformed", "refused", "sandbox", "failed", "error"} :
             Stream!OfKind(lines, kind) = {}
        /\ Stream!OfKind(lines, "completed") = {3} /\ 3 \in 1 .. Len(lines)
        /\ Stream!OfKind(lines, "message") # {}
    BY <1>1, <1>3 DEF Stream!OfKind
  <2>3. \A i, j \in 1 .. Len(lines) :
          {lines[i].kind, lines[j].kind} \subseteq Stream!Telling =>
            lines[i].fact = lines[j].fact \/ None \in {lines[i].fact, lines[j].fact}
    BY <1>1, <1>3 DEF Stream!Telling
  <2> QED
    BY <1>3, <2>1, <2>2, <2>3 DEF Stream!OneTurn
<1> DEFINE result == Stream!Parse(lines, wanted)
           learnt == Stream!Scan(lines)
<1>5. result = learnt /\ Accounts(lines, Len(lines), learnt) /\ learnt.thread = lines[1].thread
  BY <1>1, <1>4, ParseIs, OneTurnIsAccepted
<1> HIDE DEF result, learnt
<1>6. result.fact = fact
  <2>1. CASE fact # None
    BY <1>1, <1>3, <1>5, <2>1 DEF Accounts, Tells, Stream!Telling
  <2>2. CASE fact = None
    BY <1>1, <1>3, <1>5, <2>2 DEF Accounts, Tells, Stream!Telling
  <2> QED
    BY <2>1, <2>2
<1> QED
  BY <1>2, <1>3, <1>4, <1>5, <1>6 DEF result, lines

\* CliEnds offers the adapter what the client can return, no more and no less.
LEMMA ResultsAre ==
  ASSUME MaxEvent >= 3, NEW wanted \in Thread \cup {None}
  PROVE  Stream!Results(Stream!Streams, wanted) =
           {result \in Result : wanted # None => result.thread = wanted}
<1> DEFINE Returned(lines) == [thread |-> Stream!Parse(lines, wanted).thread,
                               sel |-> Stream!Parse(lines, wanted).fact]
           Taken == {lines \in Stream!Streams :
                       \E status \in Stream!Statuses :
                         Stream!Classify(status, lines, wanted) = "none"}
           All == {result \in Result : wanted # None => result.thread = wanted}
<1>1. Stream!Results(Stream!Streams, wanted) = {Returned(lines) : lines \in Taken}
  BY DEF Stream!Results
<1>2. \A lines : (\E status \in Stream!Statuses : Stream!Classify(status, lines, wanted) = "none")
                   <=> Stream!Parse(lines, wanted).fault = "none"
  BY DEF Stream!Statuses, Stream!Classify
<1>3. ASSUME NEW lines \in Taken PROVE Returned(lines) \in All
  <2>1. lines \in Seq(Stream!Event) /\ Stream!Parse(lines, wanted).fault = "none"
    BY <1>2, <1>3, StreamsAreEvents
  <2>2. Stream!OneTurn(lines, wanted) /\ Stream!Parse(lines, wanted) = Stream!Scan(lines)
    BY <2>1, ParseIs
  <2>3. /\ Stream!Scan(lines).thread = lines[1].thread /\ Stream!Scan(lines).thread \in Thread
        /\ Stream!Scan(lines) \in Facts
    BY <2>1, <2>2, OneTurnIsAccepted
  <2>4. wanted # None => lines[1].thread = wanted
    BY <2>2 DEF Stream!OneTurn
  <2> QED
    BY <2>2, <2>3, <2>4 DEF Result, Facts
<1>4. ASSUME NEW result \in All PROVE \E lines \in Taken : result = Returned(lines)
  <2>1. /\ result.thread \in Thread /\ result.sel \in Selection \cup {None}
        /\ result = [thread |-> result.thread, sel |-> result.sel]
        /\ wanted # None => result.thread = wanted
    BY <1>4 DEF Result
  <2> DEFINE lines == Briefly(result.thread, result.sel)
  <2>2. /\ lines \in Stream!Streams /\ Stream!OneTurn(lines, wanted)
        /\ Stream!Parse(lines, wanted).thread = result.thread
        /\ Stream!Parse(lines, wanted).fact = result.sel
    BY <2>1, BriefTurn
  <2> HIDE DEF lines
  <2>3. Stream!Parse(lines, wanted).fault = "none"
    BY <2>2, StreamsAreEvents, ParseIs
  <2>4. lines \in Taken
    BY <1>2, <2>2, <2>3
  <2> QED
    BY <2>1, <2>2, <2>4
<1> HIDE DEF Taken, All, Returned
<1>5. {Returned(lines) : lines \in Taken} = All
  BY <1>3, <1>4
<1> QED
  BY <1>1, <1>5 DEF All

\* Of all streams of lines and of what is none, up to the limit and one over it, the two parsers
\* of stdout accept and report exactly what the definitions say that do not parse, they do
\* not contradict each other, and what the model of the CLI hands to the adapter is what
\* the client can return.  A turn takes three events, so the limit must allow as many.
THEOREM StreamAlwaysExact == ASSUME MaxEvent >= 3 PROVE Spec => []StreamExact
<1>1. \A wanted \in Thread \cup {None} :
        Stream!Results(Stream!Streams, wanted) =
          {result \in Result : wanted # None => result.thread = wanted}
  BY ResultsAre
<1>2. Stream!Exact(Stream!Streams)
  BY StreamsAreEvents, TurnIsExact, SandboxDominates, TheyAgree DEF Stream!Exact
<1>3. StreamExact
  BY <1>1, <1>2 DEF StreamExact
<1> QED
  BY <1>3, PTL

------------------------------------------------------------------------------
(***************************************************************************)
(* What the steps of one review know.                                      *)
(***************************************************************************)
Screened == {"sink", "classify", "select"}

\* The ledger and the transaction know the same; from the refresh on, all there is.
Learning ==
  /\ known = settled /\ (~login => gen = known)
  /\ pc \in {"screen"} \cup Screened \/ outcome = "review" => known = gen
  /\ pc = "run" => shown \notin 1 .. known

\* What the process left, by the step that has looked at it.
Leaving ==
  /\ left.leak <= gen
  /\ pc \in {"refresh", "screen"} \cup Screened => left.candidate = "empty"
  /\ pc \in Screened => left.leak = 0
  /\ retained => left = [candidate |-> "empty", leak |-> 0]

\* How far the attempt got.
Staged ==
  /\ pc \in {"classify", "select"} \/ outcome = "review" => retained
  /\ retained => pc \in {"classify", "select", "over"}
  /\ pc # "over" => outcome = "none"
  /\ pc = "select" \/ outcome = "review" => answer = [ending |-> "zero", envelope |-> "review"]
  /\ retained /\ outcome = "credential_refresh_failure" =>
       answer.ending \in {"zero", "nonzero"} /\ answer.envelope = "session_ended"

ReviewInv == ReviewTypeOK /\ Learning /\ Leaving /\ Staged /\ ReviewAsRequested

LEMMA ReviewLimits == /\ Unset \notin Model \cup Effort
                      /\ MaxRequest \in Nat \ {0} /\ MaxLogin \in Nat \ {0}
BY UnsetAssumption, LimitAssumption DEF UnsetAssumption, LimitAssumption

------------------------------------------------------------------------------
\* _parse_api_request_selection, one detail after another: the scan of n details extends
\* that of one less.
Unseen == [ok |-> TRUE, model |-> Unset, effort |-> Unset]
Observing(f, n) ==
  f = [i \in 0 .. n |->
         IF i = 0 THEN Unseen
         ELSE [ok |-> f[i - 1].ok /\ Fits(requests[i], f[i - 1], i - 1),
               model |-> requests[i].model, effort |-> requests[i].effort]]

LEMMA ObservingExists == \A n \in Nat : \E f : Observing(f, n)
<1> DEFINE T == {n \in Nat : \E f : Observing(f, n)}
<1>1. 0 \in T
  <2>1. Observing([i \in 0 .. 0 |-> Unseen], 0)
    BY DEF Observing
  <2> QED
    BY <2>1
<1>2. ASSUME NEW n \in Nat, n \in T PROVE n + 1 \in T
  <2>1. PICK f : Observing(f, n)
    BY <1>2
  <2> DEFINE g == [i \in 0 .. n + 1 |->
                     IF i <= n THEN f[i]
                     ELSE [ok |-> f[n].ok /\ Fits(requests[n + 1], f[n], n),
                           model |-> requests[n + 1].model, effort |-> requests[n + 1].effort]]
  <2>2. \A i \in 0 .. n : f[i] = IF i = 0 THEN Unseen
           ELSE [ok |-> f[i - 1].ok /\ Fits(requests[i], f[i - 1], i - 1),
                 model |-> requests[i].model, effort |-> requests[i].effort]
    BY <2>1 DEF Observing
  <2>3. \A i \in 0 .. n + 1 : g[i] = IF i = 0 THEN Unseen
           ELSE [ok |-> g[i - 1].ok /\ Fits(requests[i], g[i - 1], i - 1),
                 model |-> requests[i].model, effort |-> requests[i].effort]
    <3> TAKE i \in 0 .. n + 1
    <3>1. CASE i = 0
      <4>1. 0 \in 0 .. n /\ 0 <= n /\ g[0] = f[0]
        OBVIOUS
      <4> QED
        BY <2>2, <3>1, <4>1
    <3>2. CASE i # 0 /\ i <= n
      <4>1. /\ i \in 0 .. n /\ i - 1 \in 0 .. n
            /\ i \in 0 .. n + 1 /\ i - 1 \in 0 .. n + 1 /\ i - 1 <= n
        BY <3>2
      <4>2. g[i] = f[i] /\ g[i - 1] = f[i - 1]
        BY <3>2, <4>1
      <4> QED
        BY <2>2, <3>2, <4>1, <4>2
    <3>3. CASE i = n + 1
      <4>1. i - 1 = n /\ ~(i <= n) /\ n \in 0 .. n + 1 /\ g[n] = f[n] /\ i # 0
        BY <3>3
      <4> QED
        BY <3>3, <4>1
    <3> QED
      BY <3>1, <3>2, <3>3
  <2> HIDE DEF g
  <2>4. Observing(g, n + 1)
    BY <2>3 DEF Observing, g
  <2> QED
    BY <2>4
<1> HIDE DEF T
<1>3. Nat \subseteq T
  BY <1>1, <1>2, Induct
<1> QED
  BY <1>3 DEF T

\* A scan that is satisfied was satisfied at every detail before.
LEMMA ScanFits ==
  ASSUME requests \in Seq(Request \cup {Malformed}), ScanRequests.ok
  PROVE  \E f : /\ ScanRequests = f[Len(requests)] /\ f[0] = Unseen
                /\ \A i \in 1 .. Len(requests) :
                     /\ f[i].model = requests[i].model /\ f[i].effort = requests[i].effort
                     /\ Fits(requests[i], f[i - 1], i - 1)
<1> DEFINE n == Len(requests)
           f == CHOOSE f : Observing(f, n)
<1>1. n \in Nat
  OBVIOUS
<1>2. Observing(f, n)
  BY <1>1, ObservingExists
<1>3. ScanRequests = f[n]
  BY DEF ScanRequests, Observing, Unseen
<1> HIDE DEF f
<1>4. /\ f[0] = Unseen
      /\ \A i \in 1 .. n : f[i] = [ok |-> f[i - 1].ok /\ Fits(requests[i], f[i - 1], i - 1),
                                  model |-> requests[i].model, effort |-> requests[i].effort]
  <2>1. \A i \in 0 .. n : f[i] = IF i = 0 THEN Unseen
           ELSE [ok |-> f[i - 1].ok /\ Fits(requests[i], f[i - 1], i - 1),
                 model |-> requests[i].model, effort |-> requests[i].effort]
    BY <1>2 DEF Observing
  <2>2. 0 \in 0 .. n /\ \A i \in 1 .. n : i \in 0 .. n /\ i # 0
    BY <1>1
  <2> QED
    BY <2>1, <2>2, Zenon
<1>9. \A i \in 1 .. n : /\ f[i].ok => f[i - 1].ok /\ Fits(requests[i], f[i - 1], i - 1)
                        /\ f[i].model = requests[i].model /\ f[i].effort = requests[i].effort
  <2> TAKE i \in 1 .. n
  <2> DEFINE fits == f[i - 1].ok /\ Fits(requests[i], f[i - 1], i - 1)
  <2>1. f[i] = [ok |-> fits, model |-> requests[i].model, effort |-> requests[i].effort]
    BY <1>4
  <2> HIDE DEF fits
  <2>2. f[i].ok = fits
    BY <2>1
  <2>3. f[i].model = requests[i].model /\ f[i].effort = requests[i].effort
    BY <2>1
  <2>4. f[i].ok => fits
    BY <2>2, Zenon
  <2> QED
    BY <2>3, <2>4 DEF fits
<1> DEFINE T == {k \in Nat : k <= n => f[n - k].ok}
<1>5. 0 \in T
  BY <1>1, <1>3
<1>6. ASSUME NEW k \in Nat, k \in T PROVE k + 1 \in T
  <2> SUFFICES ASSUME k + 1 <= n PROVE f[n - (k + 1)].ok
    OBVIOUS
  <2>1. n - k \in 1 .. n /\ f[n - k].ok /\ n - (k + 1) = (n - k) - 1
    BY <1>1, <1>6
  <2> QED
    BY <1>9, <2>1
<1>7. Nat \subseteq T
  BY <1>5, <1>6, Induct
<1>8. \A i \in 1 .. n : Fits(requests[i], f[i - 1], i - 1)
  <2> TAKE i \in 1 .. n
  <2>1. n - i \in Nat /\ n - i <= n /\ n - (n - i) = i
    BY <1>1
  <2>2. f[i].ok
    BY <1>7, <2>1
  <2> QED
    BY <1>9, <2>2
<1> QED
  BY <1>3, <1>4, <1>8, <1>9

LEMMA ScanTyped ==
  ASSUME requests \in Seq(Request \cup {Malformed}), ScanRequests.ok
  PROVE  ScanRequests.effort \in Effort \cup {Unset}
<1>1. PICK f : /\ ScanRequests = f[Len(requests)] /\ f[0] = Unseen
               /\ \A i \in 1 .. Len(requests) : f[i].effort = requests[i].effort
  BY ScanFits
<1>2. \A i \in 1 .. Len(requests) : requests[i].effort \in Effort \cup {Unset}
  BY DEF Request, Malformed
<1>3. Len(requests) = 0 \/ Len(requests) \in 1 .. Len(requests)
  OBVIOUS
<1> QED
  BY <1>1, <1>2, <1>3 DEF Unseen

\* So every request used what the last one used, and what was asked for.
LEMMA ScanAgrees ==
  ASSUME requests \in Seq(Request \cup {Malformed}), ScanRequests.ok
  PROVE  /\ Len(requests) <= MaxRequest
         /\ requests = <<>> => ScanRequests.model = Unset /\ ScanRequests.effort = Unset
         /\ requests # <<>> => /\ ScanRequests.model \in Model
                               /\ chosen.model \in {Unset, ScanRequests.model}
                               /\ chosen.effort \in {Unset, ScanRequests.effort}
         /\ \A i \in 1 .. Len(requests) :
              requests[i].model = ScanRequests.model /\ requests[i].effort = ScanRequests.effort
<1> DEFINE n == Len(requests)
<1>1. PICK f : /\ ScanRequests = f[n] /\ f[0] = Unseen
               /\ \A i \in 1 .. n :
                    /\ f[i].model = requests[i].model /\ f[i].effort = requests[i].effort
                    /\ Fits(requests[i], f[i - 1], i - 1)
  BY ScanFits
<1>2. n \in Nat /\ (requests = <<>> <=> n = 0)
  OBVIOUS
<1>3. \A i \in 1 .. n : requests[i] \in Request /\ requests[i].model \in Model
  <2> TAKE i \in 1 .. n
  <2>1. requests[i].format # "malformed"
    BY <1>1 DEF Fits
  <2> QED
    BY <2>1 DEF Request, Malformed
<1> DEFINE T == {k \in Nat : k < n => /\ requests[n - k].model = requests[n].model
                                     /\ requests[n - k].effort = requests[n].effort}
<1>4. 0 \in T
  BY <1>2
<1>5. ASSUME NEW k \in Nat, k \in T PROVE k + 1 \in T
  <2> SUFFICES ASSUME k + 1 < n PROVE k + 1 \in T
    OBVIOUS
  <2> DEFINE i == n - k
  <2>1. i \in 1 .. n /\ i - 1 \in 1 .. n /\ i - 1 > 0 /\ n - (k + 1) = i - 1 /\ k < n
    BY <1>2
  <2>2. requests[i].model = requests[n].model /\ requests[i].effort = requests[n].effort
    BY <1>5, <2>1
  <2> HIDE DEF i
  <2>3. Fits(requests[i], f[i - 1], i - 1)
    BY <1>1, <2>1
  <2>4. f[i - 1].model = requests[i - 1].model /\ f[i - 1].effort = requests[i - 1].effort
    BY <1>1, <2>1
  <2>5. requests[i - 1].model \in Model
    BY <1>3, <2>1
  <2>6. requests[i].model = requests[i - 1].model /\ requests[i].effort = requests[i - 1].effort
    BY <2>1, <2>3, <2>4, <2>5, ReviewLimits DEF Fits
  <2> QED
    BY <2>1, <2>2, <2>6
<1> HIDE DEF T
<1>6. Nat \subseteq T
  BY <1>4, <1>5, Induct
<1>7. \A i \in 1 .. n :
        requests[i].model = requests[n].model /\ requests[i].effort = requests[n].effort
  <2> TAKE i \in 1 .. n
  <2>1. n - i \in Nat /\ n - i < n /\ n - (n - i) = i
    BY <1>2
  <2> QED
    BY <1>6, <2>1 DEF T
<1>8. CASE n = 0
  BY <1>1, <1>2, <1>8, ReviewLimits DEF Unseen
<1>9. CASE n # 0
  <2>1. n \in 1 .. n /\ n - 1 \in Nat
    BY <1>2, <1>9
  <2>2. ScanRequests.model = requests[n].model /\ ScanRequests.effort = requests[n].effort
    BY <1>1, <2>1
  <2>3. Fits(requests[n], f[n - 1], n - 1)
    BY <1>1, <2>1
  <2>4. n <= MaxRequest
    BY <1>2, <2>3, ReviewLimits DEF Fits
  <2> QED
    BY <1>2, <1>3, <1>7, <1>9, <2>1, <2>2, <2>3, <2>4 DEF Fits
<1> QED
  BY <1>8, <1>9

------------------------------------------------------------------------------
LEMMA ReviewStarts == ReviewInit => ReviewInv
<1> SUFFICES ASSUME ReviewInit PROVE ReviewInv
  OBVIOUS
<1>1. ReviewTypeOK
  <2>1. left \in [candidate : {"empty", "changed"}, leak : 0 .. MaxLogin]
    BY ReviewLimits DEF ReviewInit
  <2>2. answer \in [ending : Endings, envelope : Envelopes] /\ observed \in Selections
    BY DEF ReviewInit, NoAnswer, Endings, Envelopes, Selections
  <2>3. requests \in Seq(Request \cup {Malformed})
    BY DEF ReviewInit
  <2>4. /\ gen \in 1 .. MaxLogin /\ settled \in 1 .. MaxLogin
        /\ known \in 1 .. MaxLogin /\ shown \in 0 .. MaxLogin
    BY ReviewLimits DEF ReviewInit
  <2>5. /\ pc = "ask" /\ login \in BOOLEAN /\ chosen \in Selections
        /\ retained = FALSE /\ outcome = "none"
    BY DEF ReviewInit
  <2> QED
    BY <2>1, <2>2, <2>3, <2>4, <2>5 DEF ReviewTypeOK, Reasons
<1>2. Learning /\ Leaving /\ Staged /\ ReviewAsRequested
  BY DEF ReviewInit, NoAnswer, Learning, Leaving, Staged, ReviewAsRequested, Screened
<1> QED
  BY <1>1, <1>2 DEF ReviewInv

\* What ClaudeClient.review makes of an answer.
LEMMA VerdictIs ==
  ASSUME NEW ending \in Endings, NEW envelope \in Envelopes
  PROVE  LET why == Verdict(ending, envelope) IN
         /\ why \in Reasons /\ why # "review"
         /\ why = "none" => ending = "zero" /\ envelope = "review"
         /\ why = "credential_refresh_failure" =>
              ending \in {"zero", "nonzero"} /\ envelope = "session_ended"
BY DEF Verdict, Endings, Envelopes, Reasons

LEMMA ReviewTypes ==
  ASSUME ReviewTypeOK, [ReviewNext]_reviewVars
  PROVE  ReviewTypeOK'
<1> USE ReviewLimits DEF ReviewTypeOK, Finish, Goto, Reasons
<1>1. CASE SendBundle
  BY <1>1 DEF SendBundle, Learned, credential
<1>2. CASE End
  BY <1>2, ReviewLimits DEF End, credential
<1>3. CASE CheckCandidate \/ Screen \/ SinkReview
  BY <1>3 DEF CheckCandidate, Screen, SinkReview, credential
<1>4. CASE RefreshLogin
  BY <1>4 DEF RefreshLogin, Learned, credential
<1>5. CASE Classify
  <2>1. answer' \in [ending : Endings, envelope : Envelopes]
    BY <1>5 DEF Classify
  <2>2. Verdict(answer'.ending, answer'.envelope) \in Reasons
    BY <2>1, VerdictIs
  <2> QED
    BY <1>5, <2>1, <2>2 DEF Classify, credential
<1>6. CASE Select
  <2>1. observed' \in Selections
    <3>1. UNCHANGED observed \/ \E model \in Model \cup {Unset}, usage \in SUBSET Model :
            /\ Diagnosed
            /\ observed' = [model |-> Sole(({ScanRequests.model, model} \cup usage) \ {Unset}),
                            effort |-> ScanRequests.effort]
      BY <1>6 DEF Select
    <3>2. CASE UNCHANGED observed
      BY <3>2
    <3>3. ASSUME NEW model \in Model \cup {Unset}, NEW usage \in SUBSET Model, Diagnosed,
                 observed' = [model |-> Sole(({ScanRequests.model, model} \cup usage) \ {Unset}),
                              effort |-> ScanRequests.effort]
          PROVE  observed' \in Selections
      <4>1. ScanRequests.model \in Model \cup {Unset} /\ ScanRequests.effort \in Effort \cup {Unset}
        BY <3>3, ReviewLimits, ScanAgrees, ScanTyped DEF Diagnosed
      <4> DEFINE models == ({ScanRequests.model, model} \cup usage) \ {Unset}
      <4>2. models \subseteq Model
        BY <4>1
      <4> HIDE DEF models
      <4>3. Sole(models) \in Model \cup {Unset}
        BY <4>2 DEF Sole
      <4> QED
        BY <3>3, <4>1, <4>3 DEF Selections, models
    <3> QED
      BY <3>1, <3>2, <3>3
  <2> QED
    BY <1>6, <2>1 DEF Select, credential
<1>7. CASE AskApi
  BY <1>7 DEF AskApi, credential
<1>8. CASE RotateLogin \/ Reviewed \/ UNCHANGED reviewVars
  BY <1>8, ReviewLimits DEF RotateLogin, Reviewed, reviewVars, credential
<1> QED
  BY <1>1, <1>2, <1>3, <1>4, <1>5, <1>6, <1>7, <1>8 DEF ReviewNext, ReviewStep

LEMMA ReviewStages ==
  ASSUME ReviewInv, [ReviewNext]_reviewVars
  PROVE  Learning' /\ Leaving' /\ Staged'
<1> USE DEF ReviewInv, ReviewTypeOK, Learning, Leaving, Staged, Screened, Finish, Goto
<1>1. CASE SendBundle
  BY <1>1 DEF SendBundle, Learned, credential
<1>2. CASE End
  BY <1>2 DEF End, credential
<1>3. CASE CheckCandidate \/ Screen \/ SinkReview
  BY <1>3 DEF CheckCandidate, Screen, SinkReview, credential
<1>4. CASE RefreshLogin
  BY <1>4 DEF RefreshLogin, Learned, credential
<1>5. CASE Classify
  <2>1. /\ pc = "classify" /\ known = gen /\ left = [candidate |-> "empty", leak |-> 0]
        /\ retained /\ outcome = "none"
        /\ UNCHANGED <<login, shown, left, gen, settled, known, retained>>
        /\ answer' \in [ending : Endings, envelope : Envelopes]
    BY <1>5 DEF Classify, credential
  <2>2. CASE Verdict(answer'.ending, answer'.envelope) = "none"
    <3>1. answer' = [ending |-> "zero", envelope |-> "review"]
      BY <2>1, <2>2, VerdictIs
    <3>2. pc' = "select" /\ outcome' = "none"
      BY <1>5, <2>1, <2>2 DEF Classify
    <3> QED
      BY <2>1, <3>1, <3>2
  <2>3. CASE Verdict(answer'.ending, answer'.envelope) # "none"
    <3>1. pc' = "over" /\ outcome' = Verdict(answer'.ending, answer'.envelope)
      BY <1>5, <2>3 DEF Classify
    <3>2. outcome' # "review"
      BY <2>1, <3>1, VerdictIs
    <3>3. outcome' = "credential_refresh_failure" =>
            answer'.ending \in {"zero", "nonzero"} /\ answer'.envelope = "session_ended"
      BY <2>1, <3>1, VerdictIs
    <3> QED
      BY <2>1, <3>1, <3>2, <3>3
  <2> QED
    BY <2>2, <2>3
<1>6. CASE Select
  BY <1>6 DEF Select, credential
<1>7. CASE AskApi \/ RotateLogin \/ Reviewed \/ UNCHANGED reviewVars
  BY <1>7 DEF AskApi, RotateLogin, Reviewed, reviewVars, credential
<1> QED
  BY <1>1, <1>2, <1>3, <1>4, <1>5, <1>6, <1>7 DEF ReviewNext, ReviewStep

\* What is reported is what the scan found.
LEMMA ReviewRequested ==
  ASSUME ReviewInv, [ReviewNext]_reviewVars
  PROVE  ReviewAsRequested'
<1>1. CASE Select /\ outcome' = "review"
  <2>1. PICK model \in Model \cup {Unset}, usage \in SUBSET Model :
          /\ Diagnosed /\ Agrees(model, usage)
          /\ observed' = [model |-> Sole(({ScanRequests.model, model} \cup usage) \ {Unset}),
                          effort |-> ScanRequests.effort]
    BY <1>1 DEF Select, Finish
  <2>2. UNCHANGED <<requests, chosen>> /\ chosen \in Selections
        /\ requests \in Seq(Request \cup {Malformed})
    BY <1>1 DEF Select, ReviewInv, ReviewTypeOK
  <2>3. ScanRequests.ok
    BY <2>1 DEF Diagnosed
  <2>4. observed'.effort = ScanRequests.effort
    BY <2>1
  <2>5. CASE requests = <<>>
    <3>1. chosen = [model |-> Unset, effort |-> Unset]
      BY <2>1, <2>2, <2>5 DEF Diagnosed, Selections
    <3> QED
      BY <2>2, <2>5, <3>1, ReviewLimits DEF ReviewAsRequested
  <2>6. CASE requests # <<>>
    <3>1. ScanRequests.model \in Model /\ ScanRequests.model # Unset
      BY <2>2, <2>3, <2>6, ReviewLimits, ScanAgrees
    <3>2. ({ScanRequests.model, model} \cup usage) \ {Unset} = {ScanRequests.model}
      BY <2>1, <3>1 DEF Agrees
    <3>3. observed'.model = ScanRequests.model
      BY <2>1, <3>2 DEF Sole
    <3> QED
      BY <2>2, <2>3, <2>4, <2>6, <3>3, ReviewLimits, ScanAgrees DEF ReviewAsRequested
  <2> QED
    BY <2>5, <2>6
<1>2. CASE outcome' # "review"
  BY <1>2 DEF ReviewAsRequested
<1>3. CASE ~Select /\ outcome' = "review"
  <2>1. outcome = "review" /\ pc = "over"
    <3>1. ~Classify
      BY <1>3, VerdictIs DEF Classify, ReviewInv, Staged, Goto, Finish
    <3> QED
      BY <1>3, <3>1 DEF ReviewInv, Staged, ReviewNext, ReviewStep, SendBundle, End, CheckCandidate,
         RefreshLogin, Screen, SinkReview, AskApi,
         RotateLogin, Reviewed, reviewVars, Finish, Goto
  <2>2. UNCHANGED reviewVars
    BY <1>3, <2>1 DEF ReviewNext, ReviewStep, SendBundle, End, CheckCandidate, RefreshLogin, Screen,
       SinkReview, Classify,
       AskApi, RotateLogin, Reviewed
  <2> QED
    BY <2>1, <2>2 DEF ReviewInv, ReviewAsRequested, reviewVars
<1> QED
  BY <1>1, <1>2, <1>3

LEMMA ReviewInvariance == ReviewSpec => []ReviewInv
<1>1. ReviewInv /\ [ReviewNext]_reviewVars => ReviewInv'
  BY ReviewTypes, ReviewStages, ReviewRequested DEF ReviewInv
<1> QED
  BY ReviewStarts, <1>1, PTL DEF ReviewSpec

\* A review is always in a state its steps account for.
THEOREM ReviewTypeCorrect == ReviewSpec => []ReviewTypeOK
<1>1. ReviewInv => ReviewTypeOK
  BY DEF ReviewInv
<1> QED
  BY ReviewInvariance, <1>1, PTL

\* A bundle that is sent to the API contains no generation of the login that exists by
\* then, and an attempt that is kept holds none the process itself let out: the screening
\* uses a ledger that was refreshed after the process ended.
THEOREM NothingEverLeaks == ReviewSpec => []NothingLeaks
<1>1. ReviewInv => NothingLeaks
  BY DEF ReviewInv, ReviewTypeOK, Learning, Leaving, NothingLeaks
<1> QED
  BY ReviewInvariance, <1>1, PTL

\* A review the loop is given has its login settled and its attempt on disk, comes from a
\* process that ended well, and reports the one model and effort that every one of its
\* requests used and that were asked for, however many requests there were.
THEOREM ReviewAlwaysEarned == ReviewSpec => []ReviewIsEarned
<1>1. ReviewInv => ReviewIsEarned
  BY DEF ReviewInv, Learning, Staged, ReviewIsEarned, SettledBeforeAccepted,
     OutcomeIsEarned
<1> QED
  BY ReviewInvariance, <1>1, PTL
=============================================================================
