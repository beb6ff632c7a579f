------------------------ MODULE ProjectRecovery_proofs ------------------------
(***************************************************************************)
(* Proofs that a selector project can always be opened again.              *)
(*                                                                         *)
(* A project is what its history replays to, so the first part proves what *)
(* replaying does for histories of any length: one more operation is one   *)
(* more command (ProjectGrows), and a legal command keeps the accepted     *)
(* ranges apart and replaces no file of the output folder (ApplySound).    *)
(* A recursive function has one value because two of them cannot differ    *)
(* first anywhere: the least number at which they did would be one more    *)
(* than a number at which they agree (LeastNumber).                        *)
(*                                                                         *)
(* The second part adds to the invariant of ProjectStore_proofs what the   *)
(* disk still knows: every history is lawful (Laws), everything on it is   *)
(* as before or as after the pending operation (Near), at most one file is *)
(* damaged (Hurt), and a head that names the pending operation has a       *)
(* ledger to replay (Witnessed).                                           *)
(***************************************************************************)
EXTENDS ProjectStore_proofs, FiniteSetTheorems, WellFoundedInduction

-----------------------------------------------------------------------------
(* A set of natural numbers that is not empty has a least element. *)
LEMMA LeastNumber ==
  ASSUME NEW T \in SUBSET Nat, T # {}
  PROVE  \E m \in T : \A n \in T : m <= n
<1> DEFINE R == OpToRel(<, Nat)
<1>1. IsWellFoundedOn(R, Nat)
  BY NatLessThanWellFounded
<1>2. \A m, n \in Nat : n < m => <<n, m>> \in R
  BY DEF OpToRel
<1> HIDE DEF R
<1>3. PICK m \in T : \A n \in T : ~(<<n, m>> \in R)
  BY <1>1, WFMin
<1>4. ASSUME NEW n \in T PROVE m <= n
  <2>1. m \in Nat /\ n \in Nat /\ ~(n < m)
    BY <1>2, <1>3, <1>4
  <2>2. QED
    BY <2>1
<1>5. QED
  BY <1>4

-----------------------------------------------------------------------------
(* Replaying a history: the projects it goes through. *)

Replay(history, n, f) ==
    f = [i \in 0..n |-> IF i = 0 THEN NewProject ELSE Apply(f[i - 1], history[i].command)]

(* Two replays of histories that begin alike go through the same projects. *)
LEMMA ReplaysAgree ==
  ASSUME NEW g, NEW h, NEW m \in Nat, NEW n \in Nat, m <= n, NEW e, NEW f,
         Replay(g, m, e), Replay(h, n, f), \A i \in 1..m : g[i] = h[i]
  PROVE  e[m] = f[m]
<1> DEFINE T == {i \in 0..m : e[i] # f[i]}
<1>1. SUFFICES ASSUME e[m] # f[m] PROVE FALSE
  OBVIOUS
<1>2. T \in SUBSET Nat /\ T # {}
  BY <1>1
<1>3. PICK k \in T : \A i \in T : k <= i
  BY <1>2, LeastNumber
<1>4. /\ e[k] = IF k = 0 THEN NewProject ELSE Apply(e[k - 1], g[k].command)
      /\ f[k] = IF k = 0 THEN NewProject ELSE Apply(f[k - 1], h[k].command)
  BY <1>3 DEF Replay
<1>5. k # 0
  BY <1>3, <1>4
<1>6. k - 1 \notin T
  BY <1>3, <1>5
<1>7. e[k - 1] = f[k - 1]
  BY <1>3, <1>5, <1>6
<1>8. QED
  BY <1>3, <1>4, <1>5, <1>7

(* Every beginning of a history has a replay. *)
LEMMA ReplayExists ==
  ASSUME NEW h, NEW n \in Nat
  PROVE  \E f : Replay(h, n, f)
<1> DEFINE T == {m \in Nat : ~\E f : Replay(h, m, f)}
<1>1. SUFFICES ASSUME n \in T PROVE FALSE
  OBVIOUS
<1>2. PICK m \in T : \A i \in T : m <= i
  BY <1>1, LeastNumber
<1>3. m # 0
  <2> DEFINE f == [i \in 0..0 |-> NewProject]
  <2>1. Replay(h, 0, f)
    BY DEF Replay
  <2>2. QED
    BY <1>2, <2>1
<1>4. m - 1 \in Nat /\ m - 1 \notin T
  BY <1>2, <1>3
<1>5. PICK f : Replay(h, m - 1, f)
  BY <1>4
<1> DEFINE g == [i \in 0..m |-> IF i = m THEN Apply(f[m - 1], h[m].command) ELSE f[i]]
<1>6. \A i \in 0..m : g[i] = IF i = 0 THEN NewProject ELSE Apply(g[i - 1], h[i].command)
  <2>1. ASSUME NEW i \in 0..m
        PROVE  g[i] = IF i = 0 THEN NewProject ELSE Apply(g[i - 1], h[i].command)
    <3>1. \A k \in 0..(m - 1) : g[k] = f[k] /\ f[k] = IF k = 0 THEN NewProject ELSE Apply(f[k - 1], h[k].command)
      BY <1>4, <1>5 DEF Replay
    <3>2. CASE i = m
      BY <1>3, <1>4, <3>1, <3>2
    <3>3. CASE i # m
      <4>1. i \in 0..(m - 1) /\ (i # 0 => i - 1 \in 0..(m - 1))
        BY <1>4, <3>3
      <4>2. QED
        BY <3>1, <4>1
    <3>4. QED
      BY <3>2, <3>3
  <2>2. QED
    BY <2>1
<1>7. Replay(h, m, g)
  BY <1>6 DEF Replay
<1>8. QED
  BY <1>2, <1>7

LEMMA ProjectReplays ==
  ASSUME NEW h \in Seq(Operation)
  PROVE  \E f : Replay(h, Len(h), f) /\ Project(h) = f[Len(h)]
<1> DEFINE f == CHOOSE f : Replay(h, Len(h), f)
<1>1. Project(h) = f[Len(h)]
  BY DEF Project, Replay
<1>2. Replay(h, Len(h), f)
  BY ReplayExists
<1>3. QED
  BY <1>1, <1>2

(* The law of replay: one operation more is one command more. *)
LEMMA ProjectGrows ==
  ASSUME NEW h \in Seq(Operation), NEW r \in Operation
  PROVE  Project(Append(h, r)) = Apply(Project(h), r.command)
<1> DEFINE g == Append(h, r)  n == Len(h)
<1>1. g \in Seq(Operation) /\ Len(g) = n + 1 /\ g[n + 1] = r /\ n \in Nat
      /\ \A i \in 1..n : g[i] = h[i]
  OBVIOUS
<1> HIDE DEF g
<1>2. PICK e : Replay(h, n, e) /\ Project(h) = e[n]
  BY ProjectReplays
<1>3. PICK f : Replay(g, n + 1, f) /\ Project(g) = f[n + 1]
  BY <1>1, ProjectReplays
<1>4. e[n] = f[n]
  <2>1. n + 1 \in Nat /\ n <= n + 1 /\ \A i \in 1..n : h[i] = g[i]
    BY <1>1
  <2> HIDE DEF n
  <2>2. QED
    BY <1>1, <1>2, <1>3, <2>1, ReplaysAgree
<1>5. f[n + 1] = Apply(f[n], g[n + 1].command)
  BY <1>1, <1>3 DEF Replay
<1>6. QED
  BY <1>1, <1>2, <1>3, <1>4, <1>5 DEF g

LEMMA ProjectBegins == Project(<<>>) = NewProject
<1>1. PICK f : Replay(<<>>, 0, f) /\ Project(<<>>) = f[0]
  <2>1. <<>> \in Seq(Operation) /\ Len(<<>>) = 0
    OBVIOUS
  <2>2. QED
    BY <2>1, ProjectReplays
<1>2. QED
  BY <1>1 DEF Replay

-----------------------------------------------------------------------------
(* What a legal command does to a project whose accepted ranges are apart. *)

DecisionShape == [image : Image, start : Board, accepted : BOOLEAN]

ProjectShape == [cursor : Image, next : Nat \ {0}, direction : Direction,
                 complete : BOOLEAN, decisions : Seq(DecisionShape)]

RangesApart(decisions) ==
    \A d, e \in Kept(decisions) : d # e => ~Overlap(d.start, e.start) /\ d.image # e.image

Sound(project) == project \in ProjectShape /\ RangesApart(project.decisions)

(* Two sets of decisions never say different things of one board. *)
Agree(kept, kept2) == \A d \in kept, e \in kept2 : d.start = e.start => d = e

LEMMA OverlapFacts ==
  /\ \A a \in Board : Overlap(a, a)
  /\ \A a, b \in Nat : Overlap(a, b) <=> Overlap(b, a)
BY CommandsAssumption DEF Overlap, RangeEnd, Smaller, Board

LEMMA KeptAppend ==
  ASSUME NEW s \in Seq(DecisionShape), NEW d \in DecisionShape
  PROVE  /\ Append(s, d) \in Seq(DecisionShape)
         /\ Kept(Append(s, d)) = Kept(s) \cup {e \in {d} : e.accepted}
<1> DEFINE t == Append(s, d)
<1>1. /\ DOMAIN t = DOMAIN s \cup {Len(s) + 1} /\ t[Len(s) + 1] = d
      /\ \A i \in DOMAIN s : t[i] = s[i]
      /\ t \in Seq(DecisionShape)
  OBVIOUS
<1> HIDE DEF t
<1>2. Kept(t) = Kept(s) \cup {e \in {d} : e.accepted}
  BY <1>1 DEF Kept
<1>3. QED
  BY <1>1, <1>2 DEF t

LEMMA KeptFront ==
  ASSUME NEW s \in Seq(DecisionShape), s # <<>>
  PROVE  /\ Front(s) \in Seq(DecisionShape) /\ Last(s) \in DecisionShape
         /\ Kept(Front(s)) \subseteq Kept(s)
<1> DEFINE t == Front(s)
<1>1. Len(s) \in Nat \ {0}
  OBVIOUS
<1>2. /\ t \in Seq(DecisionShape) /\ DOMAIN t \subseteq DOMAIN s
      /\ \A i \in DOMAIN t : t[i] = s[i]
  BY <1>1 DEF Front
<1>3. Last(s) \in DecisionShape
  BY <1>1 DEF Last
<1> HIDE DEF t
<1>4. Kept(t) \subseteq Kept(s)
  BY <1>2 DEF Kept
<1>5. QED
  BY <1>2, <1>3, <1>4 DEF t

(* A decision that is refused nothing takes a range and an image of its own. *)
LEMMA DecideSound ==
  ASSUME NEW p, Sound(p), NEW accepted \in BOOLEAN, RangeFree(p),
         accepted => \A d \in Kept(p.decisions) : d.image # p.cursor
  PROVE  /\ Sound(Decide(p, accepted))
         /\ Agree(Kept(p.decisions), Kept(Decide(p, accepted).decisions))
<1> DEFINE q == Decide(p, accepted)  new == Decision(p, accepted)  kept == Kept(p.decisions)
<1>1. /\ p \in ProjectShape /\ p.next \in Board /\ p.cursor \in Image
      /\ p.decisions \in Seq(DecisionShape)
  BY CommandsAssumption DEF Sound, ProjectShape, RangeFree, Board
<1>2. new \in DecisionShape /\ new.start = p.next /\ new.image = p.cursor
      /\ new.accepted = accepted
  BY <1>1 DEF Decision, DecisionShape
<1>3. q.decisions = Append(p.decisions, new)
  BY <1>1 DEF Decide, ProjectShape
<1>4. /\ NextStart(p.direction, p.next) \in Nat \ {0}
      /\ Terminal(p.direction, p.next) \in BOOLEAN
      /\ Smaller(p.cursor + 1, Images) \in Image
  <2>1. p.next \in Nat \ {0} /\ Width \in Nat \ {0}
    BY <1>1, CommandsAssumption DEF Board
  <2>2. NextStart(p.direction, p.next) \in Nat \ {0}
    BY <2>1 DEF NextStart
  <2>3. Terminal(p.direction, p.next) \in BOOLEAN
    BY Zenon DEF Terminal
  <2>4. Smaller(p.cursor + 1, Images) \in Image
    BY <1>1, CommandsAssumption DEF Smaller, Image
  <2>5. QED
    BY <2>2, <2>3, <2>4
<1> HIDE DEF new
<1>5. q \in ProjectShape
  <2>1. Append(p.decisions, new) \in Seq(DecisionShape)
    BY <1>1, <1>2
  <2>2. /\ q.decisions = Append(p.decisions, new)
        /\ q = [p EXCEPT !.decisions = Append(p.decisions, new),
                         !.complete = Terminal(p.direction, p.next),
                         !.next = NextStart(p.direction, p.next),
                         !.cursor = IF accepted THEN Smaller(p.cursor + 1, Images) ELSE p.cursor]
    BY <1>1, <1>3 DEF Decide, ProjectShape, new
  <2>3. QED
    BY <1>1, <1>4, <2>1, <2>2 DEF ProjectShape
<1> HIDE DEF q
<1>6. Kept(q.decisions) = kept \cup {e \in {new} : e.accepted}
  BY <1>1, <1>2, <1>3, KeptAppend
<1>7. \A d \in kept : d \in DecisionShape /\ ~Overlap(d.start, p.next)
  BY <1>1 DEF RangeFree, Kept
<1>8. \A d \in kept : d.start # new.start /\ ~Overlap(d.start, new.start)
                      /\ ~Overlap(new.start, d.start)
  <2>1. ASSUME NEW d \in kept PROVE d.start \in Board
    BY <1>7 DEF DecisionShape
  <2>2. \A b \in Board : b \in Nat
    BY DEF Board
  <2>3. QED
    BY <1>1, <1>2, <1>7, <2>1, <2>2, OverlapFacts
<1>9. RangesApart(q.decisions)
  <2>1. SUFFICES ASSUME NEW d \in kept \cup {e \in {new} : e.accepted},
                        NEW f \in kept \cup {e \in {new} : e.accepted}, d # f
                 PROVE  ~Overlap(d.start, f.start) /\ d.image # f.image
    BY <1>6 DEF RangesApart
  <2>2. CASE d \in kept /\ f \in kept
    BY <2>1, <2>2 DEF Sound, RangesApart
  <2>3. CASE d = new /\ accepted /\ f \in kept
    BY <1>2, <1>8, <2>3
  <2>4. CASE f = new /\ accepted /\ d \in kept
    BY <1>2, <1>8, <2>4
  <2>5. QED
    BY <1>2, <2>1, <2>2, <2>3, <2>4
<1>10. Agree(kept, Kept(q.decisions))
  <2>1. \A d, e \in kept : d.start = e.start => d = e
    <3>1. ASSUME NEW d \in kept, NEW e \in kept, d.start = e.start, d # e PROVE FALSE
      BY <1>7, <3>1, OverlapFacts DEF Sound, RangesApart, DecisionShape
    <3>2. QED
      BY <3>1
  <2>2. QED
    BY <1>6, <1>8, <2>1 DEF Agree
<1>11. QED
  BY <1>5, <1>9, <1>10 DEF Sound, q

LEMMA ApplySound ==
  ASSUME NEW p, Sound(p), NEW revision, NEW c \in CommandShape, Legal(p, revision, c)
  PROVE  /\ Sound(Apply(p, c))
         /\ Agree(Kept(p.decisions), Kept(Apply(p, c).decisions))
<1> DEFINE kept == Kept(p.decisions)
<1>1. /\ p \in ProjectShape /\ p.decisions \in Seq(DecisionShape) /\ RangesApart(p.decisions)
      /\ \A d \in kept : d \in DecisionShape
  BY DEF Sound, ProjectShape, Kept
<1>2. \A d, e \in kept : d.start = e.start => d = e
  <2>1. ASSUME NEW d \in kept, NEW e \in kept, d.start = e.start, d # e PROVE FALSE
    BY <1>1, <2>1, OverlapFacts DEF RangesApart, DecisionShape
  <2>2. QED
    BY <2>1
<1>3. ASSUME NEW q \in ProjectShape, Kept(q.decisions) \subseteq kept
      PROVE  Sound(q) /\ Agree(kept, Kept(q.decisions))
  BY <1>1, <1>2, <1>3 DEF Sound, RangesApart, Agree
<1>4. CASE c.kind = "accept"
  <2>1. /\ RangeFree(p) /\ c.image = p.cursor /\ \A d \in kept : d.image # p.cursor
        /\ Apply(p, c) = Decide(p, TRUE)
    BY <1>4 DEF Legal, Apply
  <2>2. QED
    BY <2>1, DecideSound
<1>5. CASE c.kind = "skip"
  <2>1. RangeFree(p) /\ Apply(p, c) = Decide(p, FALSE)
    BY <1>5 DEF Legal, Apply
  <2>2. QED
    BY <2>1, DecideSound
<1>6. CASE c.kind = "navigate"
  <2>1. Apply(p, c) = [p EXCEPT !.cursor = c.image]
    BY <1>6 DEF Apply
  <2>2. Apply(p, c) \in ProjectShape /\ Apply(p, c).decisions = p.decisions
    BY <1>1, <2>1 DEF ProjectShape, CommandShape
  <2>3. QED
    BY <1>3, <2>2
<1>7. CASE c.kind = "range"
  <2>1. Apply(p, c) = [p EXCEPT !.next = c.start, !.direction = c.direction, !.complete = FALSE]
    BY <1>7 DEF Apply
  <2>2. Apply(p, c) \in ProjectShape /\ Apply(p, c).decisions = p.decisions
    <3>1. c.start \in Nat \ {0} /\ c.direction \in Direction
      BY DEF CommandShape, Board
    <3>2. QED
      BY <1>1, <2>1, <3>1 DEF ProjectShape
  <2>3. QED
    BY <1>3, <2>2
<1>8. CASE c.kind = "undo"
  <2> DEFINE last == Last(p.decisions)  rest == Front(p.decisions)
  <2>1. p.decisions # <<>>
    BY <1>8 DEF Legal
  <2>2. rest \in Seq(DecisionShape) /\ last \in DecisionShape /\ Kept(rest) \subseteq kept
    BY <1>1, <2>1, KeptFront
  <2>3. Apply(p, c) = [p EXCEPT !.decisions = rest, !.cursor = last.image,
                                !.next = last.start, !.complete = FALSE]
    BY <1>8 DEF Apply
  <2> HIDE DEF last, rest
  <2>4. Apply(p, c) \in ProjectShape /\ Apply(p, c).decisions = rest
    <3>1. last.image \in Image /\ last.start \in Nat \ {0}
      BY <2>2 DEF DecisionShape, Board
    <3>2. QED
      BY <1>1, <2>2, <2>3, <3>1 DEF ProjectShape
  <2>5. QED
    BY <1>3, <2>2, <2>4
<1>9. CASE c.kind = "restart"
  <2>1. Apply(p, c) = [p EXCEPT !.decisions = <<>>, !.cursor = 1, !.next = FirstLayout,
                                !.complete = FALSE]
    BY <1>9 DEF Apply
  <2>2. Apply(p, c) \in ProjectShape /\ Apply(p, c).decisions = <<>>
    <3>1. 1 \in Image /\ FirstLayout \in Nat \ {0} /\ <<>> \in Seq(DecisionShape)
      BY CommandsAssumption DEF Image, Board
    <3>2. QED
      BY <1>1, <2>1, <3>1 DEF ProjectShape
  <2>3. Kept(<<>>) = {}
    BY DEF Kept
  <2>4. QED
    BY <1>3, <2>2, <2>3
<1>10. QED
  BY <1>4, <1>5, <1>6, <1>7, <1>8, <1>9 DEF CommandShape

LEMMA NewProjectSound == Sound(NewProject)
<1>1. NewProject \in ProjectShape /\ NewProject.decisions = <<>>
  BY CommandsAssumption DEF NewProject, ProjectShape, Image, Board
<1>2. Kept(<<>>) = {}
  BY DEF Kept
<1>3. QED
  BY <1>1, <1>2 DEF Sound, RangesApart

-----------------------------------------------------------------------------
(* The output folder before and after an operation. *)

LEMMA OutputType ==
  ASSUME NEW h, Sound(Project(h))
  PROVE  OutputOf(h) \in [Board -> 0..Images]
<1> DEFINE kept == Kept(Project(h).decisions)
<1>1. \A d \in kept : d.image \in Image
  <2> DEFINE s == Project(h).decisions
  <2>1. s \in Seq(DecisionShape)
    BY DEF Sound, ProjectShape
  <2> HIDE DEF s
  <2>2. \A d \in Kept(s) : d \in DecisionShape
    BY <2>1 DEF Kept
  <2>3. QED
    BY <2>2 DEF DecisionShape, s
<1> HIDE DEF kept
<1>2. ASSUME NEW b \in Board
      PROVE  (IF \E d \in kept : d.start = b
              THEN (CHOOSE d \in kept : d.start = b).image ELSE 0) \in 0..Images
  <2>1. CASE \E d \in kept : d.start = b
    <3>1. (CHOOSE d \in kept : d.start = b) \in kept
      BY <2>1
    <3>2. QED
      BY <1>1, <2>1, <3>1, CommandsAssumption DEF Image
  <2>2. CASE ~\E d \in kept : d.start = b
    BY <2>2, CommandsAssumption
  <2>3. QED
    BY <2>1, <2>2
<1>3. QED
  BY <1>2 DEF OutputOf, kept

(* No file is replaced: an operation that changes what stands for a board  *)
(* copies a file where none was, or removes one.                           *)
LEMMA NothingReplaced ==
  ASSUME NEW g, NEW h, Agree(Kept(Project(g).decisions), Kept(Project(h).decisions)),
         NEW b \in Board, OutputOf(g)[b] # 0, OutputOf(h)[b] # 0
  PROVE  OutputOf(g)[b] = OutputOf(h)[b]
<1> DEFINE old == Kept(Project(g).decisions)  new == Kept(Project(h).decisions)
<1> HIDE DEF old, new
<1>1. /\ OutputOf(g)[b] = IF \E d \in old : d.start = b
                          THEN (CHOOSE d \in old : d.start = b).image ELSE 0
      /\ OutputOf(h)[b] = IF \E d \in new : d.start = b
                          THEN (CHOOSE d \in new : d.start = b).image ELSE 0
  BY DEF OutputOf, old, new
<1>2. (\E d \in old : d.start = b) /\ \E d \in new : d.start = b
  BY <1>1
<1>3. PICK d \in old : d = (CHOOSE e \in old : e.start = b) /\ d.start = b
  BY <1>2
<1>4. PICK e \in new : e = (CHOOSE f \in new : f.start = b) /\ e.start = b
  BY <1>2
<1>5. d = e
  BY <1>3, <1>4 DEF Agree, old, new
<1>6. QED
  BY <1>1, <1>2, <1>3, <1>4, <1>5

-----------------------------------------------------------------------------
(* The histories a project comes to have. *)

(* A history that replays: every operation applied once, and no two of the
   accepted decisions it amounts to share a board or an image. *)
Lawful(h) ==
    /\ h \in Seq(Operation) /\ Sound(Project(h))
    /\ IsFiniteSet(Ids(h)) /\ Cardinality(Ids(h)) = Len(h)

Laws ==
    /\ Lawful(Durable)
    /\ Pending => Lawful(journal.before) /\ Takes(journal.before, journal.record.command)

LEMMA LawfulBegins == Lawful(<<>>)
<1>1. <<>> \in Seq(Operation) /\ Len(<<>>) = 0 /\ Ids(<<>>) = {}
  BY DEF Ids
<1>2. QED
  BY <1>1, NewProjectSound, ProjectBegins, FS_EmptySet DEF Lawful

(* A legal operation leaves the project sound and replaces no file. *)
LEMMA GrowsSound ==
  ASSUME NEW h, Lawful(h), NEW r \in Operation, Takes(h, r.command)
  PROVE  /\ Sound(Project(Append(h, r)))
         /\ Agree(Kept(Project(h).decisions), Kept(Project(Append(h, r)).decisions))
<1>1. r.command \in CommandShape
  BY StoreAssumption DEF Operation
<1>2. Project(Append(h, r)) = Apply(Project(h), r.command)
  BY ProjectGrows DEF Lawful
<1>3. QED
  BY <1>1, <1>2, ApplySound DEF Lawful, Takes

LEMMA LawfulGrows ==
  ASSUME NEW h, Lawful(h), NEW r \in Operation, r.id \notin Ids(h), Takes(h, r.command)
  PROVE  Lawful(Append(h, r))
<1> DEFINE j == [before |-> h, record |-> r]
<1>1. j \in Entry /\ After(j) = Append(h, r)
  BY DEF Lawful, Entry, After
<1>2. Append(h, r) \in Seq(Operation) /\ Ids(Append(h, r)) = Ids(h) \cup {r.id}
  BY <1>1, AfterFacts
<1>3. Len(Append(h, r)) = Len(h) + 1
  BY DEF Lawful
<1>4. IsFiniteSet(Ids(h) \cup {r.id}) /\ Cardinality(Ids(h) \cup {r.id}) = Len(h) + 1
  BY FS_AddElement DEF Lawful
<1>5. QED
  BY <1>2, <1>3, <1>4, GrowsSound DEF Lawful

(* The ids bound a lawful history. *)
LEMMA LawfulBounded ==
  ASSUME NEW h, Lawful(h)
  PROVE  h \in History /\ Len(h) <= MaxRevision
<1>1. h \in Seq(Operation) /\ Len(h) \in Nat
  BY DEF Lawful
<1>2. Ids(h) \subseteq OpId
  <2>1. ASSUME NEW i \in DOMAIN h PROVE h[i].id \in OpId
    <3>1. h[i] \in Operation
      BY <1>1
    <3>2. QED
      BY <3>1 DEF Operation
  <2>2. QED
    BY <2>1 DEF Ids
<1>3. IsFiniteSet(OpId) /\ Cardinality(OpId) <= MaxRevision
  BY StoreAssumption
<1>4. Cardinality(Ids(h)) <= Cardinality(OpId) /\ Cardinality(OpId) \in Nat
  BY <1>2, <1>3, FS_Subset, FS_CardinalityType
<1>5. Len(h) <= MaxRevision
  BY <1>1, <1>3, <1>4, StoreAssumption DEF Lawful
<1>6. h \in [1..Len(h) -> Operation] /\ Len(h) \in 0..MaxRevision
  BY <1>1, <1>5, StoreAssumption
<1>7. QED
  BY <1>5, <1>6 DEF History

(* Only two steps touch the journal. *)
LEMMA JournalMoves ==
  ASSUME [Next]_vars
  PROVE  \/ journal' = journal
         \/ \E p \in Proc : Prepare(p) \/ ClearJournal(p)
<1>1. ASSUME NEW p \in Proc, Work(p), ~Prepare(p), ~ClearJournal(p) PROVE journal' = journal
  <2>1. CASE \/ Open(p) \/ Resume(p) \/ RestoreState(p) \/ RestoreBackup(p) \/ Close(p)
             \/ \E id \in OpId, c \in Command : Repeat(p, id, c) \/ Execute(p, id, c)
    BY <2>1 DEF Open, Resume, RestoreState, RestoreBackup, Close, Repeat, Execute, diskVars
  <2>2. CASE \/ TakeLease(p) \/ MendLedgers(p) \/ WriteFile(p) \/ OutputWritten(p)
             \/ AppendLedger(p) \/ Commit(p) \/ WriteManifest(p) \/ Backup(p) \/ ReleaseLease(p)
    BY <2>2 DEF TakeLease, MendLedgers, WriteFile, OutputWritten, AppendLedger, Commit,
       WriteManifest, Backup, ReleaseLease, diskVars
  <2>3. QED
    BY <1>1, <2>1, <2>2 DEF Work
<1>2. ASSUME NEW p \in Proc, AcquireProject(p) \/ Fail(p) \/ Die(p) PROVE journal' = journal
  BY <1>2 DEF AcquireProject, Fail, Die, storeVars, diskVars
<1>3. CASE (\E c \in Copy : DamageHead(c)) \/ \E l \in Ledger : DamageLedger(l)
  BY <1>3 DEF DamageHead, DamageLedger
<1>4. CASE UNCHANGED vars
  BY <1>4 DEF vars, storeVars, diskVars
<1>5. QED
  BY <1>1, <1>2, <1>3, <1>4 DEF Next

(* What Prepare does: the journal names the history the project has and one
   more operation, fresh and legal. *)
LEMMA PrepareFacts ==
  ASSUME IInv, NEW p \in Proc, Prepare(p)
  PROVE  /\ ~Pending /\ journal' = [before |-> Stated, record |-> request[p]] /\ Pending'
         /\ Durable = Stated /\ request[p] \in Operation /\ journal' \in Entry
         /\ Takes(Stated, request[p].command)
         /\ UNCHANGED <<heads, ledgers, output, manifest, damages>>
<1>1. /\ ~Pending /\ memory[p] = Stated /\ request[p] \in Operation
      /\ Takes(memory[p], request[p].command)
  BY HolderFacts DEF Prepare, At, Place, Memory, Asked
<1>2. journal' = [before |-> Stated, record |-> request[p]]
      /\ UNCHANGED <<heads, ledgers, output, manifest, damages>>
  BY <1>1 DEF Prepare
<1>3. journal' \in Entry
  BY <1>1, <1>2, HolderFacts DEF Entry
<1>4. QED
  BY <1>1, <1>2, <1>3, NoFileFacts, DurableIsStated DEF Pending

LEMMA LawsStep ==
  ASSUME IInv, IInv', [Next]_vars, Laws
  PROVE  Laws'
<1>1. Lawful(Durable)'
  <2>1. CASE Durable' = Durable
    BY <2>1 DEF Laws, Lawful
  <2>2. ASSUME NEW id \in OpId, NEW c \in Command, Log!AppendOperation(id, c)
        PROVE  Lawful(Durable)'
    <3> DEFINE r == [id |-> id, command |-> c]
    <3>1. r \in Operation /\ r.id = id /\ r.command = c
      BY DEF Operation
    <3>2. Durable' = Append(Durable, r) /\ Takes(Durable, r.command) /\ r.id \notin Ids(Durable)
      BY <2>2, <3>1 DEF Log!AppendOperation, Ids
    <3>3. Lawful(Append(Durable, r))
      BY <3>1, <3>2, LawfulGrows DEF Laws
    <3>4. QED
      BY <3>2, <3>3 DEF Lawful
  <2>3. QED
    BY <2>1, <2>2, LogStep DEF Log!LogNext, Log!Answer
<1>2. Pending' => (Lawful(journal.before) /\ Takes(journal.before, journal.record.command))'
  <2>1. CASE journal' = journal
    BY <2>1 DEF Laws, Pending, Lawful, Takes
  <2>2. ASSUME NEW p \in Proc, Prepare(p)
        PROVE  (Lawful(journal.before) /\ Takes(journal.before, journal.record.command))'
    <3>1. journal'.before = Durable /\ Takes(Durable, journal'.record.command)
      BY <2>2, PrepareFacts
    <3>2. QED
      BY <3>1 DEF Laws, Lawful, Takes
  <2>3. ASSUME NEW p \in Proc, ClearJournal(p) PROVE ~Pending'
    BY <2>3 DEF ClearJournal, Pending
  <2>4. QED
    BY <2>1, <2>2, <2>3, JournalMoves
<1>3. QED
  BY <1>1, <1>2 DEF Laws

LEMMA LawsInvariance == Spec => []Laws
<1>1. Init => Laws
  BY LawfulBegins DEF Init, Laws, Durable, Pending, Copy
<1>2. QED
  BY <1>1, LawsStep, Invariance, PTL DEF Spec

(* No two accepted decisions of the project ever share a board number or an
   image, whatever was undone, renumbered, repeated, lost or recovered in between
   (RANGE_CONFLICT and IMAGE_ALREADY_ACCEPTED of execute, seen over a whole life). *)
THEOREM AcceptedRangesApart == Spec => []RangesApart(Project(Durable).decisions)
BY LawsInvariance, PTL DEF Laws, Lawful, Sound

-----------------------------------------------------------------------------
(* While an operation is under way, everything on the disk is still as it was
   before it or already as it will be after it. *)
Near ==
    Pending =>
        /\ \A c \in Copy : heads[c].history \in {journal.before, After(journal)}
        /\ manifest \in {journal.before, After(journal)}
        /\ \A b \in Board :
             output[b] \in {OutputOf(journal.before)[b], OutputOf(After(journal))[b]}

Files == output \in [Board -> 0..Images]

(* The steps that change a head, the manifest or the output folder. *)
LEMMA DiskMoves ==
  ASSUME [Next]_vars
  PROVE  \/ UNCHANGED <<heads, output, manifest>>
         \/ \E p \in Proc : \/ RestoreState(p) \/ RestoreBackup(p) \/ Backup(p) \/ Commit(p)
                            \/ WriteManifest(p) \/ WriteFile(p)
         \/ \E c \in Copy : DamageHead(c)
<1>1. ASSUME NEW p \in Proc, Work(p)
      PROVE  \/ UNCHANGED <<heads, output, manifest>>
             \/ RestoreState(p) \/ RestoreBackup(p) \/ Backup(p) \/ Commit(p)
             \/ WriteManifest(p) \/ WriteFile(p)
  <2>1. CASE \/ Open(p) \/ Resume(p) \/ Close(p) \/ Prepare(p)
             \/ \E id \in OpId, c \in Command : Repeat(p, id, c) \/ Execute(p, id, c)
    BY <2>1 DEF Open, Resume, Close, Prepare, Repeat, Execute, diskVars
  <2>2. CASE \/ TakeLease(p) \/ MendLedgers(p) \/ OutputWritten(p)
             \/ AppendLedger(p) \/ ReleaseLease(p) \/ ClearJournal(p)
    BY <2>2 DEF TakeLease, MendLedgers, OutputWritten, AppendLedger, ReleaseLease, ClearJournal,
       diskVars
  <2>3. QED
    BY <1>1, <2>1, <2>2 DEF Work
<1>2. ASSUME NEW p \in Proc, AcquireProject(p) \/ Fail(p) \/ Die(p)
      PROVE  UNCHANGED <<heads, output, manifest>>
  BY <1>2 DEF AcquireProject, Fail, Die, storeVars, diskVars
<1>3. ASSUME NEW l \in Ledger, DamageLedger(l) PROVE UNCHANGED <<heads, output, manifest>>
  BY <1>3 DEF DamageLedger
<1>4. CASE UNCHANGED vars
  BY <1>4 DEF vars, storeVars, diskVars
<1>5. QED
  BY <1>1, <1>2, <1>3, <1>4 DEF Next

LEMMA NearStep ==
  ASSUME IInv, IInv', [Next]_vars, Laws, Laws', Near, Files
  PROVE  Near' /\ Files'
<1>1. Types /\ Types'
  BY DEF IInv
<1>2. /\ Pending => OutputOf(After(journal)) \in [Board -> 0..Images]
      /\ OutputOf(Durable) \in [Board -> 0..Images]
  BY OutputType DEF Laws, Lawful, Durable
<1>3. ASSUME \A c \in Copy : heads'[c].history = heads[c].history, UNCHANGED <<output, manifest>>
      PROVE  Near' /\ Files'
  <2>1. Files'
    BY <1>3 DEF Files
  <2>2. CASE journal' = journal
    BY <1>3, <2>1, <2>2 DEF Near, Pending
  <2>3. ASSUME NEW p \in Proc, Prepare(p) PROVE Near'
    <3>1. ~Pending /\ journal'.before = Stated
      BY <2>3, PrepareFacts
    <3>2. /\ \A c \in Copy : heads[c].history = Stated
          /\ manifest = Stated /\ output = OutputOf(Stated)
      BY <3>1 DEF IInv, Quiet, Copy, Stated
    <3>3. QED
      BY <1>3, <3>1, <3>2 DEF Near
  <2>4. ASSUME NEW p \in Proc, ClearJournal(p) PROVE Near'
    BY <2>4 DEF ClearJournal, Near, Pending
  <2>5. QED
    BY <2>1, <2>2, <2>3, <2>4, JournalMoves
<1>4. ASSUME NEW p \in Proc, RestoreState(p) \/ RestoreBackup(p) PROVE Near' /\ Files'
  <2>1. ~Pending /\ journal' = journal /\ output' = output
    BY <1>4, HolderFacts DEF RestoreState, RestoreBackup, WriteHead, At, Place
  <2>2. QED
    BY <2>1 DEF Near, Files, Pending
<1>5. ASSUME NEW p \in Proc, Backup(p) \/ Commit(p) PROVE Near' /\ Files'
  <2>1. UNCHANGED <<journal, output, manifest>> /\ Pending
    BY <1>5, HolderFacts DEF Backup, Commit, WriteHead, At, Place, Applying, Written, Committed,
       Settling
  <2>2. Backup(p) => memory[p] = After(journal)
    BY <1>5, HolderFacts DEF Backup, WriteHead, At, Memory, Committed, Settling
  <2>3. \A c \in Copy : heads'[c].history \in {heads[c].history, After(journal)}
    BY <1>1, <1>5, <2>2 DEF Backup, Commit, WriteHead, Types, Copy
  <2>4. QED
    BY <2>1, <2>3 DEF Near, Files, Pending
<1>6. ASSUME NEW p \in Proc, WriteManifest(p) PROVE Near' /\ Files'
  BY <1>6 DEF WriteManifest, Near, Files, Pending
<1>7. ASSUME NEW p \in Proc, WriteFile(p) PROVE Near' /\ Files'
  <2>1. UNCHANGED <<journal, heads, manifest>> /\ Pending
    BY <1>7, HolderFacts DEF WriteFile, At, Place, Applying
  <2>2. PICK b \in Board : output' = [output EXCEPT ![b] = OutputOf(After(journal))[b]]
    BY <1>7 DEF WriteFile
  <2>3. Files'
    BY <1>2, <2>1, <2>2 DEF Files
  <2>4. \A a \in Board : output'[a] \in {output[a], OutputOf(After(journal))[a]}
    BY <2>2 DEF Files
  <2>5. QED
    BY <2>1, <2>3, <2>4 DEF Near, Pending
<1>8. ASSUME NEW c \in Copy, DamageHead(c) PROVE Near' /\ Files'
  <2>1. UNCHANGED <<journal, output, manifest>>
        /\ heads' = [heads EXCEPT ![c].damaged = TRUE]
    BY <1>8 DEF DamageHead
  <2>2. \A d \in Copy : heads'[d].history = heads[d].history
    BY <1>1, <2>1 DEF Types
  <2>3. QED
    BY <1>3, <2>1, <2>2
<1>9. QED
  BY <1>3, <1>4, <1>5, <1>6, <1>7, <1>8, DiskMoves

LEMMA NearInvariance == Spec => [](Laws /\ Near /\ Files)
<1>1. Init => Near /\ Files
  BY CommandsAssumption DEF Init, Near, Files, Pending
<1>2. QED
  BY <1>1, NearStep, LawsInvariance, Invariance, PTL DEF Spec

-----------------------------------------------------------------------------
(* Every variable keeps its type. *)

Kinds ==
    /\ \A l \in Ledger : ledgers[l].history \in History
    /\ \A p \in Proc : memory[p] \in History
    /\ lease \in Proc \cup {NoFile}
    /\ damages \in 0..MaxDamage
    /\ acked \subseteq [id : OpId, command : Command, revision : 1..MaxRevision]

(* Nothing on the disk is longer than the ids allow. *)
LEMMA Bounded ==
  ASSUME IInv, Laws, Near
  PROVE  /\ \A c \in Copy : heads[c].history \in History
         /\ manifest \in History /\ Durable \in History
         /\ Pending => journal.before \in History /\ After(journal) \in History
<1>1. Durable \in History /\ (Pending => journal.before \in History)
  BY LawfulBounded DEF Laws
<1>2. CASE Pending
  BY <1>1, <1>2 DEF Near, Durable
<1>3. CASE ~Pending
  <2>1. Durable = Stated /\ manifest = Stated /\ \A c \in Copy : heads[c].history = Stated
    BY <1>3, DurableIsStated DEF IInv, Quiet, Copy, Stated
  <2>2. QED
    BY <1>1, <1>3, <2>1
<1>4. QED
  BY <1>2, <1>3

(* The steps that change a ledger. *)
LEMMA LedgerMoves ==
  ASSUME [Next]_vars
  PROVE  \/ ledgers' = ledgers
         \/ \E p \in Proc : Open(p) \/ MendLedgers(p) \/ AppendLedger(p)
         \/ \E l \in Ledger : DamageLedger(l)
<1>1. ASSUME NEW p \in Proc, Work(p)
      PROVE  ledgers' = ledgers \/ Open(p) \/ MendLedgers(p) \/ AppendLedger(p)
  <2>1. CASE \/ Resume(p) \/ RestoreState(p) \/ RestoreBackup(p) \/ Close(p) \/ Prepare(p)
             \/ \E id \in OpId, c \in Command : Repeat(p, id, c) \/ Execute(p, id, c)
    BY <2>1 DEF Resume, RestoreState, RestoreBackup, Close, Prepare, Repeat, Execute, diskVars
  <2>2. CASE \/ TakeLease(p) \/ WriteFile(p) \/ OutputWritten(p) \/ Commit(p)
             \/ WriteManifest(p) \/ Backup(p) \/ ReleaseLease(p) \/ ClearJournal(p)
    BY <2>2 DEF TakeLease, WriteFile, OutputWritten, Commit, WriteManifest, Backup, ReleaseLease,
       ClearJournal, diskVars
  <2>3. QED
    BY <1>1, <2>1, <2>2 DEF Work
<1>2. ASSUME NEW p \in Proc, AcquireProject(p) \/ Fail(p) \/ Die(p) PROVE ledgers' = ledgers
  BY <1>2 DEF AcquireProject, Fail, Die, storeVars, diskVars
<1>3. ASSUME NEW c \in Copy, DamageHead(c) PROVE ledgers' = ledgers
  BY <1>3 DEF DamageHead
<1>4. CASE UNCHANGED vars
  BY <1>4 DEF vars, storeVars, diskVars
<1>5. QED
  BY <1>1, <1>2, <1>3, <1>4 DEF Next

LEMMA LedgersStep ==
  ASSUME IInv, IInv', [Next]_vars, Laws, Near, Kinds
  PROVE  \A l \in Ledger : ledgers'[l].history \in History
<1>1. Types
  BY DEF IInv
<1>2. ASSUME NEW h \in History, ledgers' = Mended(h)
      PROVE  \A l \in Ledger : ledgers'[l].history \in History
  BY <1>2 DEF Mended, Kinds
<1>3. ASSUME NEW p \in Proc, Open(p) PROVE \A l \in Ledger : ledgers'[l].history \in History
  <2>1. OpenedHead.history \in History
    BY Bounded DEF OpenedHead, Copy
  <2>2. QED
    BY <1>2, <1>3, <2>1 DEF Open, Kinds
<1>4. ASSUME NEW p \in Proc, MendLedgers(p)
      PROVE \A l \in Ledger : ledgers'[l].history \in History
  <2>1. Pending /\ ledgers' = Mended(journal.before)
    BY <1>4, HolderFacts DEF MendLedgers, At, Place, Applying
  <2>2. QED
    BY <1>2, <2>1, Bounded
<1>5. ASSUME NEW p \in Proc, AppendLedger(p)
      PROVE \A l \in Ledger : ledgers'[l].history \in History
  <2>1. step[p] \in Ledger /\ Pending
    BY <1>5, HolderFacts DEF AppendLedger, Place, Applying, Ledger
  <2>2. After(journal) \in History
    BY <2>1, Bounded
  <2>3. \A l \in Ledger : ledgers'[l].history \in {ledgers[l].history, After(journal)}
    <3> DEFINE k == step[p]
    <3>1. \/ ledgers' = ledgers
          \/ ledgers' = [ledgers EXCEPT ![k].torn = TRUE]
          \/ ledgers' = [ledgers EXCEPT ![k] = [history |-> After(journal), torn |-> FALSE, damaged |-> FALSE]]
      BY <1>5 DEF AppendLedger
    <3>2. k \in Ledger
      BY <2>1
    <3> HIDE DEF k
    <3>3. CASE ledgers' = [ledgers EXCEPT ![k].torn = TRUE]
      <4>1. ASSUME NEW l \in Ledger PROVE ledgers'[l].history = ledgers[l].history
        BY <1>1, <3>2, <3>3 DEF Types
      <4>2. QED
        BY <4>1
    <3>4. CASE ledgers' = [ledgers EXCEPT ![k] = [history |-> After(journal), torn |-> FALSE, damaged |-> FALSE]]
      BY <1>1, <3>2, <3>4 DEF Types
    <3>5. QED
      BY <3>1, <3>3, <3>4
  <2>4. QED
    BY <2>2, <2>3 DEF Kinds
<1>6. ASSUME NEW k \in Ledger, DamageLedger(k)
      PROVE \A l \in Ledger : ledgers'[l].history \in History
  <2>1. ledgers' = [ledgers EXCEPT ![k].damaged = TRUE]
    BY <1>6 DEF DamageLedger
  <2>2. \A l \in Ledger : ledgers'[l].history = ledgers[l].history
    BY <1>1, <2>1 DEF Types
  <2>3. QED
    BY <2>2 DEF Kinds
<1>7. QED
  BY <1>3, <1>4, <1>5, <1>6, LedgerMoves DEF Kinds

LEMMA MemoryStep ==
  ASSUME IInv, [Next]_vars, Laws, Near, Kinds
  PROVE  \A p \in Proc : memory'[p] \in History
<1>1. Types
  BY DEF IInv
<1>2. <<>> \in History
  BY LawfulBegins, LawfulBounded
<1>3. ASSUME NEW p \in Proc, NEW h \in History, memory' = [memory EXCEPT ![p] = h]
      PROVE  \A q \in Proc : memory'[q] \in History
  BY <1>1, <1>3 DEF Types, Kinds
<1>4. ASSUME memory' = memory PROVE \A q \in Proc : memory'[q] \in History
  BY <1>4 DEF Kinds
<1>5. ASSUME NEW p \in Proc, Work(p) PROVE \A q \in Proc : memory'[q] \in History
  <2>1. CASE Open(p)
    <3>1. OpenedHead.history \in History
      BY Bounded DEF OpenedHead, Copy
    <3>2. QED
      BY <1>3, <2>1, <3>1 DEF Open
  <2>2. CASE Commit(p)
    <3>1. Pending
      BY <2>2, HolderFacts DEF Commit, At, Place, Applying, Written
    <3>2. After(journal) \in History
      BY <3>1, Bounded
    <3>3. QED
      BY <1>3, <2>2, <3>2 DEF Commit
  <2>3. CASE Close(p)
    BY <1>2, <1>3, <2>3 DEF Close, Forget
  <2>4. CASE \/ Resume(p) \/ RestoreState(p) \/ RestoreBackup(p) \/ Prepare(p)
             \/ \E id \in OpId, c \in Command : Repeat(p, id, c) \/ Execute(p, id, c)
    BY <1>4, <2>4 DEF Resume, RestoreState, RestoreBackup, Prepare, Repeat, Execute
  <2>5. CASE \/ TakeLease(p) \/ MendLedgers(p) \/ WriteFile(p) \/ OutputWritten(p)
             \/ AppendLedger(p) \/ WriteManifest(p) \/ Backup(p) \/ ReleaseLease(p)
             \/ ClearJournal(p)
    BY <1>4, <2>5 DEF TakeLease, MendLedgers, WriteFile, OutputWritten, AppendLedger,
       WriteManifest, Backup, ReleaseLease, ClearJournal, memVars
  <2>6. QED
    BY <1>5, <2>1, <2>2, <2>3, <2>4, <2>5 DEF Work
<1>6. ASSUME NEW p \in Proc, AcquireProject(p) \/ Fail(p)
      PROVE \A q \in Proc : memory'[q] \in History
  BY <1>4, <1>6 DEF AcquireProject, Fail, storeVars, memVars
<1>7. ASSUME NEW p \in Proc, Die(p) PROVE \A q \in Proc : memory'[q] \in History
  BY <1>2, <1>3, <1>7 DEF Die, Forget
<1>8. CASE (\E c \in Copy : DamageHead(c)) \/ \E l \in Ledger : DamageLedger(l)
  BY <1>4, <1>8 DEF DamageHead, DamageLedger, memVars
<1>9. CASE UNCHANGED vars
  BY <1>4, <1>9 DEF vars, storeVars, memVars
<1>10. QED
  BY <1>5, <1>6, <1>7, <1>8, <1>9 DEF Next

LEMMA LeaseStep ==
  ASSUME [Next]_vars, Kinds
  PROVE  lease' \in Proc \cup {NoFile} /\ damages' \in 0..MaxDamage
<1>1. ASSUME NEW p \in Proc, Work(p)
      PROVE  lease' \in {lease, p, NoFile} /\ damages' = damages
  <2>1. CASE \/ Open(p) \/ Resume(p) \/ RestoreState(p) \/ RestoreBackup(p) \/ Close(p)
             \/ Prepare(p) \/ \E id \in OpId, c \in Command : Repeat(p, id, c) \/ Execute(p, id, c)
    BY <2>1 DEF Open, Resume, RestoreState, RestoreBackup, Close, Prepare, Repeat, Execute,
       diskVars
  <2>2. CASE \/ TakeLease(p) \/ MendLedgers(p) \/ WriteFile(p) \/ OutputWritten(p)
             \/ AppendLedger(p) \/ Commit(p) \/ WriteManifest(p) \/ Backup(p) \/ ReleaseLease(p)
             \/ ClearJournal(p)
    BY <2>2 DEF TakeLease, MendLedgers, WriteFile, OutputWritten, AppendLedger, Commit,
       WriteManifest, Backup, ReleaseLease, ClearJournal, diskVars
  <2>3. QED
    BY <1>1, <2>1, <2>2 DEF Work
<1>2. ASSUME NEW p \in Proc, AcquireProject(p) \/ Fail(p) \/ Die(p)
      PROVE  lease' \in {lease, p, NoFile} /\ damages' = damages
  BY <1>2 DEF AcquireProject, Fail, Die, storeVars, diskVars
<1>3. CASE (\E c \in Copy : DamageHead(c)) \/ \E l \in Ledger : DamageLedger(l)
  <2>1. lease' = lease /\ damages < MaxDamage /\ damages' = damages + 1
    BY <1>3 DEF DamageHead, DamageLedger
  <2>2. QED
    BY <2>1, StoreAssumption DEF Kinds
<1>4. CASE UNCHANGED vars
  BY <1>4 DEF vars, storeVars, diskVars, Kinds
<1>5. QED
  BY <1>1, <1>2, <1>3, <1>4 DEF Next, Kinds

LEMMA AnswersStep ==
  ASSUME IInv, IInv', [Next]_vars, Laws, Kinds
  PROVE  acked' \subseteq [id : OpId, command : Command, revision : 1..MaxRevision]
<1>1. CASE acked' = acked
  BY <1>1 DEF Kinds
<1>2. ASSUME NEW i \in DOMAIN Durable, Log!Answer(i)
      PROVE  acked' \subseteq [id : OpId, command : Command, revision : 1..MaxRevision]
  <2> DEFINE h == Durable
  <2>1. h \in Seq(Operation) /\ Len(h) <= MaxRevision /\ i \in DOMAIN h
    BY LawfulBounded DEF Laws, Lawful
  <2>2. acked' = acked \cup {[id |-> h[i].id, command |-> h[i].command, revision |-> i]}
    BY <1>2 DEF Log!Answer
  <2> HIDE DEF h
  <2>3. i \in 1..MaxRevision /\ h[i] \in Operation
    BY <2>1, StoreAssumption
  <2>4. QED
    BY <2>2, <2>3 DEF Operation, Kinds
<1>3. QED
  BY <1>1, <1>2, LogStep DEF Log!LogNext, Log!AppendOperation

LEMMA KindsInvariance == Spec => []Kinds
<1>1. Init => Kinds
  BY LawfulBegins, LawfulBounded, StoreAssumption DEF Init, Kinds
<1>2. IInv /\ IInv' /\ [Next]_vars /\ Laws /\ Near /\ Kinds => Kinds'
  BY LedgersStep, MemoryStep, LeaseStep, AnswersStep DEF Kinds
<1>3. QED
  BY <1>1, <1>2, NearInvariance, Invariance, PTL DEF Spec

(* Every variable keeps its type, and no history outgrows its ids: the histories in
   the journal, the heads, both ledgers, the manifest and every process's memory. *)
THEOREM StoreTypeCorrect == Spec => []TypeOK
<1>1. IInv /\ Laws /\ Near /\ Files /\ Kinds => TypeOK
  <2>1. SUFFICES ASSUME IInv, Laws, Near, Files, Kinds PROVE TypeOK
    OBVIOUS
  <2>2. /\ \A c \in Copy : heads[c].history \in History
        /\ manifest \in History
        /\ Pending => journal.before \in History
    BY <2>1, Bounded
  <2>3. LockTypeOK /\ Types
    BY <2>1 DEF IInv, LockInv
  <2>4. journal = NoFile \/ (journal.before \in History /\ journal.record \in Operation)
    BY <2>2, <2>3 DEF Types, Entry, Pending
  <2>5. QED
    BY <2>1, <2>2, <2>3, <2>4 DEF TypeOK, Types, Kinds, Files
<1>2. QED
  BY <1>1, Invariance, NearInvariance, KindsInvariance, PTL

-----------------------------------------------------------------------------
(* One damaged file.  With more, the project can be lost: a ledger that was
   mended holds the history before the pending operation only, and the other
   one is then the only witness of a head that was written already. *)

Hurt ==
    /\ damages = 0 => /\ \A c \in Copy : ~heads[c].damaged
                      /\ \A l \in Ledger : ~ledgers[l].damaged
    /\ \A c, d \in Copy : heads[c].damaged /\ heads[d].damaged => c = d
    /\ \A k, l \in Ledger : ledgers[k].damaged /\ ledgers[l].damaged => k = l
    /\ \A c \in Copy, l \in Ledger : ~(heads[c].damaged /\ ledgers[l].damaged)

(* A head that names the pending operation has a ledger to replay. *)
Witnessed ==
    Pending /\ (\E c \in Copy : heads[c].history = After(journal)) =>
        /\ \E l \in Ledger : ~ledgers[l].damaged /\ ledgers[l].history = After(journal)
        /\ damages = 0 => \A l \in Ledger : ledgers[l].history = After(journal)

LEMMA DamageCounted ==
  ASSUME [Next]_vars
  PROVE  \/ damages' = damages
         \/ \E c \in Copy : DamageHead(c)
         \/ \E l \in Ledger : DamageLedger(l)
<1>1. ASSUME NEW p \in Proc, Work(p) PROVE damages' = damages
  <2>1. CASE \/ Open(p) \/ Resume(p) \/ RestoreState(p) \/ RestoreBackup(p) \/ Close(p)
             \/ Prepare(p) \/ \E id \in OpId, c \in Command : Repeat(p, id, c) \/ Execute(p, id, c)
    BY <2>1 DEF Open, Resume, RestoreState, RestoreBackup, Close, Prepare, Repeat, Execute
  <2>2. CASE \/ TakeLease(p) \/ MendLedgers(p) \/ WriteFile(p) \/ OutputWritten(p)
             \/ AppendLedger(p) \/ Commit(p) \/ WriteManifest(p) \/ Backup(p) \/ ReleaseLease(p)
             \/ ClearJournal(p)
    BY <2>2 DEF TakeLease, MendLedgers, WriteFile, OutputWritten, AppendLedger, Commit,
       WriteManifest, Backup, ReleaseLease, ClearJournal
  <2>3. QED
    BY <1>1, <2>1, <2>2 DEF Work
<1>2. ASSUME NEW p \in Proc, AcquireProject(p) \/ Fail(p) \/ Die(p) PROVE damages' = damages
  BY <1>2 DEF AcquireProject, Fail, Die, storeVars
<1>3. CASE UNCHANGED vars
  BY <1>3 DEF vars, storeVars
<1>4. QED
  BY <1>1, <1>2, <1>3 DEF Next

(* What the steps of the protocol do to a ledger: nothing, its mending, or the
   record of the journal. *)
LEMMA LedgerKept ==
  ASSUME IInv, [Next]_vars, NEW l \in Ledger, \A k \in Ledger : ~DamageLedger(k)
  PROVE  /\ ledgers'[l].damaged => ledgers[l].damaged
         /\ ~ledgers[l].damaged /\ Pending =>
              ledgers'[l].history \in {ledgers[l].history, After(journal)}
<1>1. Types
  BY DEF IInv
<1>2. CASE ledgers' = ledgers
  BY <1>2
<1>3. ASSUME NEW h, ledgers' = Mended(h)
      PROVE  /\ ledgers'[l].damaged => ledgers[l].damaged
             /\ ~ledgers[l].damaged => ledgers'[l].history = ledgers[l].history
  BY <1>3 DEF Mended
<1>4. ASSUME NEW p \in Proc, Open(p) \/ MendLedgers(p)
      PROVE  ledgers' = ledgers \/ \E h : ledgers' = Mended(h)
  BY <1>4 DEF Open, MendLedgers
<1>5. ASSUME NEW p \in Proc, AppendLedger(p)
      PROVE  /\ ledgers'[l].damaged => ledgers[l].damaged
             /\ ledgers'[l].history \in {ledgers[l].history, After(journal)}
  <2> DEFINE k == step[p]
  <2>1. k \in Ledger
    BY <1>5 DEF AppendLedger
  <2>2. \/ ledgers' = ledgers
        \/ ledgers' = [ledgers EXCEPT ![k].torn = TRUE]
        \/ ledgers' = [ledgers EXCEPT ![k] = [history |-> After(journal), torn |-> FALSE, damaged |-> FALSE]]
    BY <1>5 DEF AppendLedger
  <2> HIDE DEF k
  <2>3. CASE ledgers' = [ledgers EXCEPT ![k].torn = TRUE]
    BY <1>1, <2>1, <2>3 DEF Types
  <2>4. CASE ledgers' = [ledgers EXCEPT ![k] = [history |-> After(journal), torn |-> FALSE, damaged |-> FALSE]]
    BY <1>1, <2>1, <2>4 DEF Types
  <2>5. QED
    BY <2>2, <2>3, <2>4
<1>6. QED
  BY <1>2, <1>3, <1>4, <1>5, LedgerMoves

LEMMA HeadKept ==
  ASSUME IInv, [Next]_vars, NEW c \in Copy, \A d \in Copy : ~DamageHead(d)
  PROVE  heads'[c].damaged => heads[c].damaged
<1>1. Types
  BY DEF IInv
<1>2. CASE heads' = heads
  BY <1>2
<1>3. ASSUME NEW d \in Copy, NEW h, heads' = [heads EXCEPT ![d] = [history |-> h, damaged |-> FALSE]]
      PROVE  heads'[c].damaged => heads[c].damaged
  BY <1>1, <1>3 DEF Types
<1>4. ASSUME NEW p \in Proc, \/ RestoreState(p) \/ RestoreBackup(p) \/ Backup(p) \/ Commit(p)
                             \/ WriteManifest(p) \/ WriteFile(p)
      PROVE  \/ heads' = heads
             \/ \E d \in Copy : \E h :
                   heads' = [heads EXCEPT ![d] = [history |-> h, damaged |-> FALSE]]
  BY <1>4 DEF RestoreState, RestoreBackup, Backup, WriteHead, Commit, WriteManifest, WriteFile, Copy
<1>5. QED
  BY <1>2, <1>3, <1>4, DiskMoves

LEMMA HurtStep ==
  ASSUME MaxDamage <= 1, IInv, [Next]_vars, Kinds, Hurt
  PROVE  Hurt'
<1>1. Types /\ damages \in 0..MaxDamage /\ MaxDamage \in Nat
  BY StoreAssumption DEF IInv, Kinds
<1>2. ASSUME NEW c \in Copy, DamageHead(c) PROVE Hurt'
  <2>1. damages = 0 /\ damages' # 0 /\ ledgers' = ledgers
        /\ heads' = [heads EXCEPT ![c].damaged = TRUE]
    BY <1>1, <1>2 DEF DamageHead
  <2>2. \A d \in Copy : heads'[d].damaged => d = c
    BY <1>1, <2>1 DEF Types, Hurt
  <2>3. QED
    BY <2>1, <2>2 DEF Hurt
<1>3. ASSUME NEW k \in Ledger, DamageLedger(k) PROVE Hurt'
  <2>1. damages = 0 /\ damages' # 0 /\ heads' = heads
        /\ ledgers' = [ledgers EXCEPT ![k].damaged = TRUE]
    BY <1>1, <1>3 DEF DamageLedger
  <2>2. \A l \in Ledger : ledgers'[l].damaged => l = k
    BY <1>1, <2>1 DEF Types, Hurt
  <2>3. QED
    BY <2>1, <2>2 DEF Hurt
<1>4. CASE (\A c \in Copy : ~DamageHead(c)) /\ \A l \in Ledger : ~DamageLedger(l)
  <2>1. damages' = damages
    BY <1>4, DamageCounted
  <2>2. /\ \A c \in Copy : heads'[c].damaged => heads[c].damaged
        /\ \A l \in Ledger : ledgers'[l].damaged => ledgers[l].damaged
    BY <1>4, HeadKept, LedgerKept
  <2>3. QED
    BY <2>1, <2>2 DEF Hurt
<1>5. QED
  BY <1>2, <1>3, <1>4

LEMMA WitnessedStep ==
  ASSUME MaxDamage <= 1, IInv, [Next]_vars, Kinds, Hurt, Witnessed
  PROVE  Witnessed'
<1>1. Types /\ damages \in 0..MaxDamage /\ MaxDamage \in Nat
  BY StoreAssumption DEF IInv, Kinds
<1>2. ASSUME NEW p \in Proc, Prepare(p) PROVE Witnessed'
  <2>1. ~Pending /\ journal' \in Entry /\ journal'.before = Stated /\ heads' = heads
    BY <1>2, PrepareFacts
  <2>2. \A c \in Copy : heads'[c].history = journal'.before
    BY <2>1 DEF IInv, Quiet, Copy, Stated
  <2>3. After(journal)' = After(journal')
    BY DEF After
  <2>4. After(journal') # journal'.before
    BY <2>1, AfterFacts
  <2>5. QED
    BY <2>2, <2>3, <2>4 DEF Witnessed
<1>3. ASSUME NEW p \in Proc, ClearJournal(p) PROVE Witnessed'
  BY <1>3 DEF ClearJournal, Witnessed, Pending
<1>4. ASSUME journal' = journal, Pending, \E c \in Copy : heads[c].history = After(journal)
      PROVE  Witnessed'
  <2>1. PICK l \in Ledger : ~ledgers[l].damaged /\ ledgers[l].history = After(journal)
    BY <1>4 DEF Witnessed
  <2>2. ASSUME NEW k \in Ledger, DamageLedger(k) PROVE Witnessed'
    <3>1. damages = 0 /\ damages' # 0 /\ ledgers' = [ledgers EXCEPT ![k].damaged = TRUE]
      BY <1>1, <2>2 DEF DamageLedger
    <3>2. PICK m \in Ledger : m # k
      BY DEF Ledger
    <3>3. ledgers'[m] = ledgers[m] /\ ~ledgers[m].damaged /\ ledgers[m].history = After(journal)
      BY <1>1, <1>4, <3>1, <3>2 DEF Types, Witnessed, Hurt
    <3>4. QED
      BY <1>4, <3>1, <3>3 DEF Witnessed
  <2>3. CASE \A k \in Ledger : ~DamageLedger(k)
    <3>1. ~ledgers'[l].damaged /\ ledgers'[l].history = After(journal)
      BY <1>4, <2>1, <2>3, LedgerKept
    <3>2. ASSUME damages' = 0 PROVE \A k \in Ledger : ledgers'[k].history = After(journal)
      <4>1. damages = 0
        BY <1>1, <2>3, <3>2, DamageCounted DEF DamageHead
      <4>2. \A k \in Ledger : ~ledgers[k].damaged /\ ledgers[k].history = After(journal)
        BY <1>4, <4>1 DEF Witnessed, Hurt
      <4>3. QED
        BY <1>4, <2>3, <4>2, LedgerKept
    <3>3. QED
      BY <1>4, <3>1, <3>2 DEF Witnessed
  <2>4. QED
    BY <2>2, <2>3
<1>5. ASSUME NEW p \in Proc, RestoreState(p) \/ RestoreBackup(p) PROVE Witnessed'
  <2>1. ~Pending /\ journal' = journal
    BY <1>5, HolderFacts DEF RestoreState, RestoreBackup, WriteHead, At, Place
  <2>2. QED
    BY <2>1 DEF Witnessed, Pending
<1>6. ASSUME NEW p \in Proc, Backup(p) \/ Commit(p) PROVE Witnessed'
  <2>1. UNCHANGED <<journal, ledgers, damages>> /\ Full("A") /\ Full("B")
    BY <1>6, HolderFacts DEF Backup, Commit, WriteHead, At, Done, Written, Committed, Settling
  <2>2. \A l \in Ledger : ledgers[l].damaged \/ ledgers[l].history = After(journal)
    BY <2>1 DEF Full, Ledger
  <2>3. (\E l \in Ledger : ~ledgers[l].damaged) /\ (damages = 0 => \A l \in Ledger : ~ledgers[l].damaged)
    BY DEF Hurt, Ledger
  <2>4. QED
    BY <2>1, <2>2, <2>3 DEF Witnessed
<1>7. CASE journal' = journal /\ \A c \in Copy : heads'[c].history = heads[c].history
  <2>1. CASE Pending /\ \E c \in Copy : heads[c].history = After(journal)
    BY <1>4, <1>7, <2>1
  <2>2. CASE ~(Pending /\ \E c \in Copy : heads[c].history = After(journal))
    BY <1>7, <2>2 DEF Witnessed, Pending
  <2>3. QED
    BY <2>1, <2>2
<1>8. ASSUME NEW c \in Copy, DamageHead(c) PROVE \A d \in Copy : heads'[d].history = heads[d].history
  <2>1. heads' = [heads EXCEPT ![c].damaged = TRUE]
    BY <1>8 DEF DamageHead
  <2>2. QED
    BY <1>1, <2>1 DEF Types
<1>9. ASSUME NEW p \in Proc, WriteManifest(p) \/ WriteFile(p) PROVE heads' = heads
  BY <1>9 DEF WriteManifest, WriteFile
<1>10. QED
  BY <1>2, <1>3, <1>5, <1>6, <1>7, <1>8, <1>9, JournalMoves, DiskMoves

LEMMA PrefixFacts ==
  ASSUME NEW h \in Seq(Operation), NEW r \in Operation
  PROVE  /\ IsPrefix(h, h) /\ IsPrefix(h, Append(h, r)) /\ ~IsPrefix(Append(h, r), h)
         /\ SubSeq(h, Len(h) + 1, Len(h)) = <<>>
         /\ SubSeq(Append(h, r), Len(h) + 1, Len(Append(h, r))) = <<r>>
<1> DEFINE g == Append(h, r)
<1>1. Len(h) \in Nat /\ g \in Seq(Operation) /\ Len(g) = Len(h) + 1 /\ g[Len(h) + 1] = r
      /\ \A i \in 1..Len(h) : g[i] = h[i]
  OBVIOUS
<1> HIDE DEF g
<1>2. IsPrefix(h, h)
  BY DEF IsPrefix
<1>3. IsPrefix(h, g)
  BY <1>1 DEF IsPrefix
<1>4. ~IsPrefix(g, h)
  BY <1>1 DEF IsPrefix
<1>5. SubSeq(h, Len(h) + 1, Len(h)) = <<>>
  OBVIOUS
<1>6. SubSeq(g, Len(h) + 1, Len(g)) = <<r>>
  <2> DEFINE t == SubSeq(g, Len(h) + 1, Len(g))
  <2>1. t \in Seq(Operation) /\ Len(t) = 1 /\ t[1] = r
    BY <1>1
  <2> HIDE DEF t
  <2>2. t = <<r>>
    BY <2>1
  <2>3. QED
    BY <2>2 DEF t
<1>7. QED
  BY <1>2, <1>3, <1>4, <1>5, <1>6 DEF g

(* The head a project is opened with is readable if each of the two would be. *)
LEMMA OpenedReads ==
  ASSUME Types, Hurt, \A c \in Copy : \E l \in Ledger : Replays(l, heads[c].history)
  PROVE  /\ ~Corrupt(OpenedHead)
         /\ \E c \in Copy : OpenedHead = heads[c]
<1>1. "state" \in Copy /\ "backup" \in Copy
  BY DEF Copy
<1>2. \A c \in Copy : Corrupt(heads[c]) => heads[c].damaged
  BY DEF Corrupt
<1>3. Corrupt(heads["state"]) => ~Corrupt(heads["backup"])
  BY <1>1, <1>2 DEF Hurt
<1>4. QED
  BY <1>1, <1>3 DEF OpenedHead

LEMMA SomeLedger ==
  ASSUME Hurt
  PROVE  \E l \in Ledger : ~ledgers[l].damaged
BY DEF Hurt, Ledger

(* Without a journal the heads, a ledger, the manifest and the folder agree. *)
LEMMA QuietRecovers ==
  ASSUME IInv, Laws, Hurt, ~Pending
  PROVE  Readable /\ Agrees
<1> DEFINE h == Stated
<1>1. /\ Lawful(h) /\ manifest = h /\ output = OutputOf(h)
      /\ \A c \in Copy : heads[c].history = h
      /\ \A l \in Ledger : ~ledgers[l].damaged => ledgers[l].history = h /\ ~ledgers[l].torn
  BY DurableIsStated DEF IInv, Quiet, Copy, Stated, Laws
<1> HIDE DEF h
<1>2. IsPrefix(h, h) /\ SubSeq(h, Len(h) + 1, Len(h)) = <<>>
  <2>1. h \in Seq(Operation)
    BY <1>1 DEF Lawful
  <2>2. IsPrefix(h, h)
    BY <2>1 DEF IsPrefix
  <2>3. SubSeq(h, Len(h) + 1, Len(h)) = <<>>
    BY <2>1
  <2>4. QED
    BY <2>2, <2>3
<1>3. \A l \in Ledger : ~ledgers[l].damaged => Replays(l, h) /\ TailExplained(l, h)
  BY <1>1, <1>2 DEF Replays, TailExplained, Lawful
<1>4. Hydrates(h)
  BY <1>3, SomeLedger DEF Hydrates, Replays
<1>5. ~Corrupt(OpenedHead) /\ OpenedHead.history = h
  BY <1>1, <1>4, OpenedReads DEF Hydrates, IInv
<1>6. Readable
  BY <1>4, <1>5 DEF Readable
<1>7. Agrees
  BY <1>1, <1>5 DEF Agrees, OutputAgrees
<1>8. QED
  BY <1>6, <1>7

(* With a journal either history it names can be read wherever a head names it. *)
LEMMA PendingReads ==
  ASSUME IInv, Laws, Near, Hurt, Witnessed, Pending
  PROVE  Readable
<1> DEFINE h == journal.before  g == After(journal)
<1>1. journal \in Entry /\ h \in Seq(Operation) /\ journal.record \in Operation
      /\ g = Append(h, journal.record) /\ g # h
  BY HolderFacts, NoFileFacts, AfterFacts DEF IInv, Types, Pending, Entry, After
<1>2. /\ Cardinality(Ids(h)) = Len(h) /\ Cardinality(Ids(g)) = Len(g)
      /\ Takes(h, journal.record.command)
  BY DEF Laws, Lawful, Durable
<1>3. /\ \A l \in Ledger : ~ledgers[l].damaged =>
            ledgers[l].history \in {h, g} /\ (ledgers[l].torn => ledgers[l].history = h)
      /\ \A c \in Copy : heads[c].history \in {h, g}
  BY DEF IInv, Apart, Near
<1>4. /\ IsPrefix(h, h) /\ IsPrefix(g, g) /\ IsPrefix(h, g) /\ ~IsPrefix(g, h)
      /\ SubSeq(h, Len(h) + 1, Len(h)) = <<>> /\ SubSeq(g, Len(g) + 1, Len(g)) = <<>>
      /\ SubSeq(g, Len(h) + 1, Len(g)) = <<journal.record>>
  <2>1. g \in Seq(Operation)
    BY <1>1
  <2>2. IsPrefix(g, g) /\ SubSeq(g, Len(g) + 1, Len(g)) = <<>>
    BY <1>1, <2>1, PrefixFacts
  <2>3. QED
    BY <1>1, <2>2, PrefixFacts
<1> HIDE DEF h, g
<1>5. \A l \in Ledger : ~ledgers[l].damaged => Replays(l, h) /\ TailExplained(l, h)
  BY <1>2, <1>3, <1>4 DEF Replays, TailExplained, h
<1>6. Hydrates(h)
  BY <1>5, SomeLedger DEF Hydrates, Replays
<1>7. ASSUME NEW c \in Copy, heads[c].history = g PROVE Hydrates(g)
  <2>1. \E l \in Ledger : ~ledgers[l].damaged /\ ledgers[l].history = g
    BY <1>7 DEF Witnessed, g
  <2>2. \E l \in Ledger : Replays(l, g)
    BY <1>2, <1>4, <2>1 DEF Replays
  <2>3. \A l \in Ledger : Replays(l, g) => TailExplained(l, g)
    BY <1>1, <1>3, <1>4 DEF Replays, TailExplained
  <2>4. QED
    BY <2>2, <2>3 DEF Hydrates
<1>8. \A c \in Copy : Hydrates(heads[c].history)
  BY <1>3, <1>6, <1>7
<1>9. ~Corrupt(OpenedHead) /\ OpenedHead.history \in {h, g} /\ Hydrates(OpenedHead.history)
  BY <1>3, <1>8, OpenedReads DEF Hydrates, IInv
<1>10. QED
  BY <1>2, <1>6, <1>9 DEF Readable, h, g

(* The output folder may lag behind the journal only by files to copy or remove. *)
LEMMA PendingAgrees ==
  ASSUME IInv, Laws, Near, Files, Pending
  PROVE  Agrees
<1> DEFINE h == journal.before  g == After(journal)
<1>1. journal.record \in Operation /\ g = Append(h, journal.record)
      /\ Lawful(h) /\ Takes(h, journal.record.command)
  BY NoFileFacts DEF IInv, Types, Pending, Entry, After, Laws
<1>2. Agree(Kept(Project(h).decisions), Kept(Project(g).decisions))
  BY <1>1, GrowsSound
<1>3. manifest \in {h, g} /\ \A b \in Board : output[b] \in {OutputOf(h)[b], OutputOf(g)[b]}
  BY DEF Near
<1> HIDE DEF h, g
<1>4. \A b \in Board : OutputOf(h)[b] # 0 /\ OutputOf(g)[b] # 0 => OutputOf(h)[b] = OutputOf(g)[b]
  BY <1>2, NothingReplaced
<1>5. OutputAgrees(h, g)
  <2>1. ASSUME NEW b \in Board
        PROVE  LET old == OutputOf(h)[b]
                   new == OutputOf(g)[b]
                   managed == IF new # 0 THEN new ELSE old
               IN output[b] = managed \/ (output[b] = 0 /\ old # new)
    BY <1>3, <1>4
  <2>2. QED
    BY <1>3, <2>1 DEF OutputAgrees
<1>6. QED
  BY <1>5 DEF Agrees, h, g

(* "fault ... preserves confirmed work; explicit recovery and identical retry apply
   once" (project.test.mjs:616): at every moment, for any number of processes,
   deaths, takeovers and failed writes, and one damaged file, the next open finds a
   head, a ledger it replays, a journal that matches it and a folder that agrees. *)
THEOREM AlwaysRecovers ==
  ASSUME MaxDamage <= 1
  PROVE  Spec => []AlwaysRecoverable
<1>1. Init => Hurt /\ Witnessed
  BY DEF Init, Hurt, Witnessed, Pending
<1>2. IInv /\ [Next]_vars /\ Kinds /\ Hurt /\ Witnessed => (Hurt /\ Witnessed)'
  BY HurtStep, WitnessedStep
<1>3. IInv /\ Laws /\ Near /\ Files /\ Hurt /\ Witnessed => AlwaysRecoverable
  <2>1. SUFFICES ASSUME IInv, Laws, Near, Files, Hurt, Witnessed PROVE AlwaysRecoverable
    OBVIOUS
  <2>2. Readable /\ Agrees
    BY <2>1, QuietRecovers, PendingReads, PendingAgrees
  <2>3. ASSUME NEW p \in Proc, At(p, "ready"), Pending
        PROVE  memory[p] \in {journal.before, After(journal)} /\ frozen[p]
    BY <2>1, <2>3, HolderFacts DEF At, Place, Memory
  <2>4. QED
    BY <2>2, <2>3 DEF AlwaysRecoverable
<1>4. QED
  BY <1>1, <1>2, <1>3, Invariance, NearInvariance, KindsInvariance, PTL DEF Spec

=============================================================================
