--------------------------- MODULE ProjectCommands ---------------------------
(***************************************************************************)
(* What one command does to a selector project                             *)
(* (src/apps/selector-desktop/src/project/project-store.ts, execute).      *)
(*                                                                         *)
(* The operator walks through the images of a source folder and gives the  *)
(* ones that are good the board numbers they show: a decision accepts or   *)
(* skips one range of numbers.  A history is the sequence of the applied   *)
(* operations; everything the program shows is a function of it, because   *)
(* the files store the operations and replay them.                         *)
(***************************************************************************)
EXTENDS Naturals, FiniteSets, SequencesExt

CONSTANTS
    Images,         \* how many images the source folder has
    UpperBound,     \* the largest board number
    Width,          \* how many boards one image shows (9)
    FirstLayout,    \* the number of the first board
    FirstDirection  \* the direction a new project numbers in

Image == 1..Images
Board == 1..UpperBound
Direction == {"ascending", "descending"}

ASSUME CommandsAssumption ==
    /\ Images \in Nat \ {0} /\ UpperBound \in Nat \ {0} /\ Width \in Nat \ {0}
    /\ FirstLayout \in Board /\ FirstDirection \in Direction

CommandShape == [kind : {"accept", "skip", "navigate", "range", "undo", "restart"},
                 image : Image, start : Board, direction : Direction, revision : Nat]

\* A command carries the arguments its kind uses; the others are fixed.
NoArguments == [kind |-> "skip", image |-> 1, start |-> 1, direction |-> "ascending", revision |-> 0]

Accept(i) == [NoArguments EXCEPT !.kind = "accept", !.image = i]
Skip == NoArguments
Navigate(i) == [NoArguments EXCEPT !.kind = "navigate", !.image = i]
SetRange(b, d) == [NoArguments EXCEPT !.kind = "range", !.start = b, !.direction = d]
Undo == [NoArguments EXCEPT !.kind = "undo"]
Restart(r) == [NoArguments EXCEPT !.kind = "restart", !.revision = r]

----------------------------------------------------------------------------
Smaller(a, b) == IF a <= b THEN a ELSE b
Larger(a, b) == IF a >= b THEN a ELSE b

RangeEnd(start) == Smaller(start + Width - 1, UpperBound)

\* Descending numbering stops at 1, ascending numbering may leave the bound.
NextStart(direction, start) ==
    IF direction = "ascending" THEN start + Width
    ELSE IF start > Width THEN start - Width ELSE 1

Terminal(direction, start) ==
    IF direction = "descending" THEN start = 1 ELSE RangeEnd(start) = UpperBound

Overlap(a, b) == a <= RangeEnd(b) /\ b <= RangeEnd(a)

NewProject == [cursor |-> 1, next |-> FirstLayout, direction |-> FirstDirection,
               complete |-> FALSE, decisions |-> <<>>]

Kept(decisions) == {decisions[i] : i \in {j \in DOMAIN decisions : decisions[j].accepted}}

\* The decision an accept or a skip appends.
Decision(project, accepted) ==
    [image |-> project.cursor, start |-> project.next, accepted |-> accepted]

\* SELECTION_COMPLETE, INVALID_RANGE and RANGE_CONFLICT.
RangeFree(project) ==
    /\ ~project.complete
    /\ project.next <= UpperBound
    /\ \A d \in Kept(project.decisions) : ~Overlap(d.start, project.next)

\* The commands the project takes at a revision; the others are refused unchanged.
Legal(project, revision, c) ==
    CASE c.kind = "accept" -> /\ RangeFree(project)
                              /\ c.image = project.cursor
                              /\ \A d \in Kept(project.decisions) : d.image # c.image
      [] c.kind = "skip" -> RangeFree(project)
      [] c.kind = "undo" -> project.decisions # <<>>
      [] c.kind = "restart" -> c.revision = revision
      [] OTHER -> TRUE

Decide(project, accepted) ==
    [project EXCEPT !.decisions = Append(@, Decision(project, accepted)),
                    !.complete = Terminal(project.direction, project.next),
                    !.next = NextStart(project.direction, project.next),
                    !.cursor = IF accepted THEN Smaller(@ + 1, Images) ELSE @]

Apply(project, c) ==
    CASE c.kind = "accept" -> Decide(project, TRUE)
      [] c.kind = "skip" -> Decide(project, FALSE)
      [] c.kind = "navigate" -> [project EXCEPT !.cursor = c.image]
      [] c.kind = "range" -> [project EXCEPT !.next = c.start, !.direction = c.direction,
                                             !.complete = FALSE]
      [] c.kind = "undo" -> LET last == Last(project.decisions)
                            IN [project EXCEPT !.decisions = Front(@), !.cursor = last.image,
                                               !.next = last.start, !.complete = FALSE]
      [] c.kind = "restart" -> [project EXCEPT !.decisions = <<>>, !.cursor = 1,
                                               !.next = FirstLayout, !.complete = FALSE]

\* The project a history replays to.
Project(history) ==
    LET after[n \in 0..Len(history)] ==
            IF n = 0 THEN NewProject ELSE Apply(after[n - 1], history[n].command)
    IN after[Len(history)]

\* The images the output folder holds for a history, by their first board.
OutputOf(history) ==
    LET kept == Kept(Project(history).decisions)
    IN [b \in Board |-> IF \E d \in kept : d.start = b
                        THEN (CHOOSE d \in kept : d.start = b).image ELSE 0]

\* A project takes a command only where its history makes it legal.
Takes(history, c) == Legal(Project(history), Len(history), c)

Ids(history) == {history[i].id : i \in DOMAIN history}
=============================================================================
