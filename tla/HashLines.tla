------------------------------ MODULE HashLines ------------------------------
(***************************************************************************)
(* The line operations of a payload of the hash-anchored edit tool         *)
(* (hash-edit.ts): PUT and CUT of ranges and PUT before, after or at the   *)
(* end, several of them in one section.  All line numbers are those of the *)
(* file as it was read, however many lines the other operations add or     *)
(* remove.                                                                 *)
(*                                                                         *)
(* An original line is its number, the row that operation k puts is -k.    *)
(***************************************************************************)
EXTENDS Integers, Sequences, FiniteSets, SequencesExt

CONSTANTS
    MaxLines, MaxOperations     \* bounds

VARIABLES
    lineCount,
    seenLines,      \* the lines that read showed
    section         \* [operations, remove, moves]
payload == <<lineCount, seenLines, section>>

-----------------------------------------------------------------------------
(* parseHashPayload: operations are added row by row; REM and MV meet one  *)
(* of them at most.                                                        *)

Numbers == 1 .. lineCount + 1       \* also a line that there is not
PutRange(start, end, k) == [kind |-> "range", start |-> start, end |-> end, rows |-> <<-k>>]
CutRange(start, end) == [kind |-> "range", start |-> start, end |-> end, rows |-> <<>>]
PutAt(where, line, k) == [kind |-> "at", where |-> where, line |-> line, rows |-> <<-k>>]

PayloadInit ==
    /\ lineCount \in 0 .. MaxLines
    /\ seenLines \in {1 .. lineCount, 1 .. lineCount - 1}
    /\ section = [operations |-> <<>>, remove |-> FALSE, moves |-> FALSE]

AddOperation ==
    LET k == Len(section.operations) + 1
        ends == {r \in Numbers \X Numbers : r[1] <= r[2]}
    IN  /\ k <= MaxOperations /\ (section.remove \/ section.moves => k = 1)
        /\ \E op \in {PutRange(r[1], r[2], k) : r \in ends} \cup {CutRange(r[1], r[2]) : r \in ends}
                     \cup {PutAt(where, n, k) : where \in {"before", "after"}, n \in Numbers}
                     \cup {PutAt("eof", 0, k)} :
              section' = [section EXCEPT !.operations = Append(@, op)]
        /\ UNCHANGED <<lineCount, seenLines>>
RemoveFile ==
    /\ ~section.remove /\ Len(section.operations) <= 1
    /\ section' = [section EXCEPT !.remove = TRUE]
    /\ UNCHANGED <<lineCount, seenLines>>
MoveFile ==
    /\ ~section.moves /\ Len(section.operations) <= 1
    /\ section' = [section EXCEPT !.moves = TRUE]
    /\ UNCHANGED <<lineCount, seenLines>>

PayloadNext == AddOperation \/ RemoveFile \/ MoveFile
PayloadSpec == PayloadInit /\ [][PayloadNext]_payload

Parses ==
    /\ section.operations # <<>> \/ section.remove \/ section.moves
    /\ section.remove => section.operations = <<>> /\ ~section.moves

-----------------------------------------------------------------------------
(* applyHashOperations                                                     *)

IsRange(op) == op.kind = "range"
IsInsert(op) == op.kind = "at"
Ranges == SelectSeq(section.operations, IsRange)
Inserts == SelectSeq(section.operations, IsInsert)

GapOf_Before(op) == IF op.where = "eof" THEN lineCount - 1 ELSE op.line - 1
GapOf(op) ==
    CASE op.where = "eof" -> lineCount
      [] op.where = "before" -> op.line - 1
      [] op.where = "after" -> op.line

Fits(op) ==
    IF IsRange(op) THEN op.end <= lineCount
    ELSE op.where = "eof" \/ op.line <= lineCount
Seen(op) ==
    IF IsRange(op) THEN op.start .. op.end \subseteq seenLines
    ELSE op.where = "eof" \/ op.line \in seenLines

InOrder(a, b) == a.start < b.start \/ (a.start = b.start /\ a.end <= b.end)
Sorted == SortSeq(Ranges, InOrder)

(* Only neighbours are compared, which is enough after the sort.           *)
Overlap_Unsorted(ranges) == \E i \in 2 .. Len(ranges) : Ranges[i].start <= Ranges[i - 1].end
Overlap(ranges) == \E i \in 2 .. Len(ranges) : ranges[i].start <= ranges[i - 1].end
Within(gap, range) == gap > range.start - 1 /\ gap < range.end

Accepts ==
    /\ \A i \in DOMAIN section.operations : Fits(section.operations[i]) /\ Seen(section.operations[i])
    /\ ~Overlap(Sorted)
    /\ \A i \in DOMAIN Inserts, j \in DOMAIN Ranges : ~Within(GapOf(Inserts[i]), Ranges[j])

Inserted(gap) ==
    LET at(op) == GapOf(op) = gap
        here == SelectSeq(Inserts, at)
    IN  FlattenSeq([i \in DOMAIN here |-> here[i].rows])

(* The loop over the lines, with the index of the next range.              *)
Beyond_Itself(range) == range.end
Beyond(range) == range.end + 1
Output ==
    LET from[line \in Nat, rangeIndex \in Nat] ==
          IF line > lineCount THEN Inserted(lineCount)
          ELSE Inserted(line - 1)
               \o (IF rangeIndex <= Len(Sorted) /\ Sorted[rangeIndex].start = line
                   THEN Sorted[rangeIndex].rows \o from[Beyond(Sorted[rangeIndex]), rangeIndex + 1]
                   ELSE <<line>> \o from[line + 1, rangeIndex])
    IN  from[1, 1]

-----------------------------------------------------------------------------
(* What each operation asks for, without an order of work: before a line   *)
(* and at the end the rows that are put into this gap, in the order of the *)
(* payload; in place of the first line of a range its rows, of the others  *)
(* nothing; every other line.                                              *)
Reference ==
    LET ops == section.operations
        puts(gap) == SelectSeq(ops, LAMBDA op : op.kind = "at" /\
                                  gap = CASE op.where = "before" -> op.line - 1
                                          [] op.where = "after" -> op.line
                                          [] op.where = "eof" -> lineCount)
        rows(s) == FlattenSeq([i \in DOMAIN s |-> s[i].rows])
        over(n) == {i \in DOMAIN ops : ops[i].kind = "range" /\ n \in ops[i].start .. ops[i].end}
        line(n) == IF over(n) = {} THEN <<n>>
                   ELSE LET op == ops[CHOOSE i \in over(n) : TRUE]
                        IN  IF op.start = n THEN op.rows ELSE <<>>
    IN  FlattenSeq([n \in 1 .. lineCount |-> rows(puts(n - 1)) \o line(n)]) \o rows(puts(lineCount))

Unambiguous ==
    LET ops == section.operations
        lines(op) == op.start .. op.end
    IN  \A i, j \in DOMAIN ops : i # j /\ IsRange(ops[i]) =>
            IF IsRange(ops[j]) THEN lines(ops[i]) \cap lines(ops[j]) = {}
            ELSE ~Within(GapOf(ops[j]), ops[i])

(* A section whose lines exist and were shown is refused only when its     *)
(* operations meet; an accepted one does what its operations ask for by    *)
(* the numbers of the original lines, and every line that goes was shown.  *)
EveryLineIsMeant ==
    Parses /\ ~section.remove =>
        /\ Accepts <=> /\ \A i \in DOMAIN section.operations :
                              Fits(section.operations[i]) /\ Seen(section.operations[i])
                       /\ Unambiguous
        /\ Accepts => Output = Reference /\ (1 .. lineCount) \ Range(Output) \subseteq seenLines
=============================================================================
