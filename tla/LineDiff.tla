------------------------------ MODULE LineDiff -------------------------------
(***************************************************************************)
(* The line diff the version drawer shows: a table of the lengths of the   *)
(* longest common subsequences of all prefixes, then a walk from its last  *)
(* corner back to the first, one operation at a time.                      *)
(*                                                                         *)
(* Data.  A line is a model value.  How the operations are drawn (inline,  *)
(* or a window of a long list) is left out.                                *)
(***************************************************************************)
EXTENDS Integers, FiniteSets, Sequences

Ext == INSTANCE SequencesExt

CONSTANTS
  Line,          (* Lines.                                                 *)
  Blank,         (* The empty line.                                        *)
  MaxLines       (* Bound: lines of a value.                               *)

ASSUME LineDiffAssumption == Blank \in Line /\ MaxLines \in Nat

VARIABLES
  leftLines,     (* The older value.                                       *)
  rightLines,    (* The current value.                                     *)
  walk,          (* i and j of the walk back, and whether it has returned. *)
  ops            (* The operations pushed so far.                          *)

diffVars == << leftLines, rightLines, walk, ops >>

(* A value splits into lines; the empty one into none, so that no value is *)
(* a single blank line.                                                    *)
Lines(n) == (UNION {[1..k -> Line] : k \in 0..n}) \ {<< Blank >>}

(* A cell of the table is a pair of lengths of prefixes.                   *)
Cells(l, r) == (0..Len(l)) \X (0..Len(r))

(* EntryOf(t, l, r, c): what is put into the cell c of the table t.        *)
EntryOf(t, l, r, c) ==
  LET i == c[1]
      j == c[2]
      above  == t[<< i - 1, j >>]
      before == t[<< i, j - 1 >>]
  IN  IF i = 0 \/ j = 0 THEN 0
      ELSE IF l[i] = r[j] THEN t[<< i - 1, j - 1 >>] + 1
      ELSE IF above >= before THEN above ELSE before

Table(l, r) == LET t[c \in Cells(l, r)] == EntryOf(t, l, r, c) IN t

lcs == Table(leftLines, rightLines)

NoLine == 0
Equal(i, j) == [kind |-> "equal", leftLine |-> i, rightLine |-> j]
Removed(i)  == [kind |-> "removed", leftLine |-> i, rightLine |-> NoLine]
Added(j)    == [kind |-> "added", leftLine |-> NoLine, rightLine |-> j]

StartAt(l, r) == [i |-> Len(l), j |-> Len(r), done |-> FALSE]

DiffInit ==
  /\ leftLines \in Lines(MaxLines) /\ rightLines \in Lines(MaxLines)
  /\ walk = StartAt(leftLines, rightLines)
  /\ ops = << >>

Walking == ~walk.done /\ (walk.i > 0 \/ walk.j > 0)

SameLine ==
  walk.i > 0 /\ walk.j > 0 /\ leftLines[walk.i] = rightLines[walk.j]

-----------------------------------------------------------------------------
(* Faulty variants of the operations below.                                *)

OtherwiseAround(table) ==
  /\ walk.j > 0
  /\ walk.i > 0 => table[<< walk.i, walk.j - 1 >>] < table[<< walk.i - 1, walk.j >>]

PushRemovedFromRight ==
  /\ Walking /\ ~SameLine
  /\ walk.i > 0 /\ walk.j > 0 => lcs[<< walk.i, walk.j - 1 >>] < lcs[<< walk.i - 1, walk.j >>]
  /\ ops' = Append(ops, Removed(walk.i))
  /\ walk' = [i |-> walk.i, j |-> walk.j - 1, done |-> FALSE]
  /\ UNCHANGED << leftLines, rightLines >>

-----------------------------------------------------------------------------
(* The walk.                                                               *)

(* RightIsNext(table): with no line in common, the side without which the  *)
(* longer common part remains is left first; the right one at a tie.       *)
RightIsNext(table) ==
  /\ walk.j > 0
  /\ walk.i > 0 => table[<< walk.i, walk.j - 1 >>] >= table[<< walk.i - 1, walk.j >>]

PushEqual ==
  /\ Walking /\ SameLine
  /\ ops' = Append(ops, Equal(walk.i, walk.j))
  /\ walk' = [i |-> walk.i - 1, j |-> walk.j - 1, done |-> FALSE]
  /\ UNCHANGED << leftLines, rightLines >>

PushAdded ==
  /\ Walking /\ ~SameLine /\ RightIsNext(lcs)
  /\ ops' = Append(ops, Added(walk.j))
  /\ walk' = [i |-> walk.i, j |-> walk.j - 1, done |-> FALSE]
  /\ UNCHANGED << leftLines, rightLines >>

PushRemoved ==
  /\ Walking /\ ~SameLine /\ ~RightIsNext(lcs)
  /\ ops' = Append(ops, Removed(walk.i))
  /\ walk' = [i |-> walk.i - 1, j |-> walk.j, done |-> FALSE]
  /\ UNCHANGED << leftLines, rightLines >>

ReturnOps ==
  /\ ~walk.done /\ walk.i = 0 /\ walk.j = 0
  /\ ops' = Ext!Reverse(ops)
  /\ walk' = [i |-> 0, j |-> 0, done |-> TRUE]
  /\ UNCHANGED << leftLines, rightLines >>

(* The drawer's summary.                                                   *)
CountOf(o, k) == Cardinality({n \in DOMAIN o : o[n].kind = k})
diffSummary == [added |-> CountOf(ops, "added"), removed |-> CountOf(ops, "removed")]

DiffNext == PushEqual \/ PushAdded \/ PushRemoved \/ ReturnOps

DiffSpec == DiffInit /\ [][DiffNext]_diffVars

-----------------------------------------------------------------------------
(* Properties.                                                             *)

LineDiffTypeOK ==
  /\ leftLines \in Lines(MaxLines) /\ rightLines \in Lines(MaxLines)
  /\ walk \in [i : 0..Len(leftLines), j : 0..Len(rightLines), done : BOOLEAN]
  /\ \A n \in DOMAIN ops :
       ops[n] \in [kind : {"equal", "removed", "added"},
                   leftLine : Nat, rightLine : Nat]

(* A common subsequence, as the pairs of positions it matches.             *)
Matches(l, r) == {p \in (1..Len(l)) \X (1..Len(r)) : l[p[1]] = r[p[2]]}

CommonSubsequences(l, r) ==
  {c \in SUBSET Matches(l, r) :
     \A p, q \in c : p # q => \/ p[1] < q[1] /\ p[2] < q[2]
                              \/ q[1] < p[1] /\ q[2] < p[2]}

(* The lines of either side, in the order of the operations.               *)
LeftSide(o)  == [n \in DOMAIN o |-> IF o[n].kind = "added" THEN NoLine ELSE o[n].leftLine]
RightSide(o) == [n \in DOMAIN o |-> IF o[n].kind = "removed" THEN NoLine ELSE o[n].rightLine]

(* Spells(side, n): the lines 1 to n, each once and in order.              *)
Spells(side, n) ==
  /\ \A k \in DOMAIN side : side[k] \in 0..n
  /\ \A i \in 1..n : \E k \in DOMAIN side : side[k] = i
  /\ \A k, h \in DOMAIN side :
       k < h /\ side[k] # NoLine /\ side[h] # NoLine => side[k] < side[h]

(* The diff is a true and a shortest one: read without what was added it   *)
(* is the older value, read without what was removed the current one, line *)
(* by line and in order, what it calls equal is, and no common subsequence *)
(* of the two leaves fewer lines to add or remove (diff.ts, 21-64).        *)
ShortestDiff ==
  walk.done =>
    /\ Spells(LeftSide(ops), Len(leftLines))
    /\ Spells(RightSide(ops), Len(rightLines))
    /\ \A n \in DOMAIN ops : ops[n].kind = "equal" =>
         leftLines[ops[n].leftLine] = rightLines[ops[n].rightLine]
    /\ \A c \in CommonSubsequences(leftLines, rightLines) :
         /\ diffSummary.removed <= Len(leftLines) - Cardinality(c)
         /\ diffSummary.added <= Len(rightLines) - Cardinality(c)
=============================================================================
