----------------------------- MODULE Association -----------------------------
(***************************************************************************)
(* calculators/util/association_calculator.h as AssociationNormRect uses   *)
(* it: the elements of several vectors without those that overlap.  Of the *)
(* rectangles only matters which two have an IoU above the threshold.      *)
(***************************************************************************)
EXTENDS Integers, Sequences, SequencesExt

CONSTANTS Rects, Near   \* Near: the sets of two rectangles that overlap

ASSUME AssociationAssumption == Near \subseteq {{a, b} : a, b \in Rects}

Overlap(a, b) == a = b \/ {a, b} \in Near

(* The loop that erases from current what overlaps with element.           *)
Apart(current, element) ==
  LET keep(kept, r) == IF Overlap(r, element) THEN kept ELSE Append(kept, r)
  IN  FoldLeft(keep, << >>, current)

AddElementToList(current, element) == Append(Apart(current, element), element)

(* The first vector is taken as it is.  Mutant of                          *)
(* GetNonOverlappingElements.                                              *)
FirstTakenWhole(vectors) == FoldLeft(AddElementToList, Head(vectors), FlattenSeq(Tail(vectors)))

(* Vectors in increasing order of priority, the first of them included.    *)
GetNonOverlappingElements(vectors) == FoldLeft(AddElementToList, << >>, FlattenSeq(vectors))
=============================================================================
