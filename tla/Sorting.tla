------------------------------- MODULE Sorting ------------------------------
(***************************************************************************)
(* slices.SortStableFunc, which up to 20 elements is an insertion sort: an *)
(* element moves to the front until it meets one that it is not less than. *)
(* So it ends, and with an order that can be told, for a comparison that   *)
(* is no order too.  less is the comparison, as a set of pairs.            *)
(***************************************************************************)
EXTENDS Naturals, SequencesExt

Place(s, x, less) == Max({0} \cup {i \in DOMAIN s : <<x, s[i]>> \notin less})

Insert(s, x, less) == InsertAt(s, Place(s, x, less) + 1, x)

(* The first n elements are sorted, and the next one is inserted.          *)
StableSort(s, less) ==
  LET sorted[n \in 0 .. Len(s)] ==
        IF n = 0 THEN <<>> ELSE Insert(sorted[n - 1], s[n], less)
  IN sorted[Len(s)]

(* The pairs of elements of a sequence.                                    *)
Pairs(s) == ToSet(s) \X ToSet(s)

=============================================================================
