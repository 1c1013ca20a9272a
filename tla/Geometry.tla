----------------------------- MODULE Geometry -----------------------------
(***************************************************************************)
(* Rectangles in whole units, as custombuild_manufacturing.model.Rect and  *)
(* the CAM modules use them, and the lexicographic order of sort keys.     *)
(***************************************************************************)
EXTENDS Integers, Sequences

Smaller(a, b) == IF a < b THEN a ELSE b
Larger(a, b) == IF a > b THEN a ELSE b

\* The order of sort keys: of tuples of one length, by the first difference.
Before(a, b) ==
    \E i \in 1 .. Len(a) : a[i] < b[i] /\ \A j \in 1 .. i - 1 : a[j] = b[j]

Rect(x, y, w, l) == [x |-> x, y |-> y, w |-> w, l |-> l]
Right(r) == r.x + r.w
Top(r) == r.y + r.l

Within(inner, outer) ==
    /\ outer.x <= inner.x /\ Right(inner) <= Right(outer)
    /\ outer.y <= inner.y /\ Top(inner) <= Top(outer)

\* Rect.intersects: edges that only meet, with the clearance added, are apart.
Intersects(a, b, clearance) ==
    /\ Right(a) + clearance > b.x /\ Right(b) + clearance > a.x
    /\ Top(a) + clearance > b.y /\ Top(b) + clearance > a.y

\* The cutter's checks are closed: edges that meet do touch.
Touch(a, b) ==
    a.x <= Right(b) /\ b.x <= Right(a) /\ a.y <= Top(b) /\ b.y <= Top(a)
===========================================================================
