--------------------------- MODULE AllocatorSpec ---------------------------
(***************************************************************************)
(* What one page of GPU memory promises its callers, without the linked    *)
(* list: the regions handed out lie inside the page and never overlap.     *)
(* MemoryPage implements this specification (MemoryPage!Promise).          *)
(***************************************************************************)
EXTENDS Integers

CONSTANT PageSize   \* Page::size, in units of the smallest alignment

VARIABLE regions    \* the regions in use, as pairs <<first, last>>

Region == {r \in (0 .. PageSize - 1) \X (0 .. PageSize - 1) : r[1] <= r[2]}

Apart(r, s) == r[2] < s[1] \/ s[2] < r[1]

Init == regions = {}

(* A caller is given a region that is apart from every region in use. *)
Grant ==
  \E r \in Region :
    /\ \A s \in regions : Apart(r, s)
    /\ regions' = regions \cup {r}

(* A caller gives a region back. *)
Release ==
  \E r \in regions : regions' = regions \ {r}

Next == Grant \/ Release

Spec == Init /\ [][Next]_regions
=============================================================================
