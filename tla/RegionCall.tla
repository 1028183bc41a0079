------------------------------ MODULE RegionCall ------------------------------
(***************************************************************************)
(* What Cr51Sign takes a call of validate_payload_regions() to be: one     *)
(* verdict on the candidate, the first of its checks that fails, unless a  *)
(* read fails before.  What the checks ask is said of the bytes of the     *)
(* image here; the code (Cr51Regions) never looks at a byte twice.         *)
(***************************************************************************)
EXTENDS Cr51Verdict

CONSTANTS
  RegionInput,   \* what validate_descriptor() let through: the region array,
                 \*   the absolute offset d of the descriptor, its area's
                 \*   size, the image's size, whether the digest has its magic,
                 \*   the bytes the signer computed it over, and whether the
                 \*   interface has a read_and_hash_update() of its own
  Align          \* IMAGE_REGION_ALIGNMENT

VARIABLES
  rg_in,        \* the arguments of the call
  rg_verdict    \* what the call returned, "none" before

rgCallVars == <<rg_in, rg_verdict>>

Bytes(start, size) == start..(start + size - 1)
EndOf(region) == region.offset + region.size
InRegion(region, d) == region.offset <= d /\ d < EndOf(region)

(* The regions are aligned and lie one behind the other, every byte of the *)
(* image is in one of them, and the one the descriptor begins in is static *)
(* and holds its whole area.                                               *)
ProperArray(in) ==
  LET R == in.regions IN
  /\ \A i \in DOMAIN R : R[i].offset % Align = 0 /\ R[i].size % Align = 0
  /\ R[1].offset = 0 /\ EndOf(R[Len(R)]) = in.image_size
  /\ \A i, j \in DOMAIN R : i < j => EndOf(R[i]) <= R[j].offset
  /\ \A n \in 0..(in.image_size - 1) : \E i \in DOMAIN R : InRegion(R[i], n)
  /\ \A i \in DOMAIN R :
       InRegion(R[i], in.d) =>
         R[i].static /\ in.d + in.area <= EndOf(R[i])

(* The bytes of the first n regions that are static.                       *)
StaticOf(in, n) ==
  UNION {Bytes(in.regions[i].offset, in.regions[i].size) :
           i \in {j \in 1..n : in.regions[j].static}}

(* What the digest should cover.                                           *)
SignedBytes(in) ==
  StaticOf(in, Len(in.regions)) \ Bytes(in.d, in.area)

Candidate(in) ==
  [fails |-> IF ~ProperArray(in) THEN "regions"
             ELSE IF ~in.magic THEN "hash_magic"
             ELSE IF in.signed # SignedBytes(in) THEN "image_hash"
             ELSE "none"]

RgCallInit == rg_in \in RegionInput /\ rg_verdict = "none"

RgCallReturns ==
  /\ rg_verdict = "none"
  /\ \E fault \in RegionRead \cup {"none"} :
       rg_verdict' = RegionVerdict(Candidate(rg_in), fault)
  /\ UNCHANGED rg_in

RgCallSpec == RgCallInit /\ [][RgCallReturns]_rgCallVars
===============================================================================
