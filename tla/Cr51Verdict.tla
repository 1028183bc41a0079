------------------------------ MODULE Cr51Verdict -----------------------------
(***************************************************************************)
(* What libcr51sign says of a candidate.  Cr51Sign takes it from the first *)
(* check that fails; RegionCall and Cr51Regions look into the checks of    *)
(* the regions.                                                            *)
(***************************************************************************)
EXTENDS Integers, Sequences

(* What each check on a descriptor or its payload returns when it fails.   *)
Reason ==
  [none |-> "SUCCESS",
   range |-> "INVALID_DESCRIPTOR", header |-> "INVALID_DESCRIPTOR",
   signature_scheme |-> "INVALID_SIG_SCHEME", hash_type |-> "INVALID_HASH_TYPE",
   version |-> "UNSUPPORTED_DESCRIPTOR",
   blob_size |-> "INVALID_DESCRIPTOR", area_size |-> "INVALID_DESCRIPTOR",
   signature_magic |-> "INVALID_DESCRIPTOR", family |-> "INVALID_IMAGE_FAMILY",
   regions |-> "INVALID_DESCRIPTOR", hash_magic |-> "INVALID_DESCRIPTOR",
   image_hash |-> "INVALID_HASH"]

HashChecks == {"hash_magic", "image_hash"}

(* A chain of checks returns the reason of the first that fails.           *)
FirstFailure(checks) ==
  IF \A i \in DOMAIN checks : checks[i][1] THEN "SUCCESS"
  ELSE checks[CHOOSE i \in DOMAIN checks :
                /\ ~checks[i][1]
                /\ \A j \in 1..(i - 1) : checks[j][1]][2]

(* The reads whose failure changes the verdict on the regions: that of the *)
(* array, and those of the digest and of what it covers.                   *)
RegionRead == {"regions", "hash"}

RegionVerdict(b, fault) ==
  FirstFailure(<<
    <<fault # "regions", "RUNTIME_FAILURE">>,
    <<b.fails # "regions", Reason[b.fails]>>,
    <<fault # "hash", "RUNTIME_FAILURE">>,
    <<b.fails \notin HashChecks, Reason[b.fails]>> >>)
===============================================================================
