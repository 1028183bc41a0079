------------------------------- MODULE Cr51Sign -------------------------------
(***************************************************************************)
(* libcr51sign_validate(): the search of an image for a signed descriptor, *)
(* the validation of each candidate, and the check and replacement of the  *)
(* board's MAUV record.  Images are validated one after another, as        *)
(* updates arrive; the board may lose power at any step and keeps only the *)
(* record.                                                                 *)
(*                                                                         *)
(* A block is what the image holds at a multiple of DESCRIPTOR_ALIGNMENT.  *)
(* Of a descriptor's content only the first check it fails, what the later *)
(* checks ask the interface about, and its blob are kept.                  *)
(***************************************************************************)
EXTENDS MauvStore, Cr51Verdict

CONSTANTS Images,      \* the images that updates bring: sequences of blocks
          Interfaces   \* the interfaces callers pass

(* The checks before and after the blob is located.                        *)
HeaderChecks == {"header", "signature_scheme", "hash_type", "version"}
AreaChecks == {"blob_size", "area_size"}
TransitionChecks == {"signature_magic", "family"}

Block == [magic    : BOOLEAN,
          fails    : DOMAIN Reason,     \* first
          type     : {"prod", "dev", "other"},
          vouched  : {"hash", "key", "keyring", "nobody"},  \* who trusts it
          has_blob : BOOLEAN,                                 \* blob_size # 0
          blob     : [magic : BOOLEAN, overrun : BOOLEAN, mauvs : Seq(Mauv)]]

Hook == {"hash", "is_production_mode", "trust_descriptor_hash",
         "trust_key_in_signature_structure", "verify_signature",
         "retrieve_stored_image_mauv_data", "store_new_image_mauv_data"}

Interface == [hooks : SUBSET Hook, production : BOOLEAN, downgrade : BOOLEAN]

ASSUME ImagesAssumption == Images \subseteq Seq(Block) \ {<<>>}
ASSUME InterfacesAssumption == Interfaces \subseteq Interface

VARIABLES
  pc,                   \* the part of the validation to be done next
  image, intf,          \* the arguments of the call
  validation_state,     \* ctx->validation_state
  descriptor,           \* the block ctx->descriptor was read from, 0 if none
  descriptor_offset,    \* the block to look at
  payload_blob_offset,  \* the block whose blob it points into, 0 if unset
  rv_first_desc, rv,
  payload,              \* the MAUV record found in the payload
  before,               \* history: the board's record when the call began
  faulty                \* history: a read failed during the call

callVars == <<image, intf, before>>
ctxVars == <<validation_state, descriptor>>
searchVars == <<descriptor_offset, payload_blob_offset, rv_first_desc>>
vars == <<pc, callVars, ctxVars, searchVars, rv, payload, faulty, stored>>

NoInterface == [hooks |-> {}, production |-> FALSE, downgrade |-> FALSE]

Init == /\ stored \in Mauv \cup {NoMauv}
        /\ pc = "idle"
        /\ image = <<>>
        /\ intf = NoInterface
        /\ before = NoMauv
        /\ validation_state = "UNSPECIFIED"
        /\ descriptor = 0
        /\ descriptor_offset = 1
        /\ payload_blob_offset = 0
        /\ rv_first_desc = "SUCCESS"
        /\ rv = "SUCCESS"
        /\ payload = NoMauv
        /\ faulty = FALSE

Supplies(hook) == hook \in intf.hooks
-------------------------------------------------------------------------------
(* The locals of a call before it looks at the image.                      *)
ClearLocals == /\ descriptor' = 0
               /\ descriptor_offset' = 1
               /\ payload_blob_offset' = 0
               /\ rv_first_desc' = "SUCCESS"
               /\ rv' = "SUCCESS"
               /\ payload' = NoMauv
               /\ faulty' = FALSE

(* The caller validates an image with a context of its own.                *)
Call == /\ pc = "idle"
        /\ pc' = "scan"
        /\ image' \in Images
        /\ intf' \in Interfaces
        /\ before' = stored
        /\ validation_state' = "INVALID"
        /\ ClearLocals
        /\ UNCHANGED stored

(* The caller drops the context of a call that is done, or loses power at  *)
(* any step of it: nothing is left but the board's record.                 *)
Drop == /\ pc # "idle"
        /\ pc' = "idle"
        /\ image' = <<>>
        /\ intf' = NoInterface
        /\ before' = NoMauv
        /\ validation_state' = "UNSPECIFIED"
        /\ ClearLocals
        /\ UNCHANGED stored

(* libcr51sign_validate() returns.                                         *)
Return(reason) == pc' = "done" /\ rv' = reason

(* A failed search reports why the first candidate was rejected, if any.   *)
ReturnNotFound(reason) ==
  Return(IF rv_first_desc # "SUCCESS" THEN rv_first_desc ELSE reason)

(* Mutants: the last reason overwrites the first; the search goes one      *)
(* block too far; it finds the same candidate again.                       *)
RejectLast(reason) ==
  /\ rv_first_desc' = reason
  /\ descriptor_offset' = descriptor_offset + 1
  /\ pc' = "scan"

RejectSkips(reason) ==
  /\ rv_first_desc' = IF rv_first_desc = "SUCCESS" THEN reason
                      ELSE rv_first_desc
  /\ descriptor_offset' = descriptor_offset + 2
  /\ pc' = "scan"

RejectRescans(reason) ==
  /\ rv_first_desc' = IF rv_first_desc = "SUCCESS" THEN reason
                      ELSE rv_first_desc
  /\ pc' = "scan"
  /\ UNCHANGED descriptor_offset

(* The candidate is rejected and the search continues behind it.           *)
Reject(reason) ==
  /\ rv_first_desc' = IF rv_first_desc = "SUCCESS" THEN reason
                      ELSE rv_first_desc
  /\ descriptor_offset' = descriptor_offset + 1
  /\ pc' = "scan"

(* One turn of the loop of scan_for_magic_8(), or its end.                 *)
ScanBlock ==
  /\ pc = "scan"
  /\ descriptor_offset <= Len(image)
  /\ IF image[descriptor_offset].magic
     THEN pc' = "descriptor" /\ UNCHANGED descriptor_offset
     ELSE descriptor_offset' = descriptor_offset + 1 /\ UNCHANGED pc
  /\ UNCHANGED <<callVars, ctxVars, payload_blob_offset, rv_first_desc, rv,
                 payload, faulty, stored>>

ScanReadFails ==
  /\ pc = "scan"
  /\ descriptor_offset <= Len(image)
  /\ ReturnNotFound("RUNTIME_FAILURE")
  /\ faulty' = TRUE
  /\ UNCHANGED <<callVars, ctxVars, searchVars, payload, stored>>

ScanEnds ==
  /\ pc = "scan"
  /\ descriptor_offset > Len(image)
  /\ ReturnNotFound("FAILED_TO_LOCATE_MAGIC")
  /\ UNCHANGED <<callVars, ctxVars, searchVars, payload, faulty, stored>>
-------------------------------------------------------------------------------
(* The reads whose failure changes the verdict on a candidate.             *)
DescriptorRead == {"descriptor", "transition", "digest", "signature", "key"}

(* validate_transition(): where may this image come from, and which type   *)
(* may run here.                                                           *)
TransitionVerdict(b, fault) ==
  FirstFailure(<<
    <<fault # "transition", "RUNTIME_FAILURE">>,
    <<b.fails \notin TransitionChecks, Reason[b.fails]>>,
    <<Supplies("is_production_mode"), "INVALID_INTERFACE">>,
    <<intf.production /\ b.type = "dev" => intf.downgrade,
      "DEV_DOWNGRADE_DISALLOWED">> >>)

(* validate_signature(): a key that cannot be read is only not trusted.    *)
SignatureVerdict(b, fault) ==
  LET hash_trusted == /\ Supplies("trust_descriptor_hash")
                      /\ b.vouched = "hash"
      key_trusted == /\ Supplies("trust_key_in_signature_structure")
                     /\ b.vouched = "key"
                     /\ fault # "key"
      trusted == hash_trusted \/ key_trusted
  IN FirstFailure(<<
       <<Supplies("hash"), "INVALID_INTERFACE">>,
       <<fault # "digest", "RUNTIME_FAILURE">>,
       <<hash_trusted \/ fault # "signature", "RUNTIME_FAILURE">>,
       <<trusted \/ Supplies("verify_signature"), "INVALID_INTERFACE">>,
       <<trusted \/ b.vouched = "keyring", "INVALID_SIGNATURE">> >>)

DescriptorVerdict(b, fault) ==
  LET transition == TransitionVerdict(b, fault)
      signature == SignatureVerdict(b, fault)
  IN FirstFailure(<<
       <<b.fails # "range", Reason[b.fails]>>,
       <<fault # "descriptor", "RUNTIME_FAILURE">>,
       <<b.fails \notin HeaderChecks \cup AreaChecks, Reason[b.fails]>>,
       <<transition = "SUCCESS", transition>>,
       <<signature = "SUCCESS", signature>> >>)

(* The blob is located as soon as the header is accepted, whether or not   *)
(* the candidate passes the checks that follow.                            *)
LocatesBlob(b, fault) ==
  /\ fault # "descriptor"
  /\ b.fails \notin HeaderChecks \cup {"range"}
  /\ b.has_blob

ValidateDescriptor ==
  /\ pc = "descriptor"
  /\ \E fault \in DescriptorRead \cup {"none"} :
       LET b == image[descriptor_offset]
           verdict == DescriptorVerdict(b, fault)
       IN /\ descriptor' = IF b.fails = "range" \/ fault = "descriptor"
                           THEN descriptor ELSE descriptor_offset
          /\ payload_blob_offset' = IF LocatesBlob(b, fault)
                                    THEN descriptor_offset
                                    ELSE payload_blob_offset
          /\ faulty' = (faulty \/ fault # "none")
          /\ IF verdict = "SUCCESS"
             THEN pc' = "regions" /\ UNCHANGED <<rv_first_desc, descriptor_offset>>
             ELSE Reject(verdict)
  /\ UNCHANGED <<callVars, validation_state, rv, payload, stored>>

(* validate_payload_regions(), and what its success means to the caller.   *)
ValidateRegions ==
  /\ pc = "regions"
  /\ \E fault \in RegionRead \cup {"none"} :
       LET b == image[descriptor]
           verdict == RegionVerdict(b, fault)
       IN /\ faulty' = (faulty \/ fault # "none")
          /\ IF verdict # "SUCCESS"
             THEN Reject(verdict) /\ UNCHANGED <<validation_state, rv>>
             ELSE /\ validation_state' = "VALID"
                  /\ IF b.type = "prod" THEN pc' = "payload_mauv" /\ UNCHANGED rv
                     ELSE Return("SUCCESS")
                  /\ UNCHANGED <<rv_first_desc, descriptor_offset>>
  /\ UNCHANGED <<callVars, descriptor, payload_blob_offset, payload, stored>>
-------------------------------------------------------------------------------
(* What the walk of a blob finds.  How far it walks is the blob_size of    *)
(* the validated descriptor, where it walks the offset found last.         *)
EmptyBlob == [magic |-> TRUE, overrun |-> FALSE, mauvs |-> <<>>]
WalkedBlobAnySize == image[payload_blob_offset].blob  \* mutant: no size
WalkedBlob ==
  IF image[descriptor].has_blob THEN image[payload_blob_offset].blob
  ELSE [EmptyBlob EXCEPT !.magic = image[payload_blob_offset].blob.magic]

PayloadVerdict(b) ==
  FirstFailure(<<
    <<b.magic /\ ~b.overrun /\ Len(b.mauvs) <= 1, "INVALID_DESCRIPTOR">>,
    <<Len(b.mauvs) = 1 => Sane(b.mauvs[1]), "INVALID_IMAGE_MAUV_DATA">> >>)

(* find_and_read_image_mauv_data_from_payload()                            *)
FindPayloadMauv ==
  /\ pc = "payload_mauv"
  /\ IF payload_blob_offset = 0
     THEN pc' = "stored_mauv" /\ UNCHANGED <<rv, payload>>
     ELSE LET verdict == PayloadVerdict(WalkedBlob)
          IN IF verdict = "SUCCESS"
             THEN /\ payload' = IF WalkedBlob.mauvs = <<>> THEN NoMauv
                                ELSE WalkedBlob.mauvs[1]
                  /\ pc' = "stored_mauv"
                  /\ UNCHANGED rv
             ELSE Return(verdict) /\ UNCHANGED payload
  /\ UNCHANGED <<callVars, ctxVars, searchVars, faulty, stored>>

PayloadReadFails ==
  /\ pc = "payload_mauv"
  /\ payload_blob_offset # 0
  /\ Return("RUNTIME_FAILURE")
  /\ faulty' = TRUE
  /\ UNCHANGED <<callVars, ctxVars, searchVars, payload, stored>>

(* Whether there is a stored record that judges the payload, and what it   *)
(* finds.                                                                  *)
Judges == Supplies("retrieve_stored_image_mauv_data") /\ stored # NoMauv
MauvVerdictAllowsAll ==                               \* mutant: not compared
  FirstFailure(<<
    <<payload # NoMauv => Supplies("retrieve_stored_image_mauv_data"),
      "INVALID_INTERFACE">>,
    <<Judges => Sane(stored), "INVALID_IMAGE_MAUV_DATA">>,
    <<Judges => payload # NoMauv,
      "STORED_IMAGE_MAUV_EXPECTS_PAYLOAD_IMAGE_MAUV">> >>)
MauvVerdict ==
  FirstFailure(<<
    <<payload # NoMauv => Supplies("retrieve_stored_image_mauv_data"),
      "INVALID_INTERFACE">>,
    <<Judges => Sane(stored), "INVALID_IMAGE_MAUV_DATA">>,
    <<Judges => payload # NoMauv,
      "STORED_IMAGE_MAUV_EXPECTS_PAYLOAD_IMAGE_MAUV">>,
    <<Judges /\ payload # NoMauv => Allows(stored, payload.version),
      "STORED_IMAGE_MAUV_DOES_NOT_ALLOW_UPDATE_TO_PAYLOAD">> >>)

(* An accepted payload's record replaces an older one.                     *)
NewerOrNot == payload # NoMauv                        \* mutant: no timestamp
Newer == payload # NoMauv /\ (Judges => payload.timestamp > stored.timestamp)

(* Mutant: the record is replaced before it is known that it can be.       *)
CheckAndStoreMauv ==
  /\ pc = "stored_mauv"
  /\ IF MauvVerdict = "SUCCESS" /\ Newer
     THEN pc' = "store" /\ stored' = payload /\ UNCHANGED rv
     ELSE Return(MauvVerdict) /\ UNCHANGED stored
  /\ UNCHANGED <<callVars, ctxVars, searchVars, payload, faulty>>

(* validate_payload_image_mauv(), from the retrieval on                    *)
CheckStoredMauv ==
  /\ pc = "stored_mauv"
  /\ IF MauvVerdict = "SUCCESS" /\ Newer
     THEN pc' = "store" /\ UNCHANGED rv
     ELSE Return(MauvVerdict)
  /\ UNCHANGED <<callVars, ctxVars, searchVars, payload, faulty, stored>>

RetrieveFails ==
  /\ pc = "stored_mauv"
  /\ Supplies("retrieve_stored_image_mauv_data")
  /\ Return("RETRIEVING_STORED_IMAGE_MAUV_DATA")
  /\ faulty' = TRUE
  /\ UNCHANGED <<callVars, ctxVars, searchVars, payload, stored>>

(* update_stored_image_mauv_data(): the client's hook replaces the whole   *)
(* record or fails and leaves it.                                          *)
Store ==
  /\ pc = "store"
  /\ Supplies("store_new_image_mauv_data")
  /\ stored' = payload
  /\ Return("SUCCESS")
  /\ UNCHANGED <<callVars, ctxVars, searchVars, payload, faulty>>

StoreFails ==
  /\ pc = "store"
  /\ Return(IF Supplies("store_new_image_mauv_data")
            THEN "VALID_IMAGE_BUT_NEW_IMAGE_MAUV_DATA_NOT_STORED"
            ELSE "INVALID_INTERFACE")
  /\ faulty' = TRUE
  /\ UNCHANGED <<callVars, ctxVars, searchVars, payload, stored>>

Step == \/ ScanBlock \/ ScanReadFails \/ ScanEnds
        \/ ValidateDescriptor \/ ValidateRegions
        \/ FindPayloadMauv \/ PayloadReadFails
        \/ CheckStoredMauv \/ RetrieveFails
        \/ Store \/ StoreFails

Next == Call \/ Step \/ Drop

Spec == Init /\ [][Next]_vars

(* A call runs to its end: the library has no other way out of its loop.   *)
FairSpec == Spec /\ WF_vars(Step)
-------------------------------------------------------------------------------

(* The verification of a block, without the order of the search.           *)
Candidates == {k \in DOMAIN image : image[k].magic}
Verifies(k) == /\ DescriptorVerdict(image[k], "none") = "SUCCESS"
               /\ RegionVerdict(image[k], "none") = "SUCCESS"
First(S) == CHOOSE k \in S : \A other \in S : k <= other

(* An optional record, of the validated descriptor itself.                 *)
OwnMauvs == IF image[descriptor].has_blob THEN image[descriptor].blob.mauvs
            ELSE <<>>

TypeOK ==
  /\ pc \in {"idle", "scan", "descriptor", "regions", "payload_mauv",
             "stored_mauv", "store", "done"}
  /\ image \in Seq(Block)
  /\ intf \in Interface
  /\ validation_state \in {"UNSPECIFIED", "INVALID", "VALID"}
  /\ descriptor \in 0..Len(image)
  /\ payload_blob_offset \in 0..Len(image)
  /\ descriptor_offset \in 1..(Len(image) + 1)
  /\ payload \in Mauv \cup {NoMauv}
  /\ before \in Mauv \cup {NoMauv}
  /\ stored \in Mauv \cup {NoMauv}
  /\ faulty \in BOOLEAN

(* An image is VALID only for a candidate that passes every descriptor and *)
(* region check, and, unless a read failed on the way, for the first that  *)
(* does: no later candidate is used although an earlier one verifies.      *)
(* (libcr51sign_validate: the while loop)                                  *)
FirstVerifiedDecides ==
  validation_state = "VALID" =>
    /\ descriptor \in Candidates
    /\ Verifies(descriptor)
    /\ ~faulty => \A k \in Candidates : Verifies(k) => descriptor <= k

(* Unless a read failed, an image none of whose candidates verifies is     *)
(* reported with the reason of its first candidate, and an image with one  *)
(* that verifies is never reported as not found.                           *)
FirstFailureReported ==
  pc = "done" /\ ~faulty /\ validation_state # "VALID" =>
    IF Candidates = {} THEN rv = "FAILED_TO_LOCATE_MAGIC"
    ELSE LET b == image[First(Candidates)]
         IN /\ \A k \in Candidates : ~Verifies(k)
            /\ rv = IF DescriptorVerdict(b, "none") # "SUCCESS"
                    THEN DescriptorVerdict(b, "none")
                    ELSE RegionVerdict(b, "none")

(* A call that does not succeed leaves the board's record as it was, at    *)
(* whatever step it failed: the record is stored last.                     *)
RefusedLeavesRecord == pc = "done" /\ rv # "SUCCESS" => stored = before

(* On a board that keeps a record, a production image is accepted only     *)
(* with a record of its own, the version it carries is allowed by what the *)
(* board keeps from now on, and what it keeps is at least as recent.       *)
AcceptedIsAllowed ==
  /\ pc = "done" /\ rv = "SUCCESS"
  /\ image[descriptor].type = "prod"
  /\ Supplies("retrieve_stored_image_mauv_data")
  /\ stored # NoMauv
  => /\ Len(OwnMauvs) = 1
     /\ Allows(stored, OwnMauvs[1].version)
     /\ OwnMauvs[1].timestamp <= stored.timestamp

(* The record is replaced only by the one of the production descriptor     *)
(* that was verified, although the blob offset may come from a candidate   *)
(* rejected before it.  (payload_blob_offset, libcr51sign.c)               *)
StoresOwnMauv ==
  [][stored' # stored =>
       /\ validation_state = "VALID"
       /\ image[descriptor].type = "prod"
       /\ Verifies(descriptor)
       /\ OwnMauvs = <<stored'>>]_vars

(* The sequence of updates implements the abstract record: whatever the    *)
(* images and wherever power is lost, a record is replaced only by a       *)
(* usable, newer one whose payload the record before it allows.            *)
ImplementsMauvStore == StoreSpec

(* A validation that is begun ends, with a result or by a loss of power.   *)
CallEnds == pc = "scan" ~> pc \in {"done", "idle"}

(* The inductive invariant of the proofs: what each part of a call knows   *)
(* of the candidate, of its record and of the board's.                     *)
Checked == {"regions", "payload_mauv", "stored_mauv", "store"}
Validated == Checked \ {"regions"}

IInv ==
  /\ TypeOK
  /\ pc \in {"scan", "descriptor"} => validation_state = "INVALID"
  /\ pc = "descriptor" => descriptor_offset \in Candidates
  /\ pc \in Checked =>
       /\ descriptor \in Candidates
       /\ DescriptorVerdict(image[descriptor], "none") = "SUCCESS"
       /\ image[descriptor].has_blob => payload_blob_offset = descriptor
  /\ pc = "regions" => /\ validation_state = "INVALID"
                       /\ descriptor_offset = descriptor
  /\ pc \in Validated => /\ validation_state = "VALID"
                         /\ image[descriptor].type = "prod"
  /\ validation_state = "VALID" => /\ descriptor \in Candidates
                                   /\ Verifies(descriptor)
  /\ pc \in {"scan", "descriptor", "regions", "payload_mauv"} =>
       payload = NoMauv
  /\ pc \in {"stored_mauv", "store"} =>
       IF payload = NoMauv THEN OwnMauvs = <<>>
       ELSE Sane(payload) /\ OwnMauvs = <<payload>>
  /\ pc = "store" => MauvVerdict = "SUCCESS" /\ Newer
  /\ pc = "done" /\ rv = "SUCCESS" => validation_state = "VALID"
  /\ pc \notin {"idle", "done"} => stored = before
  /\ RefusedLeavesRecord
  /\ AcceptedIsAllowed

(* "`0` if BLOB data is not present in image descriptor": the offset that  *)
(* validate_payload_image_mauv() is called with.  Violated, see README.    *)
NoBlobNoOffset ==
  pc = "payload_mauv" /\ ~image[descriptor].has_blob => payload_blob_offset = 0
================================================================================
