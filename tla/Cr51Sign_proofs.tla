---------------------------- MODULE Cr51Sign_proofs ----------------------------
(***************************************************************************)
(* Proofs about Cr51Sign, for every set of versions, counters, images and  *)
(* interfaces.                                                             *)
(***************************************************************************)
EXTENDS Cr51Sign, SequenceTheorems, TLAPS

(* A chain of checks that succeeds has passed each of its checks.          *)
LEMMA FirstFailure2 ==
  ASSUME NEW p1 \in BOOLEAN, NEW p2 \in BOOLEAN, NEW r1, NEW r2,
         ~p1 => r1 # "SUCCESS", ~p2 => r2 # "SUCCESS"
  PROVE  (FirstFailure(<< <<p1, r1>>, <<p2, r2>> >>) = "SUCCESS") <=> p1 /\ p2
  BY DEF FirstFailure

LEMMA FirstFailure4 ==
  ASSUME NEW p1 \in BOOLEAN, NEW p2 \in BOOLEAN, NEW p3 \in BOOLEAN,
         NEW p4 \in BOOLEAN, NEW r1, NEW r2, NEW r3, NEW r4,
         ~p1 => r1 # "SUCCESS", ~p2 => r2 # "SUCCESS",
         ~p3 => r3 # "SUCCESS", ~p4 => r4 # "SUCCESS"
  PROVE  (FirstFailure(<< <<p1, r1>>, <<p2, r2>>, <<p3, r3>>, <<p4, r4>> >>)
            = "SUCCESS") <=> p1 /\ p2 /\ p3 /\ p4
  BY DEF FirstFailure

LEMMA FirstFailure5 ==
  ASSUME NEW p1 \in BOOLEAN, NEW p2 \in BOOLEAN, NEW p3 \in BOOLEAN,
         NEW p4 \in BOOLEAN, NEW p5 \in BOOLEAN,
         NEW r1, NEW r2, NEW r3, NEW r4, NEW r5,
         ~p1 => r1 # "SUCCESS", ~p2 => r2 # "SUCCESS",
         ~p3 => r3 # "SUCCESS", ~p4 => r4 # "SUCCESS", ~p5 => r5 # "SUCCESS"
  PROVE  (FirstFailure(<< <<p1, r1>>, <<p2, r2>>, <<p3, r3>>, <<p4, r4>>,
                          <<p5, r5>> >>)
            = "SUCCESS") <=> p1 /\ p2 /\ p3 /\ p4 /\ p5
  BY DEF FirstFailure

(* What a successful verdict says of a block.                              *)
LEMMA TransitionSuccess ==
  ASSUME NEW b \in Block, NEW fault, intf \in Interface
  PROVE  (TransitionVerdict(b, fault) = "SUCCESS")
           <=> /\ fault # "transition"
               /\ b.fails \notin TransitionChecks
               /\ Supplies("is_production_mode")
               /\ (intf.production /\ b.type = "dev" => intf.downgrade)
<1> DEFINE p1 == fault # "transition"
           p2 == b.fails \notin TransitionChecks
           p3 == Supplies("is_production_mode")
           p4 == intf.production /\ b.type = "dev" => intf.downgrade
<1>1. p1 \in BOOLEAN /\ p2 \in BOOLEAN /\ p3 \in BOOLEAN /\ p4 \in BOOLEAN
  BY DEF Supplies
<1>2. ~p2 => Reason[b.fails] # "SUCCESS"
  BY DEF TransitionChecks, Reason
<1> HIDE DEF p1, p2, p3, p4
<1>3. (FirstFailure(<< <<p1, "RUNTIME_FAILURE">>, <<p2, Reason[b.fails]>>,
                       <<p3, "INVALID_INTERFACE">>,
                       <<p4, "DEV_DOWNGRADE_DISALLOWED">> >>) = "SUCCESS")
         <=> p1 /\ p2 /\ p3 /\ p4
  BY <1>1, <1>2, FirstFailure4
<1> QED
  BY <1>3 DEF TransitionVerdict, p1, p2, p3, p4

LEMMA SignatureSuccess ==
  ASSUME NEW b \in Block, NEW fault
  PROVE  LET hash_trusted == /\ Supplies("trust_descriptor_hash")
                             /\ b.vouched = "hash"
             key_trusted == /\ Supplies("trust_key_in_signature_structure")
                            /\ b.vouched = "key"
                            /\ fault # "key"
             trusted == hash_trusted \/ key_trusted
         IN (SignatureVerdict(b, fault) = "SUCCESS")
              <=> /\ Supplies("hash")
                  /\ fault # "digest"
                  /\ hash_trusted \/ fault # "signature"
                  /\ trusted \/ Supplies("verify_signature")
                  /\ trusted \/ b.vouched = "keyring"
<1> DEFINE hash_trusted == /\ Supplies("trust_descriptor_hash")
                           /\ b.vouched = "hash"
           key_trusted == /\ Supplies("trust_key_in_signature_structure")
                          /\ b.vouched = "key"
                          /\ fault # "key"
           trusted == hash_trusted \/ key_trusted
           p1 == Supplies("hash")
           p2 == fault # "digest"
           p3 == hash_trusted \/ fault # "signature"
           p4 == trusted \/ Supplies("verify_signature")
           p5 == trusted \/ b.vouched = "keyring"
<1>1. /\ p1 \in BOOLEAN /\ p2 \in BOOLEAN /\ p3 \in BOOLEAN
      /\ p4 \in BOOLEAN /\ p5 \in BOOLEAN
  BY DEF Supplies
<1> HIDE DEF p1, p2, p3, p4, p5
<1>2. (FirstFailure(<< <<p1, "INVALID_INTERFACE">>, <<p2, "RUNTIME_FAILURE">>,
                       <<p3, "RUNTIME_FAILURE">>, <<p4, "INVALID_INTERFACE">>,
                       <<p5, "INVALID_SIGNATURE">> >>) = "SUCCESS")
         <=> p1 /\ p2 /\ p3 /\ p4 /\ p5
  BY <1>1, FirstFailure5
<1> QED
  BY <1>2 DEF SignatureVerdict, p1, p2, p3, p4, p5

LEMMA DescriptorSuccess ==
  ASSUME NEW b \in Block, NEW fault
  PROVE  (DescriptorVerdict(b, fault) = "SUCCESS")
           <=> /\ b.fails # "range"
               /\ fault # "descriptor"
               /\ b.fails \notin HeaderChecks \cup AreaChecks
               /\ TransitionVerdict(b, fault) = "SUCCESS"
               /\ SignatureVerdict(b, fault) = "SUCCESS"
<1> DEFINE t == TransitionVerdict(b, fault)
           g == SignatureVerdict(b, fault)
           p1 == b.fails # "range"
           p2 == fault # "descriptor"
           p3 == b.fails \notin HeaderChecks \cup AreaChecks
           p4 == t = "SUCCESS"
           p5 == g = "SUCCESS"
<1>1. /\ p1 \in BOOLEAN /\ p2 \in BOOLEAN /\ p3 \in BOOLEAN
      /\ p4 \in BOOLEAN /\ p5 \in BOOLEAN
  OBVIOUS
<1>2. /\ ~p1 => Reason[b.fails] # "SUCCESS"
      /\ ~p3 => Reason[b.fails] # "SUCCESS"
  BY DEF HeaderChecks, AreaChecks, Reason
<1>3. (~p4 => t # "SUCCESS") /\ (~p5 => g # "SUCCESS")
  OBVIOUS
<1> HIDE DEF p1, p2, p3, p4, p5, t, g
<1>4. (FirstFailure(<< <<p1, Reason[b.fails]>>, <<p2, "RUNTIME_FAILURE">>,
                       <<p3, Reason[b.fails]>>, <<p4, t>>, <<p5, g>> >>)
         = "SUCCESS") <=> p1 /\ p2 /\ p3 /\ p4 /\ p5
  BY <1>1, <1>2, <1>3, FirstFailure5
<1> QED
  BY <1>4 DEF DescriptorVerdict, p1, p2, p3, p4, p5, t, g

LEMMA RegionSuccess ==
  ASSUME NEW b \in Block, NEW fault
  PROVE  (RegionVerdict(b, fault) = "SUCCESS")
           <=> /\ fault \notin {"regions", "hash"}
               /\ b.fails # "regions"
               /\ b.fails \notin HashChecks
<1> DEFINE p1 == fault # "regions"
           p2 == b.fails # "regions"
           p3 == fault # "hash"
           p4 == b.fails \notin HashChecks
<1>1. p1 \in BOOLEAN /\ p2 \in BOOLEAN /\ p3 \in BOOLEAN /\ p4 \in BOOLEAN
  OBVIOUS
<1>2. /\ ~p2 => Reason[b.fails] # "SUCCESS"
      /\ ~p4 => Reason[b.fails] # "SUCCESS"
  BY DEF HashChecks, Reason
<1> HIDE DEF p1, p2, p3, p4
<1>3. (FirstFailure(<< <<p1, "RUNTIME_FAILURE">>, <<p2, Reason[b.fails]>>,
                       <<p3, "RUNTIME_FAILURE">>, <<p4, Reason[b.fails]>> >>)
         = "SUCCESS") <=> p1 /\ p2 /\ p3 /\ p4
  BY <1>1, <1>2, FirstFailure4
<1> QED
  BY <1>3 DEF RegionVerdict, p1, p2, p3, p4

(* A candidate that is accepted in spite of a failed read would be         *)
(* accepted without it.                                                    *)
LEMMA AcceptedAnyway ==
  ASSUME NEW b \in Block, NEW fault, intf \in Interface,
         DescriptorVerdict(b, fault) = "SUCCESS"
  PROVE  DescriptorVerdict(b, "none") = "SUCCESS"
<1>1. TransitionVerdict(b, "none") = "SUCCESS"
  BY DescriptorSuccess, TransitionSuccess
<1>2. SignatureVerdict(b, "none") = "SUCCESS"
  BY DescriptorSuccess, SignatureSuccess
<1> QED
  BY <1>1, <1>2, DescriptorSuccess

LEMMA PayloadSuccess ==
  ASSUME NEW b, b.magic \in BOOLEAN, b.overrun \in BOOLEAN, b.mauvs \in Seq(Mauv),
         PayloadVerdict(b) = "SUCCESS"
  PROVE  /\ Len(b.mauvs) <= 1
         /\ Len(b.mauvs) = 1 => Sane(b.mauvs[1])
<1> DEFINE p1 == b.magic /\ ~b.overrun /\ Len(b.mauvs) <= 1
           p2 == Len(b.mauvs) = 1 => Sane(b.mauvs[1])
<1>1. p1 \in BOOLEAN /\ p2 \in BOOLEAN
  OBVIOUS
<1> HIDE DEF p1, p2
<1>2. (FirstFailure(<< <<p1, "INVALID_DESCRIPTOR">>,
                       <<p2, "INVALID_IMAGE_MAUV_DATA">> >>) = "SUCCESS")
        <=> p1 /\ p2
  BY <1>1, FirstFailure2
<1> QED
  BY <1>2 DEF PayloadVerdict, p1, p2

LEMMA MauvSuccess ==
  (MauvVerdict = "SUCCESS")
    <=> /\ payload # NoMauv => Supplies("retrieve_stored_image_mauv_data")
        /\ Judges => Sane(stored)
        /\ Judges => payload # NoMauv
        /\ Judges /\ payload # NoMauv => Allows(stored, payload.version)
<1> DEFINE p1 == payload # NoMauv => Supplies("retrieve_stored_image_mauv_data")
           p2 == Judges => Sane(stored)
           p3 == Judges => payload # NoMauv
           p4 == Judges /\ payload # NoMauv => Allows(stored, payload.version)
<1>1. p1 \in BOOLEAN /\ p2 \in BOOLEAN /\ p3 \in BOOLEAN /\ p4 \in BOOLEAN
  OBVIOUS
<1> HIDE DEF p1, p2, p3, p4
<1>2. (FirstFailure(<< <<p1, "INVALID_INTERFACE">>,
                       <<p2, "INVALID_IMAGE_MAUV_DATA">>,
                       <<p3, "STORED_IMAGE_MAUV_EXPECTS_PAYLOAD_IMAGE_MAUV">>,
                       <<p4, "STORED_IMAGE_MAUV_DOES_NOT_ALLOW_UPDATE_TO_PAYLOAD">>
                    >>) = "SUCCESS") <=> p1 /\ p2 /\ p3 /\ p4
  BY <1>1, FirstFailure4
<1> QED
  BY <1>2 DEF MauvVerdict, p1, p2, p3, p4
-------------------------------------------------------------------------------
(* While the arguments of the call stay, so do the verdicts on its blocks. *)
LEMMA SameVerdicts ==
  ASSUME UNCHANGED <<image, intf>>
  PROVE  /\ Candidates' = Candidates
         /\ DescriptorVerdict(image[descriptor], "none")'
              = DescriptorVerdict(image[descriptor'], "none")
         /\ Verifies(descriptor)' <=> Verifies(descriptor')
<1>1. DescriptorVerdict(image[descriptor], "none")'
        = DescriptorVerdict(image[descriptor'], "none")
  BY DEF DescriptorVerdict, TransitionVerdict, SignatureVerdict, FirstFailure,
         Supplies
<1>2. RegionVerdict(image[descriptor], "none")'
        = RegionVerdict(image[descriptor'], "none")
  BY DEF RegionVerdict, FirstFailure
<1> QED
  BY <1>1, <1>2 DEF Verifies, Candidates

LEMMA SameJudgement ==
  ASSUME UNCHANGED <<intf, stored, payload>>
  PROVE  /\ MauvVerdict' = MauvVerdict
         /\ Newer' <=> Newer
<1>1. MauvVerdict' = MauvVerdict
  BY DEF MauvVerdict, FirstFailure, Judges, Supplies, Sane, Allows
<1> QED
  BY <1>1 DEF Newer, Judges, Supplies

LEMMA Types ==
  ASSUME TypeOK
  PROVE  /\ image \in Seq(Block) /\ Len(image) \in Nat
         /\ \A k \in 1..Len(image) : image[k] \in Block
         /\ Candidates \subseteq 1..Len(image)
  BY DEF TypeOK, Candidates

LEMMA InitIInv == Init => IInv
<1> SUFFICES ASSUME Init PROVE IInv
  OBVIOUS
<1>1. intf \in Interface /\ faulty \in BOOLEAN
  BY DEF Init, NoInterface, Interface
<1>2. image \in Seq(Block) /\ Len(image) = 0
  BY DEF Init
<1>3. TypeOK
  BY <1>1, <1>2 DEF Init, TypeOK
<1> QED
  BY <1>3 DEF Init, IInv, RefusedLeavesRecord, AcceptedIsAllowed, Checked,
              Validated

(* A step that leaves the image unverified and does not succeed.           *)
LEMMA NotVerified ==
  ASSUME TypeOK', validation_state' = "INVALID", stored' = before',
         pc' \in {"scan", "descriptor", "done"},
         pc' = "done" => rv' # "SUCCESS",
         pc' # "done" => payload' = NoMauv,
         pc' = "descriptor" => (descriptor_offset \in Candidates)'
  PROVE  IInv'
  BY DEF IInv, RefusedLeavesRecord, AcceptedIsAllowed, Checked, Validated

LEMMA CallIInv == IInv /\ Call => IInv'
<1> SUFFICES ASSUME IInv, Call PROVE IInv'
  OBVIOUS
<1>1. TypeOK
  BY DEF IInv
<1>2. image' \in Seq(Block) /\ intf' \in Interface /\ Len(image') \in Nat
  BY ImagesAssumption, InterfacesAssumption DEF Call
<1>3. faulty' \in BOOLEAN
  BY DEF Call, ClearLocals
<1>4. TypeOK'
  BY <1>1, <1>2, <1>3 DEF TypeOK, Call, ClearLocals
<1> QED
  BY <1>4, NotVerified DEF Call, ClearLocals

LEMMA DropIInv == IInv /\ Drop => IInv'
<1> SUFFICES ASSUME IInv, Drop PROVE IInv'
  OBVIOUS
<1>1. TypeOK
  BY DEF IInv
<1>2. image' \in Seq(Block) /\ intf' \in Interface /\ Len(image') = 0
  BY DEF Drop, NoInterface, Interface
<1>3. faulty' \in BOOLEAN
  BY DEF Drop, ClearLocals
<1>4. TypeOK'
  BY <1>1, <1>2, <1>3 DEF TypeOK, Drop, ClearLocals
<1> QED
  BY <1>4 DEF IInv, Drop, ClearLocals, Checked, Validated,
              RefusedLeavesRecord, AcceptedIsAllowed

LEMMA ScanIInv == IInv /\ (ScanBlock \/ ScanReadFails \/ ScanEnds) => IInv'
<1> SUFFICES ASSUME IInv, ScanBlock \/ ScanReadFails \/ ScanEnds PROVE IInv'
  OBVIOUS
<1> USE DEF callVars, ctxVars, searchVars, ReturnNotFound, Return
<1>1. TypeOK /\ Len(image) \in Nat
  BY Types DEF IInv
<1>2. pc = "scan"
  BY DEF ScanBlock, ScanReadFails, ScanEnds
<1>0. faulty' \in BOOLEAN
  BY <1>1 DEF TypeOK, ScanBlock, ScanReadFails, ScanEnds
<1>3. TypeOK'
  BY <1>0, <1>1 DEF TypeOK, ScanBlock, ScanReadFails, ScanEnds
<1>4. validation_state = "INVALID" /\ stored = before /\ payload = NoMauv
  BY <1>2 DEF IInv
<1>5. validation_state' = "INVALID" /\ stored' = before' /\ payload' = NoMauv
  BY <1>4 DEF ScanBlock, ScanReadFails, ScanEnds
<1>6. /\ pc' \in {"scan", "descriptor", "done"}
      /\ pc' = "done" => rv' # "SUCCESS"
  BY <1>2 DEF ScanBlock, ScanReadFails, ScanEnds
<1>7. pc' = "descriptor" => (descriptor_offset \in Candidates)'
  BY <1>1 DEF ScanBlock, ScanReadFails, ScanEnds, Candidates, TypeOK
<1> QED
  BY <1>3, <1>5, <1>6, <1>7, NotVerified

LEMMA DescriptorIInv == IInv /\ ValidateDescriptor => IInv'
<1> SUFFICES ASSUME IInv, ValidateDescriptor PROVE IInv'
  OBVIOUS
<1> USE DEF callVars, Reject
<1>1. /\ TypeOK /\ Len(image) \in Nat /\ pc = "descriptor"
      /\ descriptor_offset \in Candidates /\ descriptor_offset \in 1..Len(image)
      /\ image[descriptor_offset] \in Block
  BY Types DEF IInv, ValidateDescriptor
<1>2. validation_state' = "INVALID" /\ stored' = before' /\ payload' = NoMauv
  BY <1>1 DEF IInv, ValidateDescriptor
<1>3. PICK fault \in DescriptorRead \cup {"none"} :
        LET b == image[descriptor_offset]
            verdict == DescriptorVerdict(b, fault)
        IN /\ descriptor' = IF b.fails = "range" \/ fault = "descriptor"
                            THEN descriptor ELSE descriptor_offset
           /\ payload_blob_offset' = IF LocatesBlob(b, fault)
                                     THEN descriptor_offset
                                     ELSE payload_blob_offset
           /\ faulty' = (faulty \/ fault # "none")
           /\ IF verdict = "SUCCESS"
              THEN pc' = "regions" /\ UNCHANGED <<rv_first_desc, descriptor_offset>>
              ELSE Reject(verdict)
  BY DEF ValidateDescriptor
<1> DEFINE b == image[descriptor_offset]
<1>4. UNCHANGED <<image, intf, before, payload, stored>>
  BY DEF ValidateDescriptor
<1>5. faulty' \in BOOLEAN
  BY <1>3
<1>6. TypeOK'
  <2>1. pc' \in {"regions", "scan"}
    BY <1>3
  <2>2. /\ descriptor' \in 0..Len(image)
        /\ payload_blob_offset' \in 0..Len(image)
        /\ descriptor_offset' \in 1..(Len(image) + 1)
    BY <1>1, <1>3 DEF TypeOK
  <2> QED
    BY <1>1, <1>2, <1>4, <1>5, <2>1, <2>2 DEF TypeOK
<1>7. CASE DescriptorVerdict(b, fault) = "SUCCESS"
  <2>1. /\ b.fails \notin HeaderChecks \cup AreaChecks \cup {"range"}
        /\ fault # "descriptor"
    BY <1>1, <1>7, DescriptorSuccess
  <2>2. /\ pc' = "regions"
        /\ descriptor' = descriptor_offset
        /\ b.has_blob => payload_blob_offset' = descriptor_offset
    BY <1>3, <1>7, <2>1 DEF LocatesBlob
  <2>8. descriptor_offset' = descriptor'
    BY <1>3, <1>7, <2>2
  <2>3. intf \in Interface
    BY <1>1 DEF TypeOK
  <2>4. DescriptorVerdict(b, "none") = "SUCCESS"
    BY <1>1, <1>7, <2>3, AcceptedAnyway
  <2>5. DescriptorVerdict(image[descriptor], "none")' = "SUCCESS"
    BY <1>4, <2>2, <2>4, SameVerdicts
  <2>6. (descriptor \in Candidates)'
    BY <1>1, <1>4, <2>2, SameVerdicts
  <2>7. (image[descriptor].has_blob => payload_blob_offset = descriptor)'
    BY <1>4, <2>2
  <2> QED
    BY <1>2, <1>6, <2>2, <2>5, <2>6, <2>7, <2>8
       DEF IInv, Checked, Validated, RefusedLeavesRecord, AcceptedIsAllowed
<1>8. CASE DescriptorVerdict(b, fault) # "SUCCESS"
  BY <1>2, <1>3, <1>6, <1>8, NotVerified
<1> QED
  BY <1>7, <1>8

(* A step that ends a verified image's call without success.               *)
LEMMA NotAccepted ==
  ASSUME IInv, TypeOK', pc \in Validated, pc' = "done", rv' # "SUCCESS",
         UNCHANGED <<image, intf, before, validation_state, descriptor, stored>>
  PROVE  IInv'
<1>1. validation_state = "VALID" /\ stored = before
  BY DEF IInv, Validated, Checked
<1>2. descriptor \in Candidates /\ Verifies(descriptor)
  BY <1>1 DEF IInv
<1>3. (descriptor \in Candidates)' /\ Verifies(descriptor)'
  BY <1>2, SameVerdicts
<1> QED
  BY <1>1, <1>3
     DEF IInv, Validated, Checked, RefusedLeavesRecord, AcceptedIsAllowed

LEMMA RegionsIInv == IInv /\ ValidateRegions => IInv'
<1> SUFFICES ASSUME IInv, ValidateRegions PROVE IInv'
  OBVIOUS
<1> USE DEF callVars
<1>1. /\ TypeOK /\ Len(image) \in Nat /\ pc = "regions"
      /\ descriptor \in Candidates /\ descriptor \in 1..Len(image)
      /\ image[descriptor] \in Block
      /\ DescriptorVerdict(image[descriptor], "none") = "SUCCESS"
      /\ image[descriptor].has_blob => payload_blob_offset = descriptor
      /\ validation_state = "INVALID" /\ stored = before
      /\ descriptor_offset = descriptor /\ payload = NoMauv
  BY Types DEF IInv, Checked, ValidateRegions
<1>2. PICK fault \in RegionRead \cup {"none"} :
        LET b == image[descriptor]
            verdict == RegionVerdict(b, fault)
        IN /\ faulty' = (faulty \/ fault # "none")
           /\ IF verdict # "SUCCESS"
              THEN Reject(verdict) /\ UNCHANGED <<validation_state, rv>>
              ELSE /\ validation_state' = "VALID"
                   /\ IF b.type = "prod"
                      THEN pc' = "payload_mauv" /\ UNCHANGED rv
                      ELSE Return("SUCCESS")
                   /\ UNCHANGED <<rv_first_desc, descriptor_offset>>
  BY DEF ValidateRegions
<1> DEFINE b == image[descriptor]
<1>3. UNCHANGED <<image, intf, before, descriptor, payload_blob_offset, payload,
                  stored>>
  BY DEF ValidateRegions
<1>4. faulty' \in BOOLEAN
  BY <1>2
<1>5. TypeOK'
  <2>1. /\ pc' \in {"scan", "payload_mauv", "done"}
        /\ validation_state' \in {"INVALID", "VALID"}
    BY <1>1, <1>2 DEF Reject, Return
  <2>2. descriptor_offset' \in 1..(Len(image) + 1)
    BY <1>1, <1>2 DEF Reject
  <2> QED
    BY <1>1, <1>3, <1>4, <2>1, <2>2 DEF TypeOK
<1>6. CASE RegionVerdict(b, fault) # "SUCCESS"
  BY <1>1, <1>2, <1>3, <1>5, <1>6, NotVerified DEF Reject
<1>7. CASE RegionVerdict(b, fault) = "SUCCESS"
  <2>1. RegionVerdict(b, "none") = "SUCCESS"
    BY <1>1, <1>7, RegionSuccess
  <2>2. Verifies(descriptor)
    BY <1>1, <2>1 DEF Verifies
  <2>3. (descriptor \in Candidates)' /\ Verifies(descriptor)'
    BY <1>1, <1>3, <2>2, SameVerdicts
  <2>4. DescriptorVerdict(image[descriptor], "none")' = "SUCCESS"
    BY <1>1, <1>3, SameVerdicts
  <2>5. validation_state' = "VALID"
    BY <1>2, <1>7
  <2>6. (image[descriptor].has_blob => payload_blob_offset = descriptor)'
    BY <1>1, <1>3
  <2>7. CASE b.type = "prod"
    <3>1. pc' = "payload_mauv" /\ (image[descriptor].type = "prod")'
      BY <1>2, <1>3, <1>7, <2>7
    <3> QED
      BY <1>1, <1>3, <1>5, <2>3, <2>4, <2>5, <2>6, <3>1
         DEF IInv, Checked, Validated, RefusedLeavesRecord, AcceptedIsAllowed
  <2>8. CASE b.type # "prod"
    <3>1. pc' = "done" /\ (image[descriptor].type # "prod")'
      BY <1>2, <1>3, <1>7, <2>8 DEF Return
    <3> QED
      BY <1>1, <1>3, <1>5, <2>3, <2>5, <3>1
         DEF IInv, Checked, Validated, RefusedLeavesRecord, AcceptedIsAllowed
  <2> QED
    BY <2>7, <2>8
<1> QED
  BY <1>6, <1>7

(* The blob that is walked is empty or the validated descriptor's own.     *)
LEMMA WalkedBlobIsOwn ==
  ASSUME IInv, pc = "payload_mauv", payload_blob_offset # 0
  PROVE  /\ WalkedBlob.magic \in BOOLEAN /\ WalkedBlob.overrun \in BOOLEAN
         /\ WalkedBlob.mauvs \in Seq(Mauv)
         /\ WalkedBlob.mauvs = OwnMauvs
<1>1. /\ descriptor \in 1..Len(image)
      /\ image[descriptor] \in Block
      /\ image[descriptor].has_blob => payload_blob_offset = descriptor
  BY Types DEF IInv, Checked
<1>2. image[payload_blob_offset] \in Block
  BY Types DEF IInv, TypeOK
<1>3. CASE image[descriptor].has_blob
  <2>1. /\ WalkedBlob = image[descriptor].blob
        /\ OwnMauvs = image[descriptor].blob.mauvs
    BY <1>1, <1>3 DEF WalkedBlob, OwnMauvs
  <2> QED
    BY <1>1, <2>1 DEF Block
<1>4. CASE ~image[descriptor].has_blob
  <2>1. /\ WalkedBlob = [EmptyBlob EXCEPT !.magic =
                           image[payload_blob_offset].blob.magic]
        /\ OwnMauvs = <<>>
    BY <1>4 DEF WalkedBlob, OwnMauvs
  <2>2. image[payload_blob_offset].blob.magic \in BOOLEAN
    BY <1>2 DEF Block
  <2> QED
    BY <2>1, <2>2 DEF EmptyBlob
<1> QED
  BY <1>3, <1>4

LEMMA PayloadIInv == IInv /\ (FindPayloadMauv \/ PayloadReadFails) => IInv'
<1> SUFFICES ASSUME IInv, FindPayloadMauv \/ PayloadReadFails PROVE IInv'
  OBVIOUS
<1> USE DEF callVars, ctxVars, searchVars, Return
<1>1. /\ TypeOK /\ Len(image) \in Nat /\ pc = "payload_mauv"
      /\ pc \in Validated /\ pc \in Checked
  BY Types DEF IInv, Checked, Validated, FindPayloadMauv, PayloadReadFails
<1>2. UNCHANGED <<image, intf, before, validation_state, descriptor,
                  descriptor_offset, payload_blob_offset, stored>>
  BY DEF FindPayloadMauv, PayloadReadFails
<1>3. faulty' \in BOOLEAN
  BY <1>1 DEF TypeOK, FindPayloadMauv, PayloadReadFails
<1>4. CASE pc' = "done"
  <2>1. rv' # "SUCCESS" /\ payload' = payload
    BY <1>4 DEF FindPayloadMauv, PayloadReadFails
  <2>2. TypeOK'
    BY <1>1, <1>2, <1>3, <1>4, <2>1 DEF TypeOK
  <2> QED
    BY <1>1, <1>2, <1>4, <2>1, <2>2, NotAccepted
<1>5. CASE pc' # "done"
  <2>1. /\ FindPayloadMauv /\ pc' = "stored_mauv"
        /\ payload_blob_offset = 0 \/ PayloadVerdict(WalkedBlob) = "SUCCESS"
    BY <1>5 DEF FindPayloadMauv, PayloadReadFails
  <2>2. IF payload' = NoMauv THEN OwnMauvs = <<>>
        ELSE payload' \in Mauv /\ Sane(payload') /\ OwnMauvs = <<payload'>>
    <3>1. CASE payload_blob_offset = 0
      <4>1. descriptor \in 1..Len(image) /\ ~image[descriptor].has_blob
        BY <1>1, <3>1, Types DEF IInv
      <4>2. payload' = NoMauv
        BY <1>1, <2>1, <3>1 DEF FindPayloadMauv, IInv
      <4> QED
        BY <4>1, <4>2 DEF OwnMauvs
    <3>2. CASE payload_blob_offset # 0
      <4>1. /\ Len(WalkedBlob.mauvs) <= 1
            /\ Len(WalkedBlob.mauvs) = 1 => Sane(WalkedBlob.mauvs[1])
            /\ WalkedBlob.mauvs \in Seq(Mauv)
            /\ WalkedBlob.mauvs = OwnMauvs
        BY <1>1, <2>1, <3>2, WalkedBlobIsOwn, PayloadSuccess
      <4>2. payload' = IF WalkedBlob.mauvs = <<>> THEN NoMauv
                       ELSE WalkedBlob.mauvs[1]
        BY <2>1, <3>2 DEF FindPayloadMauv
      <4>3. CASE WalkedBlob.mauvs = <<>>
        BY <4>1, <4>2, <4>3
      <4>4. CASE WalkedBlob.mauvs # <<>>
        <5> DEFINE mauvs == WalkedBlob.mauvs
        <5> HIDE DEF mauvs
        <5>1. mauvs \in Seq(Mauv) /\ mauvs # <<>> /\ Len(mauvs) <= 1
          BY <4>1, <4>4 DEF mauvs
        <5>2. Len(mauvs) = 1 /\ mauvs[1] \in Mauv
          <6>1. Len(mauvs) \in Nat /\ Len(mauvs) # 0
            BY <5>1, EmptySeq
          <6>2. Len(mauvs) <= 1
            BY <5>1
          <6>3. Len(mauvs) = 1
            BY <6>1, <6>2
          <6> QED
            BY <5>1, <6>3, ElementOfSeq
        <5>3. mauvs = <<mauvs[1]>>
          <6>1. <<mauvs[1]>> \in Seq(Mauv) /\ Len(<<mauvs[1]>>) = 1
            BY <5>2
          <6>2. \A i \in 1..Len(mauvs) : mauvs[i] = <<mauvs[1]>>[i]
            BY <5>2
          <6> QED
            BY <5>1, <5>2, <6>1, <6>2, SeqEqual
        <5> QED
          BY <4>1, <4>2, <4>4, <5>2, <5>3, NoMauvAssumption DEF mauvs
      <4> QED
        BY <4>3, <4>4
    <3> QED
      BY <3>1, <3>2
  <2>3. TypeOK'
    BY <1>1, <1>2, <1>3, <2>1, <2>2 DEF TypeOK
  <2>4. validation_state' = "VALID" /\ stored' = before'
    BY <1>1, <1>2 DEF IInv
  <2>5. /\ (descriptor \in Candidates)' /\ Verifies(descriptor)'
        /\ DescriptorVerdict(image[descriptor], "none")' = "SUCCESS"
    BY <1>1, <1>2, SameVerdicts DEF IInv
  <2>6. /\ (image[descriptor].has_blob => payload_blob_offset = descriptor)'
        /\ (image[descriptor].type = "prod")'
    BY <1>1, <1>2 DEF IInv
  <2>7. (IF payload = NoMauv THEN OwnMauvs = <<>>
         ELSE Sane(payload) /\ OwnMauvs = <<payload>>)'
    <3>1. OwnMauvs' = OwnMauvs
      BY <1>2 DEF OwnMauvs
    <3> QED
      BY <2>2, <3>1 DEF Sane, Allows
  <2> QED
    BY <2>1, <2>3, <2>4, <2>5, <2>6, <2>7
       DEF IInv, Checked, Validated, RefusedLeavesRecord, AcceptedIsAllowed
<1> QED
  BY <1>4, <1>5

LEMMA StoredMauvIInv == IInv /\ (CheckStoredMauv \/ RetrieveFails) => IInv'
<1> SUFFICES ASSUME IInv, CheckStoredMauv \/ RetrieveFails PROVE IInv'
  OBVIOUS
<1> USE DEF callVars, ctxVars, searchVars, Return
<1>1. /\ TypeOK /\ pc = "stored_mauv" /\ pc \in Validated /\ pc \in Checked
      /\ validation_state = "VALID" /\ stored = before
      /\ image[descriptor].type = "prod"
      /\ descriptor \in Candidates /\ Verifies(descriptor)
      /\ IF payload = NoMauv THEN OwnMauvs = <<>>
         ELSE Sane(payload) /\ OwnMauvs = <<payload>>
  BY DEF IInv, Checked, Validated, CheckStoredMauv, RetrieveFails
<1>2. UNCHANGED <<image, intf, before, validation_state, descriptor,
                  descriptor_offset, payload_blob_offset, stored, payload>>
  BY DEF CheckStoredMauv, RetrieveFails
<1>3. faulty' \in BOOLEAN
  BY <1>1 DEF TypeOK, CheckStoredMauv, RetrieveFails
<1>4. TypeOK'
  <2>1. pc' \in {"store", "done"}
    BY DEF CheckStoredMauv, RetrieveFails
  <2> QED
    BY <1>1, <1>2, <1>3, <2>1 DEF TypeOK
<1>5. /\ (descriptor \in Candidates)' /\ Verifies(descriptor)'
      /\ (image[descriptor].type = "prod")'
      /\ OwnMauvs' = OwnMauvs
      /\ validation_state' = "VALID" /\ stored' = before'
  BY <1>1, <1>2, SameVerdicts DEF OwnMauvs
<1>6. CASE pc' = "done" /\ rv' # "SUCCESS"
  BY <1>1, <1>2, <1>4, <1>6, NotAccepted
<1>7. CASE pc' = "done" /\ rv' = "SUCCESS"
  <2>1. MauvVerdict = "SUCCESS" /\ ~Newer
    BY <1>7 DEF CheckStoredMauv, RetrieveFails
  <2>2. ASSUME Supplies("retrieve_stored_image_mauv_data"), stored # NoMauv
        PROVE  /\ Sane(stored) /\ payload # NoMauv
               /\ Allows(stored, payload.version)
               /\ payload.timestamp <= stored.timestamp
    <3>1. Judges
      BY <2>2 DEF Judges
    <3>2. /\ Sane(stored) /\ payload # NoMauv
          /\ Allows(stored, payload.version)
      BY <2>1, <3>1, MauvSuccess
    <3>3. payload.timestamp \in Nat /\ stored.timestamp \in Nat
      BY <1>1, <2>2, <3>2, TimestampAssumption DEF TypeOK, Mauv
    <3> QED
      BY <2>1, <3>1, <3>2, <3>3 DEF Newer
  <2>3. ASSUME Supplies("retrieve_stored_image_mauv_data"), stored # NoMauv
        PROVE  /\ Len(OwnMauvs) = 1
               /\ Allows(stored, OwnMauvs[1].version)
               /\ OwnMauvs[1].timestamp <= stored.timestamp
    <3>1. OwnMauvs = <<payload>>
      BY <1>1, <2>2, <2>3
    <3> QED
      BY <2>2, <2>3, <3>1
  <2>4. AcceptedIsAllowed'
    BY <1>2, <1>5, <2>3 DEF AcceptedIsAllowed, Supplies, Allows
  <2> QED
    BY <1>4, <1>5, <1>7, <2>4
       DEF IInv, Checked, Validated, RefusedLeavesRecord
<1>8. CASE pc' = "store"
  <2>1. MauvVerdict = "SUCCESS" /\ Newer
    BY <1>8 DEF CheckStoredMauv, RetrieveFails
  <2>2. MauvVerdict' = "SUCCESS" /\ Newer'
    BY <1>2, <2>1, SameJudgement
  <2>3. /\ DescriptorVerdict(image[descriptor], "none")' = "SUCCESS"
        /\ (image[descriptor].has_blob => payload_blob_offset = descriptor)'
    BY <1>1, <1>2, SameVerdicts DEF IInv
  <2>4. (IF payload = NoMauv THEN OwnMauvs = <<>>
         ELSE Sane(payload) /\ OwnMauvs = <<payload>>)'
    BY <1>1, <1>2, <1>5 DEF Sane, Allows
  <2> QED
    BY <1>4, <1>5, <1>8, <2>2, <2>3, <2>4
       DEF IInv, Checked, Validated, RefusedLeavesRecord, AcceptedIsAllowed
<1> QED
  BY <1>6, <1>7, <1>8 DEF CheckStoredMauv, RetrieveFails

(* What is known when the record is about to be replaced.                  *)
LEMMA AboutToStore ==
  ASSUME IInv, pc = "store"
  PROVE  /\ payload \in Mauv /\ Sane(payload) /\ OwnMauvs = <<payload>>
         /\ Supplies("retrieve_stored_image_mauv_data")
         /\ stored # NoMauv => /\ Sane(stored)
                               /\ Allows(stored, payload.version)
                               /\ payload.timestamp > stored.timestamp
<1>1. MauvVerdict = "SUCCESS" /\ Newer
  BY DEF IInv
<1>2. payload # NoMauv /\ payload \in Mauv
  BY <1>1 DEF Newer, IInv, TypeOK
<1>3. Sane(payload) /\ OwnMauvs = <<payload>>
  BY <1>2 DEF IInv
<1>4. Supplies("retrieve_stored_image_mauv_data")
  BY <1>1, <1>2, MauvSuccess
<1>5. stored # NoMauv => /\ Sane(stored)
                         /\ Allows(stored, payload.version)
                         /\ payload.timestamp > stored.timestamp
  BY <1>1, <1>2, <1>4, MauvSuccess DEF Newer, Judges
<1> QED
  BY <1>2, <1>3, <1>4, <1>5

LEMMA StoreIInv == IInv /\ (Store \/ StoreFails) => IInv'
<1> SUFFICES ASSUME IInv, Store \/ StoreFails PROVE IInv'
  OBVIOUS
<1> USE DEF callVars, ctxVars, searchVars, Return
<1>1. /\ TypeOK /\ pc = "store" /\ pc \in Validated
      /\ validation_state = "VALID" /\ stored = before
      /\ image[descriptor].type = "prod"
      /\ descriptor \in Candidates /\ Verifies(descriptor)
  BY DEF IInv, Checked, Validated, Store, StoreFails
<1>2. UNCHANGED <<image, intf, before, validation_state, descriptor,
                  descriptor_offset, payload_blob_offset, payload>>
  BY DEF Store, StoreFails
<1>3. faulty' \in BOOLEAN
  BY <1>1 DEF TypeOK, Store, StoreFails
<1>4. payload \in Mauv /\ Sane(payload) /\ OwnMauvs = <<payload>>
  BY <1>1, AboutToStore
<1>5. TypeOK'
  <2>1. pc' = "done" /\ stored' \in {stored, payload}
    BY DEF Store, StoreFails
  <2> QED
    BY <1>1, <1>2, <1>3, <1>4, <2>1 DEF TypeOK
<1>6. CASE StoreFails
  BY <1>1, <1>2, <1>5, <1>6, NotAccepted DEF StoreFails
<1>7. CASE Store
  <2>1. /\ (descriptor \in Candidates)' /\ Verifies(descriptor)'
        /\ validation_state' = "VALID"
        /\ OwnMauvs' = <<payload>> /\ stored' = payload
        /\ pc' = "done" /\ rv' = "SUCCESS"
    BY <1>1, <1>2, <1>4, <1>7, SameVerdicts DEF OwnMauvs, Store
  <2>2. /\ Allows(payload, payload.version) /\ payload.timestamp \in Nat
    BY <1>4, TimestampAssumption DEF Sane, Mauv
  <2>3. AcceptedIsAllowed'
    BY <2>1, <2>2 DEF AcceptedIsAllowed, Allows
  <2> QED
    BY <1>5, <2>1, <2>3 DEF IInv, Checked, Validated, RefusedLeavesRecord
<1> QED
  BY <1>6, <1>7

LEMMA StutterIInv == IInv /\ UNCHANGED vars => IInv'
<1> SUFFICES ASSUME IInv, UNCHANGED vars PROVE IInv'
  OBVIOUS
<1> USE DEF vars, callVars, ctxVars, searchVars
<1>1. TypeOK'
  BY DEF IInv, TypeOK
<1>2. /\ Candidates' = Candidates
      /\ Verifies(descriptor)' <=> Verifies(descriptor)
      /\ DescriptorVerdict(image[descriptor], "none")'
           = DescriptorVerdict(image[descriptor], "none")
  BY SameVerdicts
<1>3. MauvVerdict' = MauvVerdict /\ (Newer' <=> Newer)
  BY SameJudgement
<1>4. /\ OwnMauvs' = OwnMauvs
      /\ RefusedLeavesRecord' <=> RefusedLeavesRecord
      /\ Sane(payload)' <=> Sane(payload)
  BY DEF OwnMauvs, RefusedLeavesRecord, Sane, Allows
<1>5. AcceptedIsAllowed' <=> AcceptedIsAllowed
  BY <1>4 DEF AcceptedIsAllowed, Supplies, Allows
<1> QED
  BY <1>1, <1>2, <1>3, <1>4, <1>5 DEF IInv, Checked, Validated
-------------------------------------------------------------------------------
(* The inductive invariant holds in every reachable state, whatever the    *)
(* images, the interfaces, the reads that fail and the losses of power.    *)
THEOREM SignInvariance == Spec => []IInv
<1>1. Init => IInv
  BY InitIInv
<1>2. IInv /\ [Next]_vars => IInv'
  BY CallIInv, DropIInv, ScanIInv, DescriptorIInv, RegionsIInv, PayloadIInv,
     StoredMauvIInv, StoreIInv, StutterIInv
     DEF Next, Step
<1> QED
  BY <1>1, <1>2, PTL DEF Spec

(* A call that does not succeed leaves the board's record as it was.       *)
(* (libcr51sign_validate)                                                  *)
THEOREM RefusalHarmless == Spec => []RefusedLeavesRecord
<1>1. IInv => RefusedLeavesRecord
  BY DEF IInv
<1> QED
  BY <1>1, SignInvariance, PTL

(* An accepted production image carries a record whose version the board's *)
(* record allows from then on.  (validate_payload_image_mauv)              *)
THEOREM AcceptanceAllowed == Spec => []AcceptedIsAllowed
<1>1. IInv => AcceptedIsAllowed
  BY DEF IInv
<1> QED
  BY <1>1, SignInvariance, PTL

(* No step but Store touches the board's record.                           *)
LEMMA OnlyStoreStores ==
  ASSUME [Next]_vars, stored' # stored
  PROVE  Store
  BY DEF Next, Step, Call, Drop, ScanBlock, ScanReadFails, ScanEnds,
         ValidateDescriptor, ValidateRegions, FindPayloadMauv, PayloadReadFails,
         CheckStoredMauv, RetrieveFails, StoreFails, vars

(* Only the record of the verified production descriptor is ever stored.   *)
(* (libcr51sign_validate, validate_payload_image_mauv)                     *)
THEOREM OwnRecordStored == Spec => StoresOwnMauv
<1>1. IInv /\ [Next]_vars =>
        [stored' # stored =>
           /\ validation_state = "VALID"
           /\ image[descriptor].type = "prod"
           /\ Verifies(descriptor)
           /\ OwnMauvs = <<stored'>>]_vars
  <2> SUFFICES ASSUME IInv, [Next]_vars, stored' # stored
               PROVE  /\ validation_state = "VALID"
                      /\ image[descriptor].type = "prod"
                      /\ Verifies(descriptor)
                      /\ OwnMauvs = <<stored'>>
    OBVIOUS
  <2>1. pc = "store" /\ stored' = payload
    BY OnlyStoreStores DEF Store
  <2>2. OwnMauvs = <<payload>>
    BY <2>1, AboutToStore
  <2> QED
    BY <2>1, <2>2 DEF IInv, Checked, Validated
<1> QED
  BY <1>1, SignInvariance, PTL DEF Spec, StoresOwnMauv

(* The sequence of validations implements the abstract record of the       *)
(* board: it is replaced only by a usable, newer one that the record       *)
(* before it allows.  (update_stored_image_mauv_data and its callers)      *)
THEOREM RecordRefinement == Spec => ImplementsMauvStore
<1>1. Init => StoreInit
  BY DEF Init, StoreInit
<1>2. IInv /\ [Next]_vars => [Replace]_stored
  <2> SUFFICES ASSUME IInv, [Next]_vars, stored' # stored PROVE Replace
    OBVIOUS
  <2>1. pc = "store" /\ stored' = payload
    BY OnlyStoreStores DEF Store
  <2> QED
    BY <2>1, AboutToStore DEF Replace
<1> QED
  BY <1>1, <1>2, SignInvariance, PTL DEF Spec, ImplementsMauvStore, StoreSpec
-------------------------------------------------------------------------------
(* The search.  The reason a candidate that does not verify is rejected:   *)
Rejection(k) == IF DescriptorVerdict(image[k], "none") # "SUCCESS"
                THEN DescriptorVerdict(image[k], "none")
                ELSE RegionVerdict(image[k], "none")

(* Unless a read failed, no candidate behind verifies, and the reason kept *)
(* is the one of the first of them.                                        *)
NoneBehind(end) == \A k \in Candidates : k < end => ~Verifies(k)

FirstReasonKept ==
  IF rv_first_desc = "SUCCESS" THEN \A k \in Candidates : k >= descriptor_offset
  ELSE \E k \in Candidates : /\ \A other \in Candidates : k <= other
                             /\ rv_first_desc = Rejection(k)

NotFound ==
  IF Candidates = {} THEN rv = "FAILED_TO_LOCATE_MAGIC"
  ELSE /\ \A k \in Candidates : ~Verifies(k)
       /\ \E k \in Candidates : /\ \A other \in Candidates : k <= other
                                /\ rv = Rejection(k)

SearchInv ==
  ~faulty =>
    /\ pc \in {"scan", "descriptor", "regions"} =>
         NoneBehind(descriptor_offset) /\ FirstReasonKept
    /\ validation_state = "VALID" => NoneBehind(descriptor)
    /\ pc = "done" /\ validation_state # "VALID" => NotFound

LEMMA SameSearch ==
  ASSUME UNCHANGED <<image, intf>>
  PROVE  /\ Candidates' = Candidates
         /\ \A k : Verifies(k)' <=> Verifies(k)
         /\ \A k : Rejection(k)' = Rejection(k)
<1>1. \A k : DescriptorVerdict(image[k], "none")'
               = DescriptorVerdict(image[k], "none")
  BY DEF DescriptorVerdict, TransitionVerdict, SignatureVerdict, FirstFailure,
         Supplies
<1>2. \A k : RegionVerdict(image[k], "none")' = RegionVerdict(image[k], "none")
  BY DEF RegionVerdict, FirstFailure
<1> QED
  BY <1>1, <1>2 DEF Verifies, Candidates, Rejection

(* The candidate looked at is rejected for its own reason.                 *)
LEMMA RejectKeeps ==
  ASSUME TypeOK, descriptor_offset \in Candidates,
         NoneBehind(descriptor_offset), FirstReasonKept,
         UNCHANGED <<image, intf>>, validation_state' = "INVALID",
         ~Verifies(descriptor_offset), Rejection(descriptor_offset) # "SUCCESS",
         Reject(Rejection(descriptor_offset))
  PROVE  SearchInv'
<1>1. descriptor_offset \in Nat /\ Candidates \subseteq Nat
  BY Types DEF TypeOK
<1>2. descriptor_offset' = descriptor_offset + 1 /\ pc' = "scan"
  BY DEF Reject
<1>3. NoneBehind(descriptor_offset)'
  <2>1. \A k \in Candidates : k < descriptor_offset' => ~Verifies(k)
    <3>1. \A k \in Candidates :
            k < descriptor_offset' => k < descriptor_offset \/ k = descriptor_offset
      BY <1>1, <1>2
    <3> QED
      BY <3>1 DEF NoneBehind
  <2> QED
    BY <2>1, SameSearch DEF NoneBehind
<1>4. FirstReasonKept'
  <2>1. CASE rv_first_desc = "SUCCESS"
    <3>1. \A other \in Candidates : descriptor_offset <= other
      BY <1>1, <2>1 DEF FirstReasonKept
    <3>2. rv_first_desc' = Rejection(descriptor_offset)
      BY <2>1 DEF Reject
    <3> QED
      BY <3>1, <3>2, SameSearch DEF FirstReasonKept
  <2>2. CASE rv_first_desc # "SUCCESS"
    <3>1. rv_first_desc' = rv_first_desc
      BY <2>2 DEF Reject
    <3> QED
      BY <2>2, <3>1, SameSearch DEF FirstReasonKept
  <2> QED
    BY <2>1, <2>2
<1> QED
  BY <1>2, <1>3, <1>4 DEF SearchInv

LEMMA ScanSearch ==
  ASSUME IInv, SearchInv, ScanBlock \/ ScanReadFails \/ ScanEnds
  PROVE  SearchInv'
<1> USE DEF callVars, ctxVars, searchVars
<1>1. /\ descriptor_offset \in Nat /\ Candidates \subseteq 1..Len(image)
      /\ Len(image) \in Nat
      /\ pc = "scan" /\ validation_state = "INVALID"
      /\ faulty \in BOOLEAN
  BY Types DEF IInv, TypeOK, ScanBlock, ScanReadFails, ScanEnds
<1>2. UNCHANGED <<image, intf, validation_state, descriptor>>
  BY DEF ScanBlock, ScanReadFails, ScanEnds
<1>3. CASE ScanReadFails
  BY <1>3 DEF ScanReadFails, SearchInv
<1>4. CASE ScanBlock /\ ~faulty
  <2>1. UNCHANGED <<rv_first_desc, faulty>> /\ pc' # "done"
    BY <1>1, <1>4 DEF ScanBlock
  <2>2. \/ descriptor_offset' = descriptor_offset
        \/ /\ descriptor_offset' = descriptor_offset + 1
           /\ descriptor_offset \notin Candidates
    BY <1>4 DEF ScanBlock, Candidates
  <2>3. NoneBehind(descriptor_offset) /\ FirstReasonKept
    BY <1>1, <1>4 DEF SearchInv
  <2>4. NoneBehind(descriptor_offset)'
    <3>1. \A k \in Candidates : k < descriptor_offset' => k < descriptor_offset
      BY <1>1, <2>2
    <3>2. \A k \in Candidates : k < descriptor_offset' => ~Verifies(k)
      BY <2>3, <3>1 DEF NoneBehind
    <3> QED
      BY <1>2, <3>2, SameSearch DEF NoneBehind
  <2>5. FirstReasonKept'
    <3>1. CASE rv_first_desc = "SUCCESS"
      <4>1. \A k \in Candidates : k >= descriptor_offset
        BY <2>3, <3>1 DEF FirstReasonKept
      <4>2. \A k \in Candidates : k >= descriptor_offset'
        BY <1>1, <2>2, <4>1
      <4>3. Candidates' = Candidates
        BY <1>2, SameSearch
      <4> QED
        BY <2>1, <3>1, <4>2, <4>3 DEF FirstReasonKept
    <3>2. CASE rv_first_desc # "SUCCESS"
      BY <1>2, <2>1, <2>3, <3>2, SameSearch DEF FirstReasonKept
    <3> QED
      BY <3>1, <3>2
  <2> QED
    BY <1>1, <1>2, <2>1, <2>4, <2>5 DEF SearchInv
<1>5. CASE ScanEnds /\ ~faulty
  <2>1. /\ descriptor_offset > Len(image) /\ pc' = "done"
        /\ rv' = IF rv_first_desc # "SUCCESS" THEN rv_first_desc
                 ELSE "FAILED_TO_LOCATE_MAGIC"
    BY <1>5 DEF ScanEnds, ReturnNotFound, Return
  <2>2. NoneBehind(descriptor_offset) /\ FirstReasonKept
    BY <1>1, <1>5 DEF SearchInv
  <2>3. \A k \in Candidates : ~Verifies(k) /\ ~(k >= descriptor_offset)
    BY <1>1, <2>1, <2>2 DEF NoneBehind
  <2>4. NotFound'
    <3>1. CASE rv_first_desc = "SUCCESS"
      <4>1. Candidates = {}
        BY <2>2, <2>3, <3>1 DEF FirstReasonKept
      <4> QED
        BY <1>2, <2>1, <3>1, <4>1, SameSearch DEF NotFound
    <3>2. CASE rv_first_desc # "SUCCESS"
      BY <1>2, <2>1, <2>2, <2>3, <3>2, SameSearch DEF NotFound, FirstReasonKept
    <3> QED
      BY <3>1, <3>2
  <2> QED
    BY <1>1, <1>2, <2>1, <2>4 DEF SearchInv
<1>6. CASE faulty /\ (ScanBlock \/ ScanEnds)
  BY <1>6 DEF ScanBlock, ScanEnds, SearchInv
<1> QED
  BY <1>3, <1>4, <1>5, <1>6

LEMMA DescriptorSearch ==
  ASSUME IInv, SearchInv, ValidateDescriptor
  PROVE  SearchInv'
<1>1. /\ TypeOK /\ pc = "descriptor" /\ validation_state = "INVALID"
      /\ descriptor_offset \in Candidates
      /\ UNCHANGED <<image, intf, validation_state>>
  BY DEF IInv, ValidateDescriptor, callVars
<1>2. PICK fault \in DescriptorRead \cup {"none"} :
        /\ faulty' = (faulty \/ fault # "none")
        /\ IF DescriptorVerdict(image[descriptor_offset], fault) = "SUCCESS"
           THEN pc' = "regions" /\ UNCHANGED <<rv_first_desc, descriptor_offset>>
           ELSE Reject(DescriptorVerdict(image[descriptor_offset], fault))
  BY DEF ValidateDescriptor
<1>3. CASE faulty'
  BY <1>3 DEF SearchInv
<1>4. CASE ~faulty'
  <2>1. fault = "none" /\ NoneBehind(descriptor_offset) /\ FirstReasonKept
    BY <1>1, <1>2, <1>4 DEF SearchInv
  <2>2. CASE DescriptorVerdict(image[descriptor_offset], "none") = "SUCCESS"
    <3>1. pc' = "regions" /\ UNCHANGED <<rv_first_desc, descriptor_offset>>
      BY <1>2, <2>1, <2>2
    <3> QED
      BY <1>1, <2>1, <3>1, SameSearch DEF SearchInv, NoneBehind, FirstReasonKept
  <2>3. CASE DescriptorVerdict(image[descriptor_offset], "none") # "SUCCESS"
    BY <1>1, <1>2, <2>1, <2>3, RejectKeeps DEF Rejection, Verifies
  <2> QED
    BY <2>2, <2>3
<1> QED
  BY <1>3, <1>4

LEMMA RegionsSearch ==
  ASSUME IInv, SearchInv, ValidateRegions
  PROVE  SearchInv'
<1>1. /\ TypeOK /\ pc = "regions" /\ validation_state = "INVALID"
      /\ descriptor_offset = descriptor /\ descriptor \in Candidates
      /\ DescriptorVerdict(image[descriptor], "none") = "SUCCESS"
      /\ UNCHANGED <<image, intf, descriptor>>
  BY DEF IInv, Checked, ValidateRegions, callVars
<1>2. PICK fault \in RegionRead \cup {"none"} :
        /\ faulty' = (faulty \/ fault # "none")
        /\ IF RegionVerdict(image[descriptor], fault) # "SUCCESS"
           THEN Reject(RegionVerdict(image[descriptor], fault))
                  /\ UNCHANGED validation_state
           ELSE validation_state' = "VALID" /\ pc' \in {"payload_mauv", "done"}
  BY DEF ValidateRegions, Return
<1>3. CASE faulty'
  BY <1>3 DEF SearchInv
<1>4. CASE ~faulty'
  <2>1. fault = "none" /\ NoneBehind(descriptor) /\ FirstReasonKept
    BY <1>1, <1>2, <1>4 DEF SearchInv
  <2>2. CASE RegionVerdict(image[descriptor], "none") = "SUCCESS"
    <3>1. validation_state' = "VALID" /\ pc' \in {"payload_mauv", "done"}
      BY <1>2, <2>1, <2>2
    <3> QED
      BY <1>1, <2>1, <3>1, SameSearch DEF SearchInv, NoneBehind
  <2>3. CASE RegionVerdict(image[descriptor], "none") # "SUCCESS"
    BY <1>1, <1>2, <2>1, <2>3, RejectKeeps DEF Rejection, Verifies
  <2> QED
    BY <2>2, <2>3
<1> QED
  BY <1>3, <1>4

LEMMA OthersSearch ==
  ASSUME IInv, SearchInv,
         \/ Call \/ Drop \/ UNCHANGED vars
         \/ FindPayloadMauv \/ PayloadReadFails
         \/ CheckStoredMauv \/ RetrieveFails \/ Store \/ StoreFails
  PROVE  SearchInv'
<1> USE DEF callVars, ctxVars, searchVars
<1>1. CASE Call
  <2>1. /\ pc' = "scan" /\ validation_state' = "INVALID"
        /\ descriptor_offset' = 1 /\ rv_first_desc' = "SUCCESS"
    BY <1>1 DEF Call, ClearLocals
  <2>2. image' \in Seq(Block)
    BY <1>1, ImagesAssumption DEF Call
  <2>3. \A k \in Candidates' : k \in Nat /\ k >= 1
    BY <2>2 DEF Candidates
  <2> QED
    BY <2>1, <2>3 DEF SearchInv, NoneBehind, FirstReasonKept
<1>2. CASE Drop
  BY <1>2 DEF Drop, SearchInv
<1>3. CASE UNCHANGED vars
  BY <1>3, SameSearch DEF vars, SearchInv, NoneBehind, FirstReasonKept, NotFound
<1>4. CASE \/ FindPayloadMauv \/ PayloadReadFails
           \/ CheckStoredMauv \/ RetrieveFails \/ Store \/ StoreFails
  <2>1. /\ pc \in Validated /\ validation_state = "VALID"
        /\ UNCHANGED <<image, intf, validation_state, descriptor>>
    BY <1>4 DEF FindPayloadMauv, PayloadReadFails, CheckStoredMauv,
       RetrieveFails, Store, StoreFails, IInv, Validated, Checked
  <2>2. /\ pc' \in {"stored_mauv", "store", "done"}
        /\ faulty' = faulty \/ faulty' = TRUE
    BY <1>4 DEF FindPayloadMauv, PayloadReadFails, CheckStoredMauv,
       RetrieveFails, Store, StoreFails, Return
  <2> QED
    BY <2>1, <2>2, SameSearch DEF SearchInv, NoneBehind
<1> QED
  BY <1>1, <1>2, <1>3, <1>4

LEMMA SearchInvariance == Spec => [](IInv /\ SearchInv)
<1>1. Init => SearchInv
  BY DEF Init, SearchInv
<1>2. IInv /\ SearchInv /\ [Next]_vars => SearchInv'
  BY ScanSearch, DescriptorSearch, RegionsSearch, OthersSearch DEF Next, Step
<1> QED
  BY <1>1, <1>2, SignInvariance, PTL DEF Spec

(* An image is accepted for a candidate that verifies, and for the first   *)
(* one unless a read failed on the way.  (libcr51sign_validate)            *)
THEOREM FirstVerified == Spec => []FirstVerifiedDecides
<1>1. IInv /\ SearchInv => FirstVerifiedDecides
  <2> SUFFICES ASSUME IInv, SearchInv, validation_state = "VALID"
               PROVE  /\ descriptor \in Candidates
                      /\ Verifies(descriptor)
                      /\ ~faulty => \A k \in Candidates :
                                      Verifies(k) => descriptor <= k
    BY DEF FirstVerifiedDecides
  <2>1. descriptor \in Candidates /\ Verifies(descriptor)
    BY DEF IInv
  <2>2. descriptor \in Nat /\ Candidates \subseteq Nat
    BY <2>1, Types DEF IInv
  <2> QED
    BY <2>1, <2>2 DEF SearchInv, NoneBehind
<1> QED
  BY <1>1, SearchInvariance, PTL

(* A failed search reports the reason of the first candidate.              *)
(* (libcr51sign_validate, rv_first_desc)                                   *)
THEOREM FirstReason == Spec => []FirstFailureReported
<1>1. IInv /\ SearchInv => FirstFailureReported
  <2> SUFFICES ASSUME IInv, SearchInv, pc = "done", ~faulty,
                      validation_state # "VALID"
               PROVE  IF Candidates = {} THEN rv = "FAILED_TO_LOCATE_MAGIC"
                      ELSE /\ \A k \in Candidates : ~Verifies(k)
                           /\ rv = Rejection(First(Candidates))
    BY DEF FirstFailureReported, Rejection
  <2>1. NotFound
    BY DEF SearchInv
  <2>2. CASE Candidates # {}
    <3>1. PICK k \in Candidates : /\ \A other \in Candidates : k <= other
                                  /\ rv = Rejection(k)
      BY <2>1, <2>2 DEF NotFound
    <3>2. Candidates \subseteq Nat
      BY Types DEF IInv
    <3>3. First(Candidates) = k
      <4>1. \A x \in Candidates :
              (\A other \in Candidates : x <= other) => x = k
        BY <3>1, <3>2
      <4> QED
        BY <3>1, <4>1, Zenon DEF First
    <3> QED
      BY <2>1, <2>2, <3>1, <3>3 DEF NotFound
  <2> QED
    BY <2>1, <2>2 DEF NotFound
<1> QED
  BY <1>1, SearchInvariance, PTL
================================================================================
