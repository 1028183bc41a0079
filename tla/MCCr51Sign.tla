------------------------------- MODULE MCCr51Sign -------------------------------
(* Cr51Sign on small instances for TLC.                                    *)
EXTENDS Cr51Sign, FiniteSets

CONSTANTS MinVersion, MaxVersion, MaxTimestamp

MCVersion == MinVersion..MaxVersion
MCTimestamp == 1..MaxTimestamp

Blob(magic, overrun, mauvs) ==
  [magic |-> magic, overrun |-> overrun, mauvs |-> mauvs]

NoBlob == Blob(FALSE, FALSE, <<>>)

MCBlock(fails, type, vouched, has_blob, blob) ==
  [magic |-> TRUE, fails |-> fails, type |-> type, vouched |-> vouched,
   has_blob |-> has_blob, blob |-> blob]

NoMagicBlock == [MCBlock("header", "prod", "keyring", FALSE, NoBlob)
                   EXCEPT !.magic = FALSE]

(* A record that allows every version.                                     *)
FirstMauv == [wellformed |-> TRUE, version |-> 1, min |-> 1, denylist |-> {},
              timestamp |-> 1]

(* Each check failing, without a blob and with one of any content.         *)
RejectedBlocks ==
  {MCBlock(fails, "prod", "keyring", has_blob, NoBlob) :
     fails \in DOMAIN Reason \ {"none"}, has_blob \in BOOLEAN}

PlainBlocks ==
  {MCBlock("none", type, vouched, FALSE, NoBlob) :
     type \in {"prod", "dev", "other"},
     vouched \in {"hash", "key", "keyring", "nobody"}}

BlobBlocks ==
  {MCBlock("none", "prod", "keyring", TRUE, blob) :
     blob \in {NoBlob, Blob(TRUE, TRUE, <<FirstMauv>>),
               Blob(TRUE, FALSE, <<FirstMauv, FirstMauv>>),
               Blob(TRUE, FALSE, <<>>),
               Blob(TRUE, FALSE, <<FirstMauv>>)}}

AllBlocks == RejectedBlocks \cup PlainBlocks \cup BlobBlocks \cup {NoMagicBlock}

(* Blocks for what follows in an image.                                    *)
FewBlocks ==
  {MCBlock("area_size", "prod", "keyring", TRUE, Blob(TRUE, FALSE, <<FirstMauv>>)),
   MCBlock("image_hash", "prod", "keyring", FALSE, NoBlob),
   MCBlock("none", "prod", "keyring", FALSE, NoBlob),
   MCBlock("none", "prod", "keyring", TRUE, Blob(TRUE, FALSE, <<FirstMauv>>)),
   NoMagicBlock}

LongImages ==
  {<<b, c, d>> : b \in FewBlocks, c \in FewBlocks, d \in FewBlocks}

SearchImages ==
  {<<b>> : b \in AllBlocks}
  \cup {<<b, c>> : b \in AllBlocks, c \in FewBlocks}
  \cup LongImages

(* All hooks, all but one, and the modes a board can be in.                *)
SearchInterfaces ==
  {[hooks |-> Hook, production |-> production, downgrade |-> downgrade] :
     production \in BOOLEAN, downgrade \in BOOLEAN}
  \cup {[hooks |-> Hook \ {hook}, production |-> TRUE, downgrade |-> FALSE] :
          hook \in Hook}

(* Updates that differ in their record only, some behind a rejected        *)
(* candidate.                                                              *)
UpdateBlocks ==
  {MCBlock("none", "prod", "keyring", TRUE, Blob(TRUE, FALSE, <<m>>)) :
     m \in {n \in Mauv : n.wellformed /\ Cardinality(n.denylist) <= 1}}
  \cup {MCBlock("none", "prod", "keyring", TRUE,
                Blob(TRUE, FALSE, <<[FirstMauv EXCEPT !.wellformed = FALSE]>>)),
        MCBlock("none", "prod", "keyring", FALSE, NoBlob),
        MCBlock("none", "dev", "keyring", FALSE, NoBlob)}

RejectedUpdate ==
  MCBlock("area_size", "prod", "keyring", TRUE, Blob(TRUE, FALSE, <<FirstMauv>>))

UpdateImages ==
  {<<b>> : b \in UpdateBlocks}
  \cup {<<RejectedUpdate, b>> : b \in {c \in UpdateBlocks : ~c.has_blob}}

UpdateInterfaces ==
  {[hooks |-> hooks, production |-> TRUE, downgrade |-> TRUE] :
     hooks \in {Hook, Hook \ {"retrieve_stored_image_mauv_data"}}}
==================================================================================
