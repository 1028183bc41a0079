------------------------------- MODULE MauvStore -------------------------------
(***************************************************************************)
(* What a board promises about its minimum acceptable update version       *)
(* (MAUV): the record it keeps changes only to a usable, newer record of a *)
(* payload that the record before it allows.                               *)
(***************************************************************************)
EXTENDS Integers

CONSTANTS Version,     \* the versions a payload can have
          Timestamp,   \* the values of the update counter
          NoMauv       \* stands for "no record"

ASSUME VersionAssumption == Version \subseteq Nat
ASSUME TimestampAssumption == Timestamp \subseteq Nat

Mauv == [wellformed : BOOLEAN,   \* structure version and sizes are right
         version    : Version,   \* of the payload that carries the record
         min        : Version,
         denylist   : SUBSET Version,
         timestamp  : Timestamp]

ASSUME NoMauvAssumption == NoMauv \notin Mauv

(* does_stored_image_mauv_allow_update()                                   *)
Allows(m, version) == version >= m.min /\ version \notin m.denylist

(* sanity_check_image_mauv_data(): a record must allow its own payload.    *)
Sane(m) == m.wellformed /\ m.version # 0 /\ Allows(m, m.version)

VARIABLE stored

StoreInit == stored \in Mauv \cup {NoMauv}

Replace == \E m \in Mauv :
             /\ Sane(m)
             /\ stored # NoMauv => /\ Sane(stored)
                                   /\ Allows(stored, m.version)
                                   /\ m.timestamp > stored.timestamp
             /\ stored' = m

StoreSpec == StoreInit /\ [][Replace]_stored
================================================================================
