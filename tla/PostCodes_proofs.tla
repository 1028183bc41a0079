--------------------------- MODULE PostCodes_proofs ---------------------------
(***************************************************************************)
(* PostCodes for any number of POST codes and signals: no code vanishes,   *)
(* and each collector is sent the codes once and in order.                 *)
(***************************************************************************)
EXTENDS PostCodes, TLAPS

USE PostAssumption

-------------------------------------------------------------------------------
(* What the operations on sequences do to the codes in them.               *)
LEMMA CodesNone == Codes(<<>>) = {} /\ Rising(<<>>)
  BY DEF Codes, Rising

LEMMA CodesAppend ==
  ASSUME NEW s \in Seq(Nat), NEW n \in Nat
  PROVE  Codes(Append(s, n)) = Codes(s) \cup ({n} \ {NoCode})
<1> DEFINE t == Append(s, n)
<1>1. /\ DOMAIN t = DOMAIN s \cup {Len(s) + 1}
      /\ \A i \in DOMAIN s : t[i] = s[i]
      /\ t[Len(s) + 1] = n
  OBVIOUS
<1> QED
  BY <1>1 DEF Codes

LEMMA CodesConcat ==
  ASSUME NEW s \in Seq(Nat), NEW t \in Seq(Nat)
  PROVE  Codes(s \o t) = Codes(s) \cup Codes(t)
<1> DEFINE u == s \o t
<1>1. /\ \A i \in DOMAIN s : i \in DOMAIN u /\ u[i] = s[i]
      /\ \A i \in DOMAIN t : Len(s) + i \in DOMAIN u /\ u[Len(s) + i] = t[i]
      /\ \A i \in DOMAIN u : i \in DOMAIN s \/ i - Len(s) \in DOMAIN t
  OBVIOUS
<1>2. \A i \in DOMAIN u : i \in DOMAIN s => u[i] = s[i]
  BY <1>1
<1>3. \A i \in DOMAIN u : i - Len(s) \in DOMAIN t => u[i] = t[i - Len(s)]
  BY <1>1
<1>4. Codes(u) \subseteq Codes(s) \cup Codes(t)
  BY <1>1, <1>2, <1>3 DEF Codes
<1>5. Codes(s) \subseteq Codes(u) /\ Codes(t) \subseteq Codes(u)
  BY <1>1 DEF Codes
<1> QED
  BY <1>4, <1>5

LEMMA CodesTail ==
  ASSUME NEW s \in Seq(Nat), s # <<>>
  PROVE  Codes(s) = Codes(Tail(s)) \cup ({Head(s)} \ {NoCode})
<1> DEFINE t == Tail(s)
<1>1. /\ Head(s) = s[1] /\ 1 \in DOMAIN s
      /\ \A i \in DOMAIN t : i + 1 \in DOMAIN s /\ t[i] = s[i + 1]
      /\ \A i \in DOMAIN s : i = 1 \/ i - 1 \in DOMAIN t
  OBVIOUS
<1>2. \A i \in DOMAIN s : i # 1 => t[i - 1] = s[i]
  BY <1>1
<1> QED
  BY <1>1, <1>2 DEF Codes

LEMMA RisingAppend ==
  ASSUME NEW s \in Seq(Nat), NEW n \in Nat, Rising(s),
         n # NoCode => \A k \in Codes(s) : k < n
  PROVE  Rising(Append(s, n))
<1> DEFINE t == Append(s, n)
<1>1. /\ DOMAIN t = DOMAIN s \cup {Len(s) + 1}
      /\ \A i \in DOMAIN s : t[i] = s[i] /\ i < Len(s) + 1
      /\ t[Len(s) + 1] = n
      /\ \A i, j \in DOMAIN t : i < j => i \in DOMAIN s
  OBVIOUS
<1> QED
  BY <1>1 DEF Rising, Codes

LEMMA RisingConcat ==
  ASSUME NEW s \in Seq(Nat), NEW t \in Seq(Nat), Rising(s), Rising(t),
         Before(s, t)
  PROVE  Rising(s \o t)
<1> DEFINE u == s \o t
<1> SUFFICES ASSUME NEW i \in DOMAIN u, NEW j \in DOMAIN u, i < j,
                    u[i] # NoCode, u[j] # NoCode
             PROVE  u[i] < u[j]
  BY DEF Rising
<1>1. /\ i \in DOMAIN s => u[i] = s[i]
      /\ i \notin DOMAIN s => i - Len(s) \in DOMAIN t /\ u[i] = t[i - Len(s)]
      /\ j \in DOMAIN s => u[j] = s[j]
      /\ j \notin DOMAIN s => j - Len(s) \in DOMAIN t /\ u[j] = t[j - Len(s)]
      /\ j \in DOMAIN s => i \in DOMAIN s
  OBVIOUS
<1>2. CASE j \in DOMAIN s
  BY <1>1, <1>2 DEF Rising
<1>3. CASE i \notin DOMAIN s
  <2>1. j \notin DOMAIN s
    BY <1>1, <1>3
  <2>2. i - Len(s) < j - Len(s)
    BY <1>3
  <2> QED
    BY <1>1, <1>3, <2>1, <2>2 DEF Rising
<1>4. CASE i \in DOMAIN s /\ j \notin DOMAIN s
  BY <1>1, <1>4 DEF Before, Codes
<1> QED
  BY <1>2, <1>3, <1>4

LEMMA RisingTail ==
  ASSUME NEW s \in Seq(Nat), s # <<>>, Rising(s)
  PROVE  /\ Rising(Tail(s))
         /\ Head(s) # NoCode => \A k \in Codes(Tail(s)) : Head(s) < k
<1> DEFINE t == Tail(s)
<1>1. /\ Head(s) = s[1] /\ 1 \in DOMAIN s
      /\ \A i \in DOMAIN t : i + 1 \in DOMAIN s /\ t[i] = s[i + 1] /\ 1 < i + 1
      /\ \A i, j \in DOMAIN t : i < j => i + 1 < j + 1
  OBVIOUS
<1> QED
  BY <1>1 DEF Rising, Codes

LEMMA CodesNat ==
  ASSUME NEW s \in Seq(Nat)
  PROVE  Codes(s) \subseteq Nat \ {NoCode}
  BY DEF Codes

LEMMA Positive == Seq(Nat \ {NoCode}) \subseteq Seq(Nat)
  OBVIOUS

-------------------------------------------------------------------------------
(* The two halves of the type invariant, which need different provers.     *)
SequenceTypes ==
  /\ post_seen \in Nat
  /\ post_signals \in Seq(Nat)
  /\ postcodes \in Seq(Nat \ {NoCode})
  /\ event_codes \in Seq(Nat \ {NoCode})
  /\ wire \in [Collector -> Seq(Nat \ {NoCode})]

FlagTypes ==
  /\ post_pc \in {"drain", "mac", "socket", "v6", "v4", "sleep"}
  /\ post_socket \in BOOLEAN
  /\ mac_read \in BOOLEAN
  /\ bmc_mac \in BmcMac
  /\ event_mac \in BmcMac

LEMMA PostInitInvariant == PostInit => PostIInv
<1> SUFFICES ASSUME PostInit PROVE PostIInv
  OBVIOUS
<1>1. PostTypeOK
  <2>1. <<>> \in Seq(Nat \ {NoCode}) /\ <<>> \in Seq(Nat)
    OBVIOUS
  <2>2. SequenceTypes
    BY <2>1 DEF PostInit, SequenceTypes
  <2>3. FlagTypes
    BY DEF PostInit, FlagTypes
  <2> QED
    BY <2>2, <2>3 DEF PostTypeOK, SequenceTypes, FlagTypes
<1>2. /\ post_signals = <<>> /\ postcodes = <<>> /\ event_codes = <<>>
      /\ \A c \in Collector : wire[c] = <<>>
      /\ post_pc = "drain" /\ post_seen = 0 /\ lost_codes = {}
  BY DEF PostInit
<1>3. NoCodeVanishes
  <2>1. Codes(wire["v6"]) = {} /\ Codes(wire["v4"]) = {}
    BY <1>2, CodesNone DEF Collector
  <2> QED
    BY <1>2, <2>1, CodesNone DEF NoCodeVanishes, Settled, InFlight
<1>4. AddressOfThisRound
  BY <1>2 DEF AddressOfThisRound
<1>5. \A c \in Collector : c \notin Owed
  BY <1>2 DEF Owed
<1>6. \A c \in Collector :
        /\ Rising(wire[c])
        /\ Before(wire[c], postcodes) /\ Before(wire[c], post_signals)
  BY <1>2, CodesNone DEF Before
<1>7. Rising(post_signals) /\ Rising(postcodes) /\ Rising(event_codes)
  BY <1>2, CodesNone
<1>8. Before(postcodes, post_signals)
  BY <1>2, CodesNone DEF Before
<1>9. bmc_mac \in macs_since /\ post_pc = "drain"
  BY DEF PostInit
<1>10. Ordered
  BY <1>2, <1>5, <1>6, <1>7, <1>8 DEF Ordered
<1> QED
  BY <1>1, <1>3, <1>4, <1>9, <1>10 DEF PostIInv

LEMMA SequenceTypeStep == PostTypeOK /\ [PostNext]_postVars => SequenceTypes'
<1> SUFFICES ASSUME PostTypeOK, [PostNext]_postVars PROVE SequenceTypes'
  OBVIOUS
<1> USE DEF SequenceTypes, postBus, postSend, postOut, postMac
<1>0. SequenceTypes
  BY DEF PostTypeOK
<1>1. CASE EmitCode
  BY <1>0, <1>1 DEF EmitCode
<1>2. CASE EmitOther
  BY <1>0, <1>2 DEF EmitOther, NoCode
<1>3. CASE ChangeMac
  BY <1>0, <1>3 DEF ChangeMac
<1>4. CASE HandleSignal
  <2>1. Head(post_signals) \in Nat /\ Tail(post_signals) \in Seq(Nat)
    BY <1>0, <1>4 DEF HandleSignal
  <2> QED
    BY <1>0, <1>4, <2>1 DEF HandleSignal
<1>5. CASE Drain
  BY <1>0, <1>5 DEF Drain
<1>6. CASE UpdateEventData
  BY <1>0, <1>6 DEF UpdateEventData, ReadMac
<1>7. CASE OpenSocket
  BY <1>0, <1>7 DEF OpenSocket
<1>8. CASE SendV6
  <2>1. wire["v6"] \o event_codes \in Seq(Nat \ {NoCode})
    BY <1>0 DEF Collector
  <2>2. wire' \in [Collector -> Seq(Nat \ {NoCode})]
    BY <1>0, <1>8, <2>1 DEF SendV6, Sent
  <2> QED
    BY <1>0, <1>8, <2>2 DEF SendV6
<1>9. CASE SendV4
  <2>1. wire["v4"] \o event_codes \in Seq(Nat \ {NoCode})
    BY <1>0 DEF Collector
  <2>2. wire' \in [Collector -> Seq(Nat \ {NoCode})]
    BY <1>0, <1>9, <2>1 DEF SendV4, Sent
  <2> QED
    BY <1>0, <1>9, <2>2 DEF SendV4
<1>10. CASE WakeUp
  BY <1>0, <1>10 DEF WakeUp
<1>11. CASE RestartPostd
  BY <1>0, <1>11 DEF RestartPostd
<1>12. CASE UNCHANGED postVars
  BY <1>0, <1>12 DEF postVars
<1> QED
  BY <1>1, <1>2, <1>3, <1>4, <1>5, <1>6, <1>7, <1>8, <1>9, <1>10, <1>11, <1>12
     DEF PostNext, UdpPoll

LEMMA FlagTypeStep == PostTypeOK /\ [PostNext]_postVars => FlagTypes'
<1> SUFFICES ASSUME PostTypeOK, [PostNext]_postVars PROVE FlagTypes'
  OBVIOUS
<1> USE DEF FlagTypes, postBus, postSend, postOut, postMac
<1>0. FlagTypes
  BY DEF PostTypeOK
<1>1. CASE EmitCode
  BY <1>0, <1>1 DEF EmitCode
<1>2. CASE EmitOther
  BY <1>0, <1>2 DEF EmitOther
<1>3. CASE ChangeMac
  BY <1>0, <1>3 DEF ChangeMac
<1>4. CASE HandleSignal
  BY <1>0, <1>4 DEF HandleSignal
<1>5. CASE Drain
  BY <1>0, <1>5 DEF Drain
<1>6. CASE UpdateEventData
  BY <1>0, <1>6 DEF UpdateEventData, ReadMac
<1>7. CASE OpenSocket
  BY <1>0, <1>7 DEF OpenSocket
<1>8. CASE SendV6
  BY <1>0, <1>8 DEF SendV6
<1>9. CASE SendV4
  BY <1>0, <1>9 DEF SendV4
<1>10. CASE WakeUp
  BY <1>0, <1>10 DEF WakeUp
<1>11. CASE RestartPostd
  BY <1>0, <1>11 DEF RestartPostd
<1>12. CASE UNCHANGED postVars
  BY <1>0, <1>12 DEF postVars
<1> QED
  BY <1>1, <1>2, <1>3, <1>4, <1>5, <1>6, <1>7, <1>8, <1>9, <1>10, <1>11, <1>12
     DEF PostNext, UdpPoll

LEMMA TypeStep == PostTypeOK /\ [PostNext]_postVars => PostTypeOK'
  BY SequenceTypeStep, FlagTypeStep DEF PostTypeOK, SequenceTypes, FlagTypes

(* The addresses do not depend on the codes.                               *)
LEMMA AddressStep ==
  PostTypeOK /\ AddressOfThisRound /\ bmc_mac \in macs_since /\ [PostNext]_postVars
    => AddressOfThisRound' /\ (bmc_mac \in macs_since)'
<1> SUFFICES ASSUME PostTypeOK, AddressOfThisRound, bmc_mac \in macs_since,
                    [PostNext]_postVars
             PROVE  AddressOfThisRound' /\ (bmc_mac \in macs_since)'
  OBVIOUS
<1> USE DEF AddressOfThisRound, postBus, postSend, postOut, postMac
<1>1. CASE EmitCode \/ EmitOther \/ HandleSignal
  BY <1>1 DEF EmitCode, EmitOther, HandleSignal
<1>2. CASE ChangeMac
  BY <1>2 DEF ChangeMac
<1>3. CASE Drain \/ WakeUp
  BY <1>3 DEF Drain, WakeUp
<1>4. CASE UpdateEventData
  BY <1>4 DEF UpdateEventData, ReadMac
<1>5. CASE OpenSocket \/ SendV6 \/ SendV4
  BY <1>5 DEF OpenSocket, SendV6, SendV4
<1>6. CASE RestartPostd
  BY <1>6 DEF RestartPostd
<1>7. CASE UNCHANGED postVars
  BY <1>7 DEF postVars
<1> QED
  BY <1>1, <1>2, <1>3, <1>4, <1>5, <1>6, <1>7 DEF PostNext, UdpPoll

-------------------------------------------------------------------------------
(* Every code still on its way, and every code sent, was emitted.          *)
LEMMA CodesEmitted ==
  ASSUME PostTypeOK, NoCodeVanishes
  PROVE  /\ \A n \in Codes(post_signals) \cup Codes(postcodes) : n <= post_seen
         /\ post_pc \in {"mac", "socket", "v6", "v4"} =>
              \A n \in Codes(event_codes) : n <= post_seen
         /\ \A c \in Collector : \A n \in Codes(wire[c]) : n <= post_seen
<1>1. /\ Codes(post_signals) \subseteq 1..post_seen
      /\ Codes(postcodes) \subseteq 1..post_seen
      /\ Codes(wire["v6"]) \subseteq 1..post_seen
      /\ Codes(wire["v4"]) \subseteq 1..post_seen
      /\ InFlight \subseteq 1..post_seen
  BY DEF NoCodeVanishes, Settled
<1>2. \A n \in 1..post_seen : n <= post_seen
  OBVIOUS
<1> QED
  BY <1>1, <1>2 DEF InFlight, Collector

LEMMA OrderedStep ==
  PostTypeOK /\ Ordered /\ NoCodeVanishes /\ [PostNext]_postVars => Ordered'
<1> SUFFICES ASSUME PostTypeOK, Ordered, NoCodeVanishes, [PostNext]_postVars
             PROVE  Ordered'
  OBVIOUS
<1> USE DEF postBus, postSend, postOut, postMac
<1>0. /\ SequenceTypes
      /\ postcodes \in Seq(Nat) /\ event_codes \in Seq(Nat)
      /\ \A c \in Collector : wire[c] \in Seq(Nat)
  BY Positive DEF PostTypeOK, SequenceTypes
<1>1. CASE EmitCode
  <2>1. /\ Codes(post_signals') = Codes(post_signals) \cup {post_seen + 1}
        /\ \A n \in Codes(post_signals) : n < post_seen + 1
    <3>1. post_seen + 1 \in Nat \ {NoCode}
      BY <1>0 DEF SequenceTypes, NoCode
    <3> QED
      BY <1>0, <1>1, <3>1, CodesAppend, CodesEmitted, CodesNat
         DEF EmitCode, SequenceTypes
  <2>2. Rising(post_signals')
    BY <1>0, <1>1, <2>1, RisingAppend DEF EmitCode, Ordered, SequenceTypes
  <2>3. ASSUME NEW s, Before(s, post_signals),
               \A n \in Codes(s) : n < post_seen + 1
        PROVE  Before(s, post_signals')
    BY <2>1, <2>3 DEF Before
  <2>4. /\ \A n \in Codes(postcodes) : n < post_seen + 1
        /\ post_pc \in {"mac", "socket", "v6", "v4"} =>
             \A n \in Codes(event_codes) : n < post_seen + 1
        /\ \A c \in Collector : \A n \in Codes(wire[c]) : n < post_seen + 1
    BY <1>0, CodesEmitted, CodesNat DEF SequenceTypes
  <2>5. UNCHANGED <<postcodes, event_codes, post_pc, wire, Owed>>
    BY <1>1 DEF EmitCode, Owed
  <2> QED
    BY <2>2, <2>3, <2>4, <2>5 DEF Ordered
<1>2. CASE EmitOther
  <2>1. Codes(post_signals') = Codes(post_signals)
    <3>1. NoCode \in Nat
      BY DEF NoCode
    <3>2. Codes(Append(post_signals, NoCode))
             = Codes(post_signals) \cup ({NoCode} \ {NoCode})
      BY <1>0, <3>1, CodesAppend DEF SequenceTypes
    <3> QED
      BY <1>2, <3>2 DEF EmitOther
  <2>2. Rising(post_signals')
    BY <1>0, <1>2, RisingAppend DEF EmitOther, Ordered, SequenceTypes, NoCode
  <2>3. UNCHANGED <<postcodes, event_codes, post_pc, wire, Owed>>
    BY <1>2 DEF EmitOther, Owed
  <2> QED
    BY <2>1, <2>2, <2>3 DEF Ordered, Before
<1>3. CASE HandleSignal
  <2>1. Codes(post_signals) = Codes(Tail(post_signals))
                                \cup ({Head(post_signals)} \ {NoCode})
    BY <1>0, <1>3, CodesTail DEF HandleSignal, SequenceTypes
  <2>2. /\ Rising(post_signals')
        /\ Head(post_signals) # NoCode =>
             \A k \in Codes(post_signals') : Head(post_signals) < k
    BY <1>0, <1>3, RisingTail DEF HandleSignal, Ordered, SequenceTypes
  <2>3. /\ Codes(post_signals') \subseteq Codes(post_signals)
        /\ UNCHANGED <<event_codes, post_pc, wire, Owed>>
    BY <1>3, <2>1 DEF HandleSignal, Owed
  <2>4. CASE Head(post_signals) = NoCode
    BY <1>3, <2>2, <2>3, <2>4 DEF HandleSignal, Ordered, Before
  <2>5. CASE Head(post_signals) # NoCode
    <3>1. /\ Head(post_signals) \in Codes(post_signals)
          /\ Head(post_signals) \in Nat
      BY <1>0, <2>1, <2>5, CodesNat DEF SequenceTypes
    <3>2. postcodes' = Append(postcodes, Head(post_signals))
      BY <1>3, <2>5 DEF HandleSignal
    <3>3. Codes(postcodes') = Codes(postcodes) \cup {Head(post_signals)}
      BY <1>0, <2>5, <3>1, <3>2, CodesAppend
    <3>4. Rising(postcodes')
      BY <1>0, <3>1, <3>2, RisingAppend DEF Ordered, Before
    <3> QED
      BY <2>2, <2>3, <2>5, <3>1, <3>3, <3>4 DEF Ordered, Before
  <2> QED
    BY <2>4, <2>5
<1>4. CASE Drain
  BY <1>4, CodesNone DEF Drain, Ordered, Before, Owed
<1>5. CASE UpdateEventData
  <2>1. /\ UNCHANGED <<post_signals, postcodes, event_codes, wire>>
        /\ Owed' \subseteq Owed /\ post_pc = "mac"
    BY <1>5 DEF UpdateEventData, Owed
  <2> QED
    BY <2>1 DEF Ordered
<1>6. CASE OpenSocket
  <2>1. /\ UNCHANGED <<post_signals, postcodes, event_codes, wire>>
        /\ Owed' \subseteq Owed /\ post_pc = "socket"
    BY <1>6 DEF OpenSocket, Owed
  <2> QED
    BY <2>1 DEF Ordered
<1>7. ASSUME NEW col \in Collector, col \in Owed, Sent(col)
      PROVE  /\ Rising(wire[col])'
             /\ Before(wire'[col], postcodes) /\ Before(wire'[col], post_signals)
             /\ \A c \in Collector \ {col} : wire'[c] = wire[c]
  <2>1. /\ wire'[col] = wire[col] \o event_codes
        /\ \A c \in Collector \ {col} : wire'[c] = wire[c]
    BY <1>0, <1>7 DEF Sent, SequenceTypes
  <2>2. Codes(wire'[col]) = Codes(wire[col]) \cup Codes(event_codes)
    BY <1>0, <2>1, CodesConcat
  <2>3. Rising(wire'[col])
    BY <1>0, <1>7, <2>1, RisingConcat DEF Ordered
  <2>4. post_pc \in {"mac", "socket", "v6", "v4"}
    BY <1>7 DEF Owed
  <2> QED
    BY <2>1, <2>2, <2>3, <2>4 DEF Ordered, Before
<1>8. CASE SendV6
  <2>1. /\ UNCHANGED <<post_signals, postcodes, event_codes>>
        /\ Owed' = {"v4"} /\ post_pc = "v6" /\ "v6" \in Owed
        /\ Sent("v6") \/ UNCHANGED wire
    BY <1>8 DEF SendV6, Owed, Collector
  <2> QED
    BY <1>7, <2>1 DEF Ordered, Collector, Owed
<1>9. CASE SendV4
  <2>1. /\ UNCHANGED <<post_signals, postcodes, event_codes>>
        /\ Owed' = {} /\ "v4" \in Owed /\ post_pc' = "sleep"
        /\ Sent("v4") \/ UNCHANGED wire
    BY <1>9 DEF SendV4, Owed, Collector
  <2> QED
    BY <1>7, <2>1 DEF Ordered, Collector
<1>10. CASE WakeUp
  BY <1>10 DEF WakeUp, Ordered, Owed
<1>11. CASE RestartPostd
  BY <1>11, CodesNone DEF RestartPostd, Ordered, Before, Owed
<1>12. CASE UNCHANGED postVars
  BY <1>12 DEF postVars, Ordered, Owed
<1>13. CASE ChangeMac
  BY <1>13 DEF ChangeMac, Ordered, Owed
<1> QED
  BY <1>1, <1>2, <1>3, <1>4, <1>5, <1>6, <1>8, <1>9, <1>10, <1>11, <1>12, <1>13
     DEF PostNext, UdpPoll

LEMMA VanishStep ==
  PostTypeOK /\ NoCodeVanishes /\ [PostNext]_postVars => NoCodeVanishes'
<1> SUFFICES ASSUME PostTypeOK, NoCodeVanishes, [PostNext]_postVars
             PROVE  NoCodeVanishes'
  OBVIOUS
<1> USE DEF postBus, postSend, postOut, postMac
<1>0. /\ SequenceTypes
      /\ postcodes \in Seq(Nat) /\ event_codes \in Seq(Nat)
      /\ \A c \in Collector : wire[c] \in Seq(Nat)
  BY Positive DEF PostTypeOK, SequenceTypes
<1>1. CASE EmitCode
  <2>1. /\ post_seen + 1 \in Nat \ {NoCode}
        /\ 1..(post_seen + 1) = 1..post_seen \cup {post_seen + 1}
    BY <1>0 DEF SequenceTypes, NoCode
  <2>2. Codes(post_signals') = Codes(post_signals) \cup {post_seen + 1}
    BY <1>0, <1>1, <2>1, CodesAppend DEF EmitCode, SequenceTypes
  <2>3. post_seen' = post_seen + 1 /\ UNCHANGED <<Settled, InFlight, postcodes>>
    BY <1>1 DEF EmitCode, Settled, InFlight
  <2> QED
    BY <2>1, <2>2, <2>3 DEF NoCodeVanishes
<1>2. CASE EmitOther
  <2>1. NoCode \in Nat
    BY DEF NoCode
  <2>2. Codes(Append(post_signals, NoCode))
           = Codes(post_signals) \cup ({NoCode} \ {NoCode})
    BY <1>0, <2>1, CodesAppend DEF SequenceTypes
  <2>3. UNCHANGED <<post_seen, Settled, InFlight, postcodes>>
    BY <1>2 DEF EmitOther, Settled, InFlight
  <2> QED
    BY <1>2, <2>2, <2>3 DEF EmitOther, NoCodeVanishes
<1>3. CASE HandleSignal
  <2>1. Codes(post_signals) = Codes(post_signals')
                                \cup ({Head(post_signals)} \ {NoCode})
    BY <1>0, <1>3, CodesTail DEF HandleSignal, SequenceTypes
  <2>2. UNCHANGED <<post_seen, Settled, InFlight>>
    BY <1>3 DEF HandleSignal, Settled, InFlight
  <2>3. Codes(postcodes') = Codes(postcodes)
                              \cup ({Head(post_signals)} \ {NoCode})
    <3>1. Head(post_signals) \in Nat
      BY <1>0, <1>3 DEF HandleSignal, SequenceTypes
    <3>2. CASE Head(post_signals) = NoCode
      BY <1>3, <3>2 DEF HandleSignal
    <3>3. CASE Head(post_signals) # NoCode
      BY <1>0, <1>3, <3>1, <3>3, CodesAppend DEF HandleSignal
    <3> QED
      BY <3>2, <3>3
  <2> QED
    BY <2>1, <2>2, <2>3 DEF NoCodeVanishes
<1>4. CASE Drain
  <2>1. /\ InFlight = {} /\ InFlight' = Codes(postcodes)
        /\ UNCHANGED <<post_seen, post_signals, Settled>>
        /\ Codes(postcodes') = {}
    BY <1>4, CodesNone DEF Drain, InFlight, Settled
  <2> QED
    BY <2>1 DEF NoCodeVanishes
<1>5. CASE UpdateEventData \/ OpenSocket \/ WakeUp
  <2>1. InFlight' = InFlight
    BY <1>5, CodesNone DEF UpdateEventData, OpenSocket, WakeUp, InFlight
  <2>2. UNCHANGED <<post_seen, post_signals, postcodes, Settled>>
    BY <1>5 DEF UpdateEventData, OpenSocket, WakeUp, Settled
  <2> QED
    BY <2>1, <2>2 DEF NoCodeVanishes
<1>6. ASSUME NEW col \in Collector, Sent(col)
      PROVE  /\ Codes(wire'[col]) = Codes(wire[col]) \cup Codes(event_codes)
             /\ \A c \in Collector \ {col} : wire'[c] = wire[c]
  <2>1. /\ wire'[col] = wire[col] \o event_codes
        /\ \A c \in Collector \ {col} : wire'[c] = wire[c]
    BY <1>0, <1>6 DEF Sent, SequenceTypes
  <2> QED
    BY <1>0, <2>1, CodesConcat
<1>7. CASE SendV6
  <2>1. /\ InFlight' = Codes(event_codes) /\ InFlight = Codes(event_codes)
        /\ UNCHANGED <<post_seen, post_signals, postcodes, lost_codes>>
        /\ Sent("v6") \/ UNCHANGED wire
    BY <1>7 DEF SendV6, InFlight
  <2>2. Settled' = Settled \/ Settled' = Settled \cup Codes(event_codes)
    BY <1>6, <2>1 DEF Settled, Collector
  <2> QED
    BY <2>1, <2>2 DEF NoCodeVanishes
<1>8. CASE SendV4
  <2>1. /\ InFlight' = {} /\ InFlight = Codes(event_codes)
        /\ UNCHANGED <<post_seen, post_signals, postcodes>>
    BY <1>8 DEF SendV4, InFlight
  <2>2. Settled' = Settled \cup Codes(event_codes)
    <3>1. CASE Sent("v4") /\ UNCHANGED lost_codes
      BY <1>6, <3>1 DEF Settled, Collector
    <3>2. CASE /\ UNCHANGED wire
               /\ lost_codes' = lost_codes
                    \cup (Codes(event_codes) \ Codes(wire["v6"]))
      BY <3>2 DEF Settled
    <3> QED
      BY <1>8, <3>1, <3>2 DEF SendV4
  <2> QED
    BY <2>1, <2>2 DEF NoCodeVanishes
<1>9. CASE RestartPostd
  <2>1. /\ InFlight' = {} /\ Codes(postcodes') = {}
        /\ Codes(post_signals') = {} /\ UNCHANGED <<post_seen, wire>>
    BY <1>9, CodesNone DEF RestartPostd, InFlight
  <2>2. Settled' = 1..post_seen
    BY <1>9, <2>1 DEF RestartPostd, Settled, NoCodeVanishes
  <2> QED
    BY <2>1, <2>2 DEF NoCodeVanishes
<1>10. CASE ChangeMac \/ UNCHANGED postVars
  BY <1>10 DEF ChangeMac, postVars, NoCodeVanishes, Settled, InFlight
<1> QED
  BY <1>1, <1>2, <1>3, <1>4, <1>5, <1>7, <1>8, <1>9, <1>10
     DEF PostNext, UdpPoll

-------------------------------------------------------------------------------
(* PostIInv holds in every reachable state of nemora-postd, for any number *)
(* of codes, of pending signals and of addresses.                          *)
THEOREM PostInvariance == PostSpec => []PostIInv
<1>1. PostIInv /\ [PostNext]_postVars => PostIInv'
  <2> SUFFICES ASSUME PostIInv, [PostNext]_postVars PROVE PostIInv'
    OBVIOUS
  <2>1. PostTypeOK /\ Ordered /\ NoCodeVanishes /\ AddressOfThisRound
          /\ bmc_mac \in macs_since
    BY DEF PostIInv
  <2>2. PostTypeOK'
    BY <2>1, TypeStep
  <2>3. Ordered'
    BY <2>1, OrderedStep
  <2>4. NoCodeVanishes'
    BY <2>1, VanishStep
  <2>5. AddressOfThisRound' /\ (bmc_mac \in macs_since)'
    BY <2>1, AddressStep
  <2> QED
    BY <2>2, <2>3, <2>4, <2>5 DEF PostIInv
<1> QED
  BY PostInitInvariant, <1>1, PTL DEF PostSpec

(* No code vanishes between the thread that collects and the thread that   *)
(* sends: what DrainPostcodes() takes is what PushPostcode() put there.    *)
THEOREM PostNothingVanishes == PostSpec => []NoCodeVanishes
<1>1. PostIInv => NoCodeVanishes
  BY DEF PostIInv
<1> QED
  BY <1>1, PostInvariance, PTL

(* Each collector is sent a code at most once and in the order of          *)
(* emission.                                                               *)
THEOREM PostSentOnceInOrder == PostSpec => []SentOnceInOrder
<1>1. PostIInv => SentOnceInOrder
  <2> SUFFICES ASSUME PostIInv, NEW c \in Collector,
                      NEW i \in DOMAIN wire[c], NEW j \in DOMAIN wire[c], i < j
               PROVE  wire[c][i] < wire[c][j]
    BY DEF SentOnceInOrder
  <2>1. wire[c] \in Seq(Nat \ {NoCode}) /\ Rising(wire[c])
    BY DEF PostIInv, PostTypeOK, Ordered
  <2>2. wire[c][i] # NoCode /\ wire[c][j] # NoCode
    BY <2>1
  <2> QED
    BY <2>1, <2>2 DEF Rising
<1> QED
  BY <1>1, PostInvariance, PTL

(* A datagram whose address was read carries one of its own round.         *)
THEOREM PostAddress == PostSpec => []AddressOfThisRound
<1>1. PostIInv => AddressOfThisRound
  BY DEF PostIInv
<1> QED
  BY <1>1, PostInvariance, PTL
===============================================================================
