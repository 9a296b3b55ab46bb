--------------------------- MODULE TelLinkProofs ----------------------------
(***************************************************************************)
(* Proofs about the telemetry link, for every radix, payload limit and     *)
(* checksum function, every set of commands and every number of errors of  *)
(* the line.                                                               *)
(***************************************************************************)
EXTENDS TelLink, TLAPS

-----------------------------------------------------------------------------
(* Words and bytes.                                                        *)

LEMMA Product ==
  ASSUME NEW a \in Nat, NEW b \in Nat, NEW c \in Nat, a <= b
  PROVE  a * c \in Nat /\ b * c \in Nat /\ a * c <= b * c
OBVIOUS

LEMMA Bytes == Radix \in Nat \ {0} /\ 0 \in Byte /\ 0 \in Word /\ MaxPayload \in Nat
<1>1. Radix \in Nat \ {0} /\ MaxPayload \in Word
  BY FrameAssumption
<1>2. Radix * Radix \in Nat /\ Radix * Radix >= 1
  <2>1. 1 * Radix <= Radix * Radix /\ Radix * Radix \in Nat
    BY <1>1, Product
  <2> QED BY <1>1, <2>1
<1> QED BY <1>1, <1>2 DEF Byte, Word

(* A word fits what two bytes make of it.                                  *)
LEMMA TwoBytes ==
  ASSUME NEW hi \in Byte, NEW lo \in Byte
  PROVE  hi * Radix \in Word /\ hi * Radix + lo \in Word
<1>1. Radix \in Nat /\ hi \in Nat /\ hi <= Radix - 1 /\ lo \in Nat /\ lo <= Radix - 1
  BY Bytes DEF Byte
<1>2. hi * Radix \in Nat /\ hi * Radix <= (Radix - 1) * Radix
  BY <1>1, Product
<1>3. (Radix - 1) * Radix = Radix * Radix - Radix
  BY <1>1
<1> QED BY <1>1, <1>2, <1>3 DEF Word

LEMMA HighLow ==
  ASSUME NEW word \in Word
  PROVE  High(word) \in Byte /\ Low(word) \in Byte /\ High(word) * Radix + Low(word) = word
<1>1. Radix \in Nat \ {0} /\ word \in Nat /\ word <= Radix * Radix - 1
  BY Bytes DEF Word
<1>2. /\ Low(word) \in 0 .. Radix - 1 /\ High(word) \in Nat
      /\ word = Radix * High(word) + Low(word)
  BY <1>1 DEF High, Low
<1>3. High(word) < Radix
  <2>1. SUFFICES ASSUME High(word) >= Radix PROVE FALSE
    BY <1>1, <1>2
  <2>2. Radix * Radix <= High(word) * Radix
    BY <1>1, <1>2, <2>1, Product
  <2> QED BY <1>1, <1>2, <2>2
<1> QED BY <1>1, <1>2, <1>3 DEF Byte

LEMMA Concatenation ==
  ASSUME NEW S, NEW s \in Seq(S), NEW t \in Seq(S)
  PROVE  /\ s \o t \in Seq(S) /\ Len(s \o t) = Len(s) + Len(t)
         /\ \A i \in 1 .. Len(s) : (s \o t)[i] = s[i]
         /\ \A i \in 1 .. Len(t) : (s \o t)[Len(s) + i] = t[i]
OBVIOUS

(* The bytes of a frame.                                                   *)
LEMMA FrameBytes ==
  ASSUME NEW c \in Commands
  PROVE  /\ c \in Seq(Byte) /\ Len(c) \in Nat /\ Len(c) <= MaxPayload
         /\ Len(c) \in Word /\ Crc16(c) \in Word
         /\ Encode(c) \in Seq(Byte) /\ Len(Encode(c)) = Len(c) + 6
         /\ Encode(c)[1] = Sync1 /\ Encode(c)[2] = Sync2
         /\ Encode(c)[3] = High(Len(c)) /\ Encode(c)[4] = Low(Len(c))
         /\ \A i \in 1 .. Len(c) : Encode(c)[i + 4] = c[i]
         /\ Encode(c)[Len(c) + 5] = High(Crc16(c))
         /\ Encode(c)[Len(c) + 6] = Low(Crc16(c))
<1>1. c \in Seq(Byte) /\ Len(c) \in Nat /\ Len(c) <= MaxPayload
  BY LinkAssumption DEF Encodable
<1>2. Len(c) \in Word
  BY <1>1, FrameAssumption DEF Word
<1>3. Crc16(c) \in Word
  <2>1. Len(c) \in 0 .. MaxPayload /\ c \in [1 .. Len(c) -> Byte]
    BY <1>1, Bytes
  <2> QED BY <2>1, FrameAssumption
<1>4. /\ Sync1 \in Byte /\ Sync2 \in Byte
      /\ High(Len(c)) \in Byte /\ Low(Len(c)) \in Byte
      /\ High(Crc16(c)) \in Byte /\ Low(Crc16(c)) \in Byte
  BY <1>2, <1>3, HighLow, FrameAssumption
<1> DEFINE head == <<Sync1, Sync2, High(Len(c)), Low(Len(c))>>
           crc == <<High(Crc16(c)), Low(Crc16(c))>>
<1>5. /\ head \in Seq(Byte) /\ Len(head) = 4
      /\ head[1] = Sync1 /\ head[2] = Sync2
      /\ head[3] = High(Len(c)) /\ head[4] = Low(Len(c))
      /\ crc \in Seq(Byte) /\ Len(crc) = 2
      /\ crc[1] = High(Crc16(c)) /\ crc[2] = Low(Crc16(c))
  BY <1>4
<1>6. Encode(c) = head \o c \o crc
  BY DEF Encode
<1> HIDE DEF head, crc
<1>7. /\ head \o c \in Seq(Byte) /\ Len(head \o c) = Len(c) + 4
      /\ \A i \in 1 .. 4 : (head \o c)[i] = head[i]
      /\ \A i \in 1 .. Len(c) : (head \o c)[4 + i] = c[i]
  <2>1. /\ head \o c \in Seq(Byte) /\ Len(head \o c) = Len(head) + Len(c)
        /\ \A i \in 1 .. Len(head) : (head \o c)[i] = head[i]
        /\ \A i \in 1 .. Len(c) : (head \o c)[Len(head) + i] = c[i]
    <3>1. head \in Seq(Byte) /\ c \in Seq(Byte)
      BY <1>1, <1>5
    <3> QED BY <3>1, Concatenation
  <2>2. Len(head) = 4 /\ Len(c) \in Nat
    BY <1>1, <1>5
  <2>3. Len(head) + Len(c) = Len(c) + 4
    BY <2>2
  <2> QED BY <2>1, <2>2, <2>3
<1>8. /\ Encode(c) \in Seq(Byte) /\ Len(Encode(c)) = Len(c) + 6
      /\ \A i \in 1 .. Len(c) + 4 : Encode(c)[i] = (head \o c)[i]
      /\ Encode(c)[Len(c) + 5] = crc[1] /\ Encode(c)[Len(c) + 6] = crc[2]
  <2> DEFINE front == head \o c
  <2>1. front \in Seq(Byte) /\ Len(front) = Len(c) + 4 /\ Encode(c) = front \o crc
    BY <1>6, <1>7
  <2> HIDE DEF front
  <2>2. /\ Encode(c) \in Seq(Byte) /\ Len(Encode(c)) = Len(c) + 6
        /\ \A i \in 1 .. Len(c) + 4 : Encode(c)[i] = front[i]
        /\ \A i \in 1 .. 2 : Encode(c)[Len(c) + 4 + i] = crc[i]
    <3>1. /\ front \o crc \in Seq(Byte) /\ Len(front \o crc) = Len(front) + Len(crc)
          /\ \A i \in 1 .. Len(front) : (front \o crc)[i] = front[i]
          /\ \A i \in 1 .. Len(crc) : (front \o crc)[Len(front) + i] = crc[i]
      <4>1. front \in Seq(Byte) /\ crc \in Seq(Byte)
        BY <1>5, <2>1
      <4> QED BY <4>1, Concatenation
    <3>2. Len(front) = Len(c) + 4 /\ Len(crc) = 2 /\ Len(c) \in Nat
      BY <1>1, <1>5, <2>1
    <3>3. Len(front) + Len(crc) = Len(c) + 6
      BY <3>2
    <3>4. Encode(c) = front \o crc
      BY <2>1
    <3> QED BY <3>1, <3>2, <3>3, <3>4
  <2>3. /\ Encode(c)[Len(c) + 5] = crc[1] /\ Encode(c)[Len(c) + 6] = crc[2]
    <3>1. Len(c) + 4 + 1 = Len(c) + 5 /\ Len(c) + 4 + 2 = Len(c) + 6
      BY <1>1
    <3> QED BY <2>2, <3>1
  <2> QED BY <2>2, <2>3 DEF front
<1>9. \A i \in 1 .. 4 : Encode(c)[i] = head[i]
  BY <1>1, <1>7, <1>8
<1>10. \A i \in 1 .. Len(c) : Encode(c)[i + 4] = c[i]
  <2> SUFFICES ASSUME NEW i \in 1 .. Len(c) PROVE Encode(c)[i + 4] = c[i]
    OBVIOUS
  <2>1. i + 4 \in 1 .. Len(c) + 4 /\ i + 4 = 4 + i
    BY <1>1
  <2> QED BY <1>7, <1>8, <2>1
<1> QED BY <1>1, <1>2, <1>3, <1>5, <1>8, <1>9, <1>10

-----------------------------------------------------------------------------
(* The decoder, whatever bytes it is fed.                                  *)

(* The half of a length or of a checksum that has been received leaves     *)
(* room for the other, and a checksum is only awaited for a payload that   *)
(* fits the buffer.                                                        *)
DecoderInv ==
  /\ dec \in Decoder /\ accepted \in BOOLEAN
  /\ StoreInBounds
  /\ dec.state = "LEN_LO" => \E b \in Byte : dec.payload_len = b * Radix
  /\ dec.state = "CRC_LO" => \E b \in Byte : dec.crc_received = b * Radix
  /\ dec.state \in {"CRC_HI", "CRC_LO"} => dec.payload_len <= MaxPayload
  /\ accepted => dec.state = "SYNC1" /\ dec.payload_len <= MaxPayload

LEMMA FeedOK ==
  ASSUME DecoderInv, NEW byte \in Byte, Feed(byte) PROVE DecoderInv'
<1> USE DEF DecoderInv, StoreInBounds, Decoder, DecodeState, Continue
<1>1. /\ 0 \in Word /\ 0 \in Byte /\ MaxPayload \in Nat /\ Word \subseteq Nat
      /\ byte * Radix \in Word
  BY Bytes, TwoBytes DEF Word
<1>2. CASE AwaitSync1(byte)
  BY <1>1, <1>2 DEF AwaitSync1
<1>3. CASE AwaitSync2(byte)
  BY <1>1, <1>3 DEF AwaitSync2
<1>4. CASE TakeLenHigh(byte)
  BY <1>1, <1>4 DEF TakeLenHigh
<1>5. CASE TakeLenLow(byte)
  <2> DEFINE len == dec.payload_len + byte
  <2>1. len \in Word /\ len \in Nat
    <3>1. PICK b \in Byte : dec.payload_len = b * Radix
      BY <1>5 DEF TakeLenLow
    <3> QED BY <1>1, <3>1, TwoBytes
  <2>2. /\ dec.state = "LEN_LO" /\ ~accepted'
        /\ dec' = [dec EXCEPT
                     !.payload_len = len,
                     !.payload_idx = IF len \in 1 .. MaxPayload THEN 0 ELSE @,
                     !.state = IF len > MaxPayload THEN "SYNC1"
                               ELSE IF len = 0 THEN "CRC_HI" ELSE "PAYLOAD"]
    BY <1>5 DEF TakeLenLow
  <2> HIDE DEF len
  <2>3. /\ dec' = [state |-> dec'.state, payload |-> dec.payload, payload_len |-> len,
                   payload_idx |-> dec'.payload_idx, crc_received |-> dec.crc_received]
        /\ dec'.state = IF len > MaxPayload THEN "SYNC1"
                        ELSE IF len = 0 THEN "CRC_HI" ELSE "PAYLOAD"
        /\ dec'.payload_idx = IF len \in 1 .. MaxPayload THEN 0 ELSE dec.payload_idx
    BY <2>2
  <2>4. dec'.state \in DecodeState /\ dec'.payload_idx \in 0 .. MaxPayload
    BY <1>1, <2>3
  <2>5. dec' \in Decoder
    BY <2>1, <2>3, <2>4
  <2>6. dec'.payload_len = len
    BY <2>3
  <2>7. /\ dec'.state \notin {"LEN_LO", "CRC_LO"} /\ accepted' = FALSE
        /\ dec'.state \in {"PAYLOAD", "CRC_HI"} => dec'.payload_len <= MaxPayload
        /\ dec'.state = "PAYLOAD" => dec'.payload_idx < dec'.payload_len
    <3>1. len \in Nat /\ MaxPayload \in Nat /\ ~accepted' /\ accepted' \in BOOLEAN
      BY <1>1, <2>1, <1>5 DEF TakeLenLow
    <3> QED BY <3>1, <2>3, <2>6, <1>5 DEF TakeLenLow
  <2> HIDE DEF Decoder, DecodeState
  <2> QED BY <2>5, <2>7
<1>6. CASE TakePayload(byte)
  <2>1. /\ dec.state = "PAYLOAD" /\ ~accepted'
        /\ dec' = [dec EXCEPT !.payload = [@ EXCEPT ![dec.payload_idx] = byte],
                              !.payload_idx = @ + 1,
                              !.state = IF dec.payload_idx + 1 >= dec.payload_len
                                        THEN "CRC_HI" ELSE "PAYLOAD"]
    BY <1>6 DEF TakePayload
  <2>2. /\ dec'.payload = [dec.payload EXCEPT ![dec.payload_idx] = byte]
        /\ dec'.payload_len = dec.payload_len /\ dec'.crc_received = dec.crc_received
        /\ dec'.payload_idx = dec.payload_idx + 1
        /\ dec'.state = IF dec.payload_idx + 1 >= dec.payload_len
                        THEN "CRC_HI" ELSE "PAYLOAD"
        /\ dec' = [state |-> dec'.state, payload |-> dec'.payload,
                   payload_len |-> dec.payload_len, payload_idx |-> dec'.payload_idx,
                   crc_received |-> dec.crc_received]
    BY <2>1
  <2>3. /\ dec.payload_idx \in Nat /\ dec.payload_len \in Nat
        /\ dec.payload_idx < dec.payload_len /\ dec.payload_len <= MaxPayload
    BY <1>1, <2>1
  <2>4. dec'.payload \in [0 .. MaxPayload - 1 -> Byte]
    BY <2>2
  <2>5. dec'.payload_idx \in 0 .. MaxPayload /\ dec'.state \in DecodeState
    BY <1>1, <2>2, <2>3
  <2>6. dec' \in Decoder
    BY <2>2, <2>4, <2>5
  <2>7. /\ dec'.state \in {"PAYLOAD", "CRC_HI"} /\ dec'.payload_len <= MaxPayload
        /\ dec'.state = "PAYLOAD" => dec'.payload_idx < dec'.payload_len
    BY <2>2, <2>3
  <2>8. accepted' = FALSE
    BY <1>6 DEF TakePayload
  <2> HIDE DEF Decoder, DecodeState
  <2> QED BY <2>6, <2>7, <2>8
<1>7. CASE TakeCrcHigh(byte)
  BY <1>1, <1>7 DEF TakeCrcHigh
<1>8. CASE TakeCrcLow(byte)
  <2>1. dec.crc_received + byte \in Word
    <3>1. PICK b \in Byte : dec.crc_received = b * Radix
      BY <1>8 DEF TakeCrcLow
    <3> QED BY <3>1, TwoBytes
  <2> QED BY <1>1, <1>8, <2>1 DEF TakeCrcLow
<1> QED BY <1>2, <1>3, <1>4, <1>5, <1>6, <1>7, <1>8 DEF Feed

-----------------------------------------------------------------------------
(* Where the payload comes from.                                           *)

(* The first k bytes of p are those received before the last few.          *)
Holds(p, r, k, few) ==
  /\ k + few <= Len(r)
  /\ \A i \in 0 .. k - 1 : p[i] = r[Len(r) - few - k + 1 + i]

RecentTyped == recent \in Seq(Byte) /\ Len(recent) <= MaxPayload + 2

FreshInv ==
  /\ dec.state = "PAYLOAD" => Holds(dec.payload, recent, dec.payload_idx, 0)
  /\ dec.state = "CRC_HI" => Holds(dec.payload, recent, dec.payload_len, 0)
  /\ dec.state = "CRC_LO" => Holds(dec.payload, recent, dec.payload_len, 1)
  /\ accepted => Holds(dec.payload, recent, dec.payload_len, 2)

Remembered(r, byte) ==
  IF Len(r) = MaxPayload + 2 THEN Append(Tail(r), byte) ELSE Append(r, byte)

LEMMA RememberedBytes ==
  ASSUME NEW r \in Seq(Byte), Len(r) <= MaxPayload + 2, NEW byte \in Byte,
         NEW r2, r2 = Remembered(r, byte)
  PROVE  /\ r2 \in Seq(Byte) /\ Len(r2) <= MaxPayload + 2
         /\ Len(r2) = IF Len(r) = MaxPayload + 2 THEN MaxPayload + 2 ELSE Len(r) + 1
         /\ r2[Len(r2)] = byte
         /\ \A j \in 1 .. Len(r2) - 1 : r2[j] = r[j + Len(r) + 1 - Len(r2)]
<1>1. Len(r) \in Nat /\ MaxPayload \in Nat
  BY Bytes
<1>2. CASE Len(r) = MaxPayload + 2
  <2>1. r2 = Append(Tail(r), byte)
    BY <1>2 DEF Remembered
  <2>2. /\ Tail(r) \in Seq(Byte) /\ Len(Tail(r)) = Len(r) - 1
        /\ \A j \in 1 .. Len(r) - 1 : Tail(r)[j] = r[j + 1]
    BY <1>1, <1>2
  <2>3. /\ r2 \in Seq(Byte) /\ Len(r2) = Len(r) /\ r2[Len(r2)] = byte
        /\ \A j \in 1 .. Len(r) - 1 : r2[j] = Tail(r)[j]
    BY <1>1, <1>2, <2>1, <2>2
  <2> QED BY <1>1, <1>2, <2>2, <2>3
<1>3. CASE Len(r) # MaxPayload + 2
  <2>1. r2 = Append(r, byte)
    BY <1>3 DEF Remembered
  <2>2. /\ r2 \in Seq(Byte) /\ Len(r2) = Len(r) + 1 /\ r2[Len(r2)] = byte
        /\ \A j \in 1 .. Len(r) : r2[j] = r[j]
    BY <1>1, <2>1
  <2> QED BY <1>1, <1>3, <2>2
<1> QED BY <1>2, <1>3

(* One more byte after the payload.                                        *)
LEMMA OneLater ==
  ASSUME NEW r \in Seq(Byte), Len(r) <= MaxPayload + 2, NEW byte \in Byte,
         NEW r2, r2 = Remembered(r, byte), NEW k \in Nat, NEW few \in Nat, NEW p,
         k + few <= MaxPayload + 1, Holds(p, r, k, few)
  PROVE  Holds(p, r2, k, few + 1)
<1>1. Len(r) \in Nat /\ MaxPayload \in Nat /\ k + few <= Len(r)
  BY Bytes DEF Holds
<1>2. /\ Len(r2) \in Nat /\ Len(r2) <= MaxPayload + 2
      /\ Len(r2) = IF Len(r) = MaxPayload + 2 THEN MaxPayload + 2 ELSE Len(r) + 1
      /\ \A j \in 1 .. Len(r2) - 1 : r2[j] = r[j + Len(r) + 1 - Len(r2)]
  <2>1. /\ r2 \in Seq(Byte) /\ Len(r2) <= MaxPayload + 2
        /\ Len(r2) = IF Len(r) = MaxPayload + 2 THEN MaxPayload + 2 ELSE Len(r) + 1
    BY RememberedBytes
  <2>2. Len(r2) \in Nat
    BY <2>1
  <2>3. ASSUME NEW j \in 1 .. Len(r2) - 1
        PROVE  r2[j] = r[j + Len(r) + 1 - Len(r2)]
    BY RememberedBytes, ZenonT(40)
  <2> QED BY <2>1, <2>2, <2>3
<1>3. k + (few + 1) <= Len(r2)
  BY <1>1, <1>2
<1>4. ASSUME NEW i \in 0 .. k - 1 PROVE p[i] = r2[Len(r2) - (few + 1) - k + 1 + i]
  <2> DEFINE j == Len(r2) - (few + 1) - k + 1 + i
  <2>1. j \in 1 .. Len(r2) - 1 /\ j + Len(r) + 1 - Len(r2) = Len(r) - few - k + 1 + i
    <3>1. /\ Len(r) \in Nat /\ Len(r2) \in Nat /\ k + (few + 1) <= Len(r2)
          /\ i \in Int /\ 0 <= i /\ i <= k - 1
      BY <1>1, <1>2, <1>3
    <3> QED BY <3>1
  <2>2. r2[j] = r[Len(r) - few - k + 1 + i]
    <3> HIDE DEF j
    <3> QED BY <1>2, <2>1
  <2>3. p[i] = r[Len(r) - few - k + 1 + i]
    BY DEF Holds
  <2> QED BY <2>2, <2>3
<1> QED BY <1>3, <1>4 DEF Holds

(* One more byte of the payload.                                           *)
LEMMA OneStored ==
  ASSUME NEW r \in Seq(Byte), Len(r) <= MaxPayload + 2, NEW byte \in Byte,
         NEW r2, r2 = Remembered(r, byte), NEW k \in 0 .. MaxPayload - 1,
         NEW p \in [0 .. MaxPayload - 1 -> Byte], NEW q, q = [p EXCEPT ![k] = byte],
         Holds(p, r, k, 0)
  PROVE  Holds(q, r2, k + 1, 0)
<1>1. Len(r) \in Nat /\ MaxPayload \in Nat /\ k \in Nat /\ k + 0 <= MaxPayload + 1
  BY Bytes
<1>2. Holds(p, r2, k, 0 + 1)
  BY <1>1, OneLater
<1>3. /\ Len(r2) \in Nat /\ r2[Len(r2)] = byte
  BY RememberedBytes
<1>4. k + 1 <= Len(r2) /\ \A i \in 0 .. k - 1 : p[i] = r2[Len(r2) - 1 - k + 1 + i]
  BY <1>1, <1>2 DEF Holds
<1>5. ASSUME NEW i \in 0 .. k PROVE q[i] = r2[Len(r2) - 0 - (k + 1) + 1 + i]
  <2>1. CASE i = k
    <3>1. q[i] = byte /\ Len(r2) - 0 - (k + 1) + 1 + i = Len(r2)
      BY <1>1, <1>3, <2>1
    <3> QED BY <1>3, <3>1
  <2>2. CASE i # k
    <3>1. i \in 0 .. k - 1 /\ q[i] = p[i]
      BY <1>1, <2>2
    <3>2. Len(r2) - 1 - k + 1 + i = Len(r2) - 0 - (k + 1) + 1 + i
      BY <1>1, <1>3
    <3> QED BY <1>4, <3>1, <3>2
  <2> QED BY <2>1, <2>2
<1>6. k + 1 - 1 = k /\ k + 1 + 0 <= Len(r2)
  BY <1>1, <1>4
<1> QED BY <1>5, <1>6 DEF Holds

LEMMA FreshOK ==
  ASSUME DecoderInv, FreshInv, RecentTyped, NEW byte \in Byte, Feed(byte),
         recent' = Remembered(recent, byte)
  PROVE  FreshInv' /\ RecentTyped'
<1> USE DEF Decoder, Continue
<1>1. /\ dec \in Decoder /\ accepted \in BOOLEAN
      /\ recent \in Seq(Byte) /\ Len(recent) <= MaxPayload + 2
      /\ MaxPayload \in Nat /\ Word \subseteq Nat
      /\ dec.payload_idx \in 0 .. MaxPayload /\ dec.payload_len \in Nat
      /\ dec.payload \in [0 .. MaxPayload - 1 -> Byte]
  BY Bytes DEF DecoderInv, RecentTyped, Word
<1>2. RecentTyped'
  BY <1>1, RememberedBytes DEF RecentTyped
<1>3. ASSUME dec'.state \in {"SYNC1", "SYNC2", "LEN_HI", "LEN_LO"}, ~accepted'
      PROVE  FreshInv'
  BY <1>3 DEF FreshInv
<1>4. CASE AwaitSync1(byte)
  <2>1. dec'.state \in {"SYNC1", "SYNC2"} /\ ~accepted'
    BY <1>1, <1>4 DEF AwaitSync1
  <2> QED BY <1>2, <1>3, <2>1
<1>5. CASE AwaitSync2(byte)
  <2>1. dec'.state \in {"SYNC1", "LEN_HI"} /\ ~accepted'
    BY <1>1, <1>5 DEF AwaitSync2
  <2> QED BY <1>2, <1>3, <2>1
<1>6. CASE TakeLenHigh(byte)
  <2>1. dec'.state = "LEN_LO" /\ ~accepted'
    BY <1>1, <1>6 DEF TakeLenHigh
  <2> QED BY <1>2, <1>3, <2>1
<1>7. CASE TakeLenLow(byte)
  <2> DEFINE len == dec.payload_len + byte
  <2>1. /\ dec'.state = IF len > MaxPayload THEN "SYNC1"
                        ELSE IF len = 0 THEN "CRC_HI" ELSE "PAYLOAD"
        /\ dec'.payload_len = len /\ dec'.payload = dec.payload
        /\ dec'.payload_idx = IF len \in 1 .. MaxPayload THEN 0 ELSE dec.payload_idx
        /\ ~accepted'
    BY <1>1, <1>7 DEF TakeLenLow
  <2>2. len \in Nat
    BY <1>1 DEF Byte
  <2>3. Len(recent') \in Nat
    BY <1>2 DEF RecentTyped
  <2>4. Holds(dec'.payload, recent', 0, 0)
    BY <2>3 DEF Holds
  <2> HIDE DEF len
  <2>5. /\ dec'.state = "PAYLOAD" => dec'.payload_idx = 0
        /\ dec'.state = "CRC_HI" => dec'.payload_len = 0
        /\ dec'.state # "CRC_LO" /\ ~accepted'
    BY <1>1, <2>1, <2>2
  <2> QED BY <1>2, <2>4, <2>5 DEF FreshInv
<1>8. CASE TakePayload(byte)
  <2>1. /\ dec.state = "PAYLOAD" /\ ~accepted'
        /\ dec'.payload = [dec.payload EXCEPT ![dec.payload_idx] = byte]
        /\ dec'.payload_len = dec.payload_len
        /\ dec'.payload_idx = dec.payload_idx + 1
        /\ dec'.state = IF dec.payload_idx + 1 >= dec.payload_len
                        THEN "CRC_HI" ELSE "PAYLOAD"
    BY <1>1, <1>8 DEF TakePayload
  <2>2. dec.payload_idx < dec.payload_len /\ dec.payload_len <= MaxPayload
    BY <2>1 DEF DecoderInv, StoreInBounds
  <2>3. dec.payload_idx \in 0 .. MaxPayload - 1
    BY <1>1, <2>2
  <2>4. Holds(dec'.payload, recent', dec.payload_idx + 1, 0)
    <3>1. Holds(dec.payload, recent, dec.payload_idx, 0)
      BY <2>1 DEF FreshInv
    <3> DEFINE p == dec.payload  k == dec.payload_idx  q == dec'.payload
    <3>2. /\ p \in [0 .. MaxPayload - 1 -> Byte] /\ k \in 0 .. MaxPayload - 1
          /\ q = [p EXCEPT ![k] = byte] /\ Holds(p, recent, k, 0)
      BY <1>1, <2>1, <2>3, <3>1
    <3> HIDE DEF p, k, q
    <3>3. Holds(q, recent', k + 1, 0)
      BY <1>1, <3>2, OneStored
    <3> QED BY <3>3 DEF k, q
  <2>5. dec'.state = "CRC_HI" => dec'.payload_len = dec.payload_idx + 1
    BY <1>1, <2>1, <2>2
  <2>6. dec'.state # "CRC_LO"
    BY <2>1
  <2> QED BY <1>2, <2>1, <2>4, <2>5, <2>6 DEF FreshInv
<1>9. CASE TakeCrcHigh(byte)
  <2>1. /\ dec.state = "CRC_HI" /\ dec'.state = "CRC_LO" /\ ~accepted'
        /\ dec'.payload = dec.payload /\ dec'.payload_len = dec.payload_len
    BY <1>1, <1>9 DEF TakeCrcHigh
  <2>2. Holds(dec.payload, recent, dec.payload_len, 0) /\ dec.payload_len <= MaxPayload
    BY <2>1 DEF FreshInv, DecoderInv
  <2>3. Holds(dec.payload, recent', dec.payload_len, 0 + 1)
    BY <1>1, <2>2, OneLater
  <2> QED BY <1>2, <2>1, <2>3 DEF FreshInv
<1>10. CASE TakeCrcLow(byte)
  <2>1. /\ dec.state = "CRC_LO" /\ dec'.state = "SYNC1"
        /\ dec'.payload = dec.payload /\ dec'.payload_len = dec.payload_len
    BY <1>1, <1>10 DEF TakeCrcLow
  <2>2. Holds(dec.payload, recent, dec.payload_len, 1) /\ dec.payload_len <= MaxPayload
    BY <2>1 DEF FreshInv, DecoderInv
  <2>3. Holds(dec.payload, recent', dec.payload_len, 1 + 1)
    BY <1>1, <2>2, OneLater
  <2> QED BY <1>2, <2>1, <2>3 DEF FreshInv
<1> QED BY <1>4, <1>5, <1>6, <1>7, <1>8, <1>9, <1>10 DEF Feed

LEMMA FreshIsFresh ==
  ASSUME DecoderInv, FreshInv, RecentTyped PROVE PayloadFresh
<1> SUFFICES ASSUME accepted
             PROVE  Payload(dec) =
                      SubSeq(recent, Len(recent) - 1 - dec.payload_len, Len(recent) - 2)
  BY DEF PayloadFresh
<1> DEFINE n == dec.payload_len
<1>1. /\ n \in Nat /\ recent \in Seq(Byte) /\ Len(recent) \in Nat
      /\ Holds(dec.payload, recent, n, 2)
  BY DEF DecoderInv, FreshInv, RecentTyped, Decoder, Word
<1>2. n + 2 <= Len(recent)
  BY <1>1 DEF Holds
<1> DEFINE last == SubSeq(recent, Len(recent) - 1 - n, Len(recent) - 2)
<1>3. last = [i \in 1 .. n |-> recent[Len(recent) - 1 - n + i - 1]]
  <2> HIDE DEF n
  <2>1. (Len(recent) - 2) - (Len(recent) - 1 - n) + 1 = n
    BY <1>1
  <2> QED BY <1>1, <1>2, <2>1
<1>4. \A i \in 1 .. n : dec.payload[i - 1] = recent[Len(recent) - 1 - n + i - 1]
  <2> SUFFICES ASSUME NEW i \in 1 .. n
               PROVE  dec.payload[i - 1] = recent[Len(recent) - 1 - n + i - 1]
    OBVIOUS
  <2> HIDE DEF n
  <2>1. i - 1 \in 0 .. n - 1
    BY <1>1
  <2>2. dec.payload[i - 1] = recent[Len(recent) - 2 - n + 1 + (i - 1)]
    BY <1>1, <2>1 DEF Holds
  <2>3. Len(recent) - 2 - n + 1 + (i - 1) = Len(recent) - 1 - n + i - 1
    BY <1>1
  <2> QED BY <2>2, <2>3
<1> QED BY <1>3, <1>4 DEF Payload

-----------------------------------------------------------------------------
(* A frame that meets a decoder at rest.                                   *)

(* Where the decoder is when the first "pos" bytes of the frame of c have  *)
(* arrived undamaged.                                                      *)
Follows(c) ==
  /\ pos = 0 => dec.state = "SYNC1"
  /\ pos = 1 => dec.state = "SYNC2"
  /\ pos = 2 => dec.state = "LEN_HI"
  /\ pos = 3 => dec.state = "LEN_LO" /\ dec.payload_len = High(Len(c)) * Radix
  /\ pos \in 4 .. Len(c) + 3 => dec.state = "PAYLOAD" /\ dec.payload_idx = pos - 4
  /\ pos >= 4 => /\ dec.payload_len = Len(c)
                 /\ \A i \in 1 .. Len(c) : i <= pos - 4 => dec.payload[i - 1] = c[i]
  /\ pos = Len(c) + 4 => dec.state = "CRC_HI"
  /\ pos = Len(c) + 5 =>
       dec.state = "CRC_LO" /\ dec.crc_received = High(Crc16(c)) * Radix
  /\ pos = Len(c) + 6 => dec.state = "SYNC1" /\ accepted
  /\ pos \in 1 .. Len(c) + 5 => ~accepted

LEMMA PayloadIs ==
  ASSUME NEW c \in Commands, dec.payload_len = Len(c),
         \A i \in 1 .. Len(c) : dec.payload[i - 1] = c[i]
  PROVE  Payload(dec) = c
<1>1. c = [i \in 1 .. Len(c) |-> c[i]]
  BY FrameBytes
<1> QED BY <1>1 DEF Payload

LEMMA FollowOK ==
  ASSUME DecoderInv, NEW c \in Commands, pos \in 0 .. Len(c) + 5, Follows(c),
         Feed(Encode(c)[pos + 1]), pos' = pos + 1
  PROVE  Follows(c)'
<1> DEFINE n == Len(c)  byte == Encode(c)[pos + 1]
<1>1. /\ n \in Nat /\ n <= MaxPayload /\ n \in Word /\ pos \in Nat /\ MaxPayload \in Nat
      /\ Radix \in Nat
  BY FrameBytes, Bytes
<1>2. CASE pos = 0
  <2>1. dec.state = "SYNC1" /\ byte = Sync1
    BY <1>2, FrameBytes DEF Follows
  <2>2. dec'.state = "SYNC2" /\ ~accepted'
    BY <2>1 DEF Feed, AwaitSync1, AwaitSync2, TakeLenHigh, TakeLenLow, TakePayload,
                TakeCrcHigh, TakeCrcLow, Continue, DecoderInv, Decoder
  <2> QED BY <1>1, <1>2, <2>2 DEF Follows
<1>3. CASE pos = 1
  <2>1. dec.state = "SYNC2" /\ byte = Sync2
    BY <1>3, FrameBytes DEF Follows
  <2>2. dec'.state = "LEN_HI" /\ ~accepted'
    BY <2>1 DEF Feed, AwaitSync1, AwaitSync2, TakeLenHigh, TakeLenLow, TakePayload,
                TakeCrcHigh, TakeCrcLow, Continue, DecoderInv, Decoder
  <2> QED BY <1>1, <1>3, <2>2 DEF Follows
<1>4. CASE pos = 2
  <2>1. dec.state = "LEN_HI" /\ byte = High(n)
    BY <1>4, FrameBytes DEF Follows
  <2>2. dec'.state = "LEN_LO" /\ dec'.payload_len = byte * Radix /\ ~accepted'
    BY <2>1 DEF Feed, AwaitSync1, AwaitSync2, TakeLenHigh, TakeLenLow, TakePayload,
                TakeCrcHigh, TakeCrcLow, Continue, DecoderInv, Decoder
  <2> QED BY <1>1, <1>4, <2>1, <2>2 DEF Follows
<1>5. CASE pos = 3
  <2>1. dec.state = "LEN_LO" /\ byte = Low(n) /\ dec.payload_len + byte = n
    BY <1>1, <1>5, FrameBytes, HighLow DEF Follows
  <2> HIDE DEF byte
  <2>2. /\ dec'.state = IF n > MaxPayload THEN "SYNC1"
                        ELSE IF n = 0 THEN "CRC_HI" ELSE "PAYLOAD"
        /\ dec'.payload_idx = IF n \in 1 .. MaxPayload THEN 0 ELSE dec.payload_idx
        /\ dec'.payload_len = n /\ ~accepted'
    <3>1. TakeLenLow(byte)
      BY <2>1 DEF byte, Feed, AwaitSync1, AwaitSync2, TakeLenHigh, TakePayload,
                  TakeCrcHigh, TakeCrcLow
    <3> HIDE DEF n
    <3> QED BY <2>1, <3>1 DEF TakeLenLow, Continue, DecoderInv, Decoder
  <2>3. /\ n = 0 => dec'.state = "CRC_HI"
        /\ n # 0 => dec'.state = "PAYLOAD" /\ dec'.payload_idx = 0
    BY <1>1, <2>2
  <2> QED BY <1>1, <1>5, <2>2, <2>3 DEF Follows
<1>6. CASE pos \in 4 .. n + 3
  <2>1. /\ dec.state = "PAYLOAD" /\ dec.payload_idx = pos - 4 /\ dec.payload_len = n
        /\ \A i \in 1 .. n : i <= pos - 4 => dec.payload[i - 1] = c[i]
    BY <1>1, <1>6 DEF Follows
  <2>2. byte = c[pos - 3]
    <3>1. pos - 3 \in 1 .. n /\ (pos - 3) + 4 = pos + 1
      BY <1>1, <1>6
    <3> QED BY <3>1, FrameBytes
  <2> HIDE DEF byte, n
  <2>3. /\ dec'.payload = [dec.payload EXCEPT ![pos - 4] = byte]
        /\ dec'.payload_len = n /\ dec'.payload_idx = pos - 4 + 1
        /\ dec'.state = IF pos - 4 + 1 >= n THEN "CRC_HI" ELSE "PAYLOAD"
        /\ ~accepted'
    <3>1. TakePayload(byte)
      BY <2>1 DEF byte, Feed, AwaitSync1, AwaitSync2, TakeLenHigh, TakeLenLow,
                  TakeCrcHigh, TakeCrcLow
    <3> QED BY <2>1, <3>1 DEF TakePayload, Continue, DecoderInv, Decoder
  <2>4. ASSUME NEW i \in 1 .. n, i <= pos' - 4 PROVE dec'.payload[i - 1] = c[i]
    <3>1. dec.payload \in [0 .. MaxPayload - 1 -> Byte] /\ i - 1 \in 0 .. MaxPayload - 1
      BY <1>1 DEF DecoderInv, Decoder
    <3>2. CASE i - 1 = pos - 4
      <4>1. i = pos - 3
        BY <1>1, <3>2
      <4> QED BY <2>2, <2>3, <3>1, <3>2, <4>1
    <3>3. CASE i - 1 # pos - 4
      <4>1. i <= pos - 4
        BY <1>1, <2>4, <3>3
      <4>2. dec'.payload[i - 1] = dec.payload[i - 1]
        BY <2>3, <3>1, <3>3
      <4> QED BY <2>1, <4>1, <4>2
    <3> QED BY <3>2, <3>3
  <2>5. /\ pos' \in 4 .. n + 3 => dec'.state = "PAYLOAD" /\ dec'.payload_idx = pos' - 4
        /\ pos' = n + 4 => dec'.state = "CRC_HI"
        /\ pos' >= 5 /\ pos' <= n + 4
    BY <1>1, <1>6, <2>3
  <2> QED BY <1>1, <2>3, <2>4, <2>5 DEF Follows, n
<1>7. CASE pos = n + 4
  <2>1. /\ dec.state = "CRC_HI" /\ dec.payload_len = n /\ byte = High(Crc16(c))
        /\ \A i \in 1 .. n : dec.payload[i - 1] = c[i]
    <3>1. pos + 1 = n + 5 /\ pos >= 4 /\ \A i \in 1 .. n : i <= pos - 4
      BY <1>1, <1>7
    <3> QED BY <1>7, <3>1, FrameBytes DEF Follows
  <2> HIDE DEF byte, n
  <2>2. /\ dec'.state = "CRC_LO" /\ dec'.payload = dec.payload /\ dec'.payload_len = n
        /\ dec'.crc_received = High(Crc16(c)) * Radix /\ ~accepted'
    <3>1. TakeCrcHigh(byte)
      BY <2>1 DEF byte, Feed, AwaitSync1, AwaitSync2, TakeLenHigh, TakeLenLow,
                  TakePayload, TakeCrcLow
    <3> QED BY <2>1, <3>1 DEF TakeCrcHigh, Continue, DecoderInv, Decoder
  <2>3. pos' = n + 5 /\ pos' > 4
    BY <1>1, <1>7
  <2> QED BY <1>1, <2>1, <2>2, <2>3 DEF Follows, n
<1>8. CASE pos = n + 5
  <2>1. /\ dec.state = "CRC_LO" /\ dec.payload_len = n /\ byte = Low(Crc16(c))
        /\ dec.crc_received = High(Crc16(c)) * Radix
        /\ \A i \in 1 .. n : dec.payload[i - 1] = c[i]
    <3>1. pos + 1 = n + 6 /\ pos >= 4 /\ \A i \in 1 .. n : i <= pos - 4
      BY <1>1, <1>8
    <3> QED BY <1>8, <3>1, FrameBytes DEF Follows
  <2>2. Payload(dec) = c
    BY <2>1, PayloadIs
  <2>3. dec.crc_received + byte = Crc16(c)
    BY <2>1, FrameBytes, HighLow
  <2> HIDE DEF byte, n
  <2>4. /\ dec'.state = "SYNC1" /\ dec'.payload = dec.payload /\ dec'.payload_len = n
        /\ accepted'
    <3>1. TakeCrcLow(byte)
      BY <2>1 DEF byte, Feed, AwaitSync1, AwaitSync2, TakeLenHigh, TakeLenLow,
                  TakePayload, TakeCrcHigh
    <3> QED BY <2>1, <2>2, <2>3, <3>1 DEF TakeCrcLow, DecoderInv, Decoder
  <2>5. pos' = n + 6 /\ pos' > 4
    BY <1>1, <1>8
  <2> QED BY <1>1, <2>1, <2>4, <2>5 DEF Follows, n
<1>9. pos \in {0, 1, 2, 3} \/ pos \in 4 .. n + 3 \/ pos \in {n + 4, n + 5}
  BY <1>1
<1> QED BY <1>2, <1>3, <1>4, <1>5, <1>6, <1>7, <1>8, <1>9

-----------------------------------------------------------------------------
(* A frame that meets a decoder waiting for a second sync byte.            *)

(* The decoder takes the frame's own Sync1 for a byte that is not Sync2    *)
(* and passes over the rest, unless two bytes of it look like a start.     *)
Skips(c) ==
  /\ pos = 0 => dec.state = "SYNC2"
  /\ pos > 0 /\ ~Misleading(c) =>
       /\ dec.state \in {"SYNC1", "SYNC2"}
       /\ dec.state = "SYNC2" => pos >= 3 /\ Encode(c)[pos] = Sync1

LEMMA SkipOK ==
  ASSUME DecoderInv, NEW c \in Commands, pos \in 0 .. Len(c) + 5, Skips(c),
         Feed(Encode(c)[pos + 1]), pos' = pos + 1
  PROVE  Skips(c)'
<1> DEFINE byte == Encode(c)[pos + 1]
<1>1. Len(c) \in Nat /\ pos \in Nat /\ pos' > 0 /\ pos' # 0
  BY FrameBytes
<1>2. SUFFICES ASSUME ~Misleading(c)
               PROVE  /\ dec'.state \in {"SYNC1", "SYNC2"}
                      /\ dec'.state = "SYNC2" => pos' >= 3 /\ Encode(c)[pos'] = Sync1
  BY <1>1 DEF Skips
<1>3. dec.state \in {"SYNC1", "SYNC2"}
  BY <1>1, <1>2 DEF Skips
<1>4. CASE dec.state = "SYNC1"
  <2>1. /\ byte = Sync1 => dec'.state = "SYNC2"
        /\ byte # Sync1 => dec'.state = "SYNC1"
    BY <1>4 DEF Feed, AwaitSync1, AwaitSync2, TakeLenHigh, TakeLenLow, TakePayload,
                TakeCrcHigh, TakeCrcLow, DecoderInv, Decoder
  <2>2. pos # 0
    BY <1>4 DEF Skips
  <2>3. pos = 1 => byte # Sync1
    BY FrameBytes, FrameAssumption
  <2>4. CASE byte = Sync1
    <3>1. pos + 1 >= 3
      BY <1>1, <2>2, <2>3, <2>4
    <3> QED BY <2>1, <2>4, <3>1
  <2>5. CASE byte # Sync1
    BY <2>1, <2>5
  <2> QED BY <2>4, <2>5
<1>5. CASE dec.state = "SYNC2"
  <2>1. byte # Sync2 => dec'.state = "SYNC1"
    BY <1>5 DEF Feed, AwaitSync1, AwaitSync2, TakeLenHigh, TakeLenLow, TakePayload,
                TakeCrcHigh, TakeCrcLow, DecoderInv, Decoder
  <2>2. byte # Sync2
    <3>1. CASE pos = 0
      BY <3>1, FrameBytes, FrameAssumption
    <3>2. CASE pos # 0
      <4>1. pos >= 3 /\ Encode(c)[pos] = Sync1
        BY <1>1, <1>2, <1>5, <3>2 DEF Skips
      <4>2. pos \in 3 .. Len(c) + 5
        BY <1>1, <4>1
      <4> QED BY <1>2, <4>1, <4>2 DEF Misleading
    <3> QED BY <3>1, <3>2
  <2> QED BY <2>1, <2>2
<1> QED BY <1>3, <1>4, <1>5

-----------------------------------------------------------------------------
(* The link.                                                               *)

(* Until the line damages it, a frame is followed by a decoder that was at *)
(* rest and skipped by one that was waiting for a second sync byte.  As    *)
(* long as nothing goes wrong, every frame meets a decoder at rest, so the *)
(* override is that of a command.                                          *)
LinkInv ==
  /\ TypeOK /\ DecoderInv /\ FreshInv
  /\ intact /\ met = "SYNC1" => Follows(command)
  /\ intact /\ met = "SYNC2" => Skips(command)
  /\ pos = 0 => intact /\ met = dec.state
  /\ errors = 0 => intact /\ met = "SYNC1"
  /\ OverrideCommanded

LEMMA FrameEnds ==
  ASSUME TypeOK
  PROVE  /\ command \in Commands /\ Len(command) \in Nat
         /\ pos \in 0 .. Len(command) + 6
         /\ Sent <=> pos = Len(command) + 6
BY FrameBytes DEF TypeOK, Frame, Sent

LEMMA SkipsEnd ==
  ASSUME LinkInv PROVE LossEnds
<1> SUFFICES ASSUME intact, Sent, met \in {"SYNC1", "SYNC2"},
                    ~Misleading(command), ~Trailing(command)
             PROVE  dec.state = "SYNC1"
  BY DEF LossEnds
<1>1. /\ command \in Commands /\ Len(command) \in Nat
      /\ pos = Len(command) + 6 /\ pos > 0
  BY FrameEnds DEF LinkInv
<1>2. CASE met = "SYNC1"
  BY <1>1, <1>2 DEF LinkInv, Follows
<1>3. CASE met = "SYNC2"
  <2>1. dec.state \in {"SYNC1", "SYNC2"} /\ (dec.state = "SYNC2" => Encode(command)[pos] = Sync1)
    BY <1>1, <1>3 DEF LinkInv, Skips
  <2>2. Encode(command)[pos] # Sync1
    BY <1>1, FrameBytes DEF Trailing
  <2> QED BY <2>1, <2>2
<1> QED BY <1>2, <1>3

LEMMA FollowsDelivers ==
  ASSUME TypeOK, intact /\ met = "SYNC1" => Follows(command) PROVE FramesDelivered
<1> SUFFICES ASSUME intact, met = "SYNC1", pos > 0
             PROVE  /\ accepted <=> Sent
                    /\ Sent => Payload(dec) = command
  BY DEF FramesDelivered
<1> DEFINE n == Len(command)
<1>1. /\ command \in Commands /\ n \in Nat /\ Len(Frame) = n + 6
      /\ pos \in 0 .. n + 6 /\ Follows(command)
  BY FrameBytes DEF TypeOK, Frame
<1>2. Sent <=> pos = n + 6
  BY <1>1 DEF Sent
<1>3. CASE pos = n + 6
  <2>1. accepted /\ dec.payload_len = n /\ \A i \in 1 .. n : dec.payload[i - 1] = command[i]
    BY <1>1, <1>3 DEF Follows
  <2>2. Payload(dec) = command
    BY <1>1, <2>1, PayloadIs
  <2> QED BY <1>2, <1>3, <2>1, <2>2
<1>4. CASE pos # n + 6
  <2>1. ~accepted
    BY <1>1, <1>4 DEF Follows
  <2> QED BY <1>2, <1>4, <2>1
<1> QED BY <1>3, <1>4

(* A byte that arrives, be it what the host sent or not.                   *)
LEMMA ProcessOK ==
  ASSUME LinkInv, NEW byte \in Byte, ProcessByte(byte)
  PROVE  /\ DecoderInv' /\ FreshInv' /\ RecentTyped'
         /\ throttle_override' \in Byte /\ has_throttle_override' \in BOOLEAN
         /\ \/ UNCHANGED ctxVars
            \/ /\ accepted' /\ dec'.payload_len >= 2 /\ dec'.payload[0] = SetThrottle
               /\ throttle_override' = dec'.payload[1]
<1>1. RecentTyped /\ recent' = Remembered(recent, byte) /\ Feed(byte)
  BY DEF LinkInv, TypeOK, RecentTyped, ProcessByte, Remembered
<1>2. DecoderInv' /\ FreshInv' /\ RecentTyped'
  <2>1. DecoderInv /\ FreshInv
    BY DEF LinkInv
  <2> QED BY <1>1, <2>1, FeedOK, FreshOK
<1>3. CASE accepted' /\ dec'.payload_len >= 2 /\ dec'.payload[0] = SetThrottle
  <2>1. throttle_override' = dec'.payload[1] /\ has_throttle_override' = TRUE
    BY <1>3 DEF ProcessByte, Dispatch
  <2>2. dec'.payload \in [0 .. MaxPayload - 1 -> Byte] /\ dec'.payload_len <= MaxPayload
    BY <1>2, <1>3 DEF DecoderInv, Decoder
  <2>3. dec'.payload_len \in Nat /\ MaxPayload \in Nat
    BY <1>2, Bytes DEF DecoderInv, Decoder, Word
  <2>4. 1 \in 0 .. MaxPayload - 1
    BY <1>3, <2>2, <2>3
  <2> QED BY <1>2, <1>3, <2>1, <2>2, <2>4
<1>4. CASE ~(accepted' /\ dec'.payload_len >= 2 /\ dec'.payload[0] = SetThrottle)
  <2>1. UNCHANGED ctxVars
    BY <1>4 DEF ProcessByte, Dispatch
  <2> QED BY <1>2, <2>1 DEF LinkInv, TypeOK, ctxVars
<1> QED BY <1>3, <1>4

LEMMA TransmitOK == ASSUME LinkInv, Transmit PROVE LinkInv'
<1> DEFINE n == Len(command)
<1>1. /\ command \in Commands /\ n \in Nat /\ Len(Frame) = n + 6 /\ pos \in 0 .. n + 6
      /\ Frame \in Seq(Byte) /\ Commands \subseteq Seq(Byte)
  BY FrameBytes, LinkAssumption DEF LinkInv, TypeOK, Frame
<1>2. /\ pos \in 0 .. n + 5 /\ pos' = pos + 1 /\ ProcessByte(Frame[pos + 1])
      /\ UNCHANGED <<command, errors, met, intact>>
  BY <1>1 DEF Transmit, Sent
<1>3. Frame[pos + 1] \in Byte
  BY <1>1, <1>2
<1>4. /\ DecoderInv' /\ FreshInv' /\ RecentTyped'
      /\ throttle_override' \in Byte /\ has_throttle_override' \in BOOLEAN
      /\ \/ UNCHANGED ctxVars
         \/ /\ accepted' /\ dec'.payload_len >= 2 /\ dec'.payload[0] = SetThrottle
            /\ throttle_override' = dec'.payload[1]
  BY <1>2, <1>3, ProcessOK
<1>5. Frame' = Frame /\ pos' \in 0 .. n + 6
  BY <1>1, <1>2 DEF Frame
<1>6. TypeOK'
  <2>1. pos' \in 0 .. Len(Frame')
    BY <1>1, <1>5
  <2> QED BY <1>2, <1>4, <2>1 DEF TypeOK, LinkInv, DecoderInv, RecentTyped
<1>7. intact' /\ met' = "SYNC1" => Follows(command)'
  <2> SUFFICES ASSUME intact', met' = "SYNC1" PROVE Follows(command)'
    OBVIOUS
  <2>1. DecoderInv /\ Follows(command) /\ Feed(Encode(command)[pos + 1])
    BY <1>2 DEF LinkInv, ProcessByte, Frame
  <2>2. ASSUME NEW c \in Commands, c = command PROVE Follows(c)'
    <3>1. pos \in 0 .. Len(c) + 5 /\ Follows(c) /\ Feed(Encode(c)[pos + 1])
      BY <1>1, <1>2, <2>1, <2>2
    <3> QED BY <1>2, <2>1, <3>1, FollowOK
  <2>3. command' = command
    BY <1>2
  <2> QED BY <1>1, <2>2, <2>3 DEF Follows
<1>8. errors' = 0 => intact' /\ met' = "SYNC1"
  BY <1>2 DEF LinkInv
<1>9. OverrideCommanded'
  <2> SUFFICES ASSUME has_throttle_override', errors' = 0
               PROVE  \E c \in Commands :
                        Len(c) >= 2 /\ c[1] = SetThrottle /\ c[2] = throttle_override'
    BY DEF OverrideCommanded
  <2>1. CASE UNCHANGED ctxVars
    BY <1>2, <2>1 DEF LinkInv, OverrideCommanded, ctxVars
  <2>2. CASE /\ accepted' /\ dec'.payload_len >= 2 /\ dec'.payload[0] = SetThrottle
             /\ throttle_override' = dec'.payload[1]
    <3>1. Follows(command)' /\ command' = command /\ pos' = pos + 1
      BY <1>2, <1>7, <1>8
    <3>2. pos' = n + 6
      BY <1>1, <1>2, <2>2, <3>1 DEF Follows
    <3>3. /\ dec'.payload_len = n
          /\ \A i \in 1 .. n : dec'.payload[i - 1] = command[i]
      BY <1>1, <3>1, <3>2 DEF Follows
    <3>4. n >= 2 /\ dec'.payload[1 - 1] = command[1] /\ dec'.payload[2 - 1] = command[2]
      BY <1>1, <2>2, <3>3
    <3> QED BY <1>1, <2>2, <3>4
  <2> QED BY <1>4, <2>1, <2>2
<1>10. intact' /\ met' = "SYNC2" => Skips(command)'
  <2> SUFFICES ASSUME intact', met' = "SYNC2" PROVE Skips(command)'
    OBVIOUS
  <2>1. DecoderInv /\ Skips(command) /\ Feed(Encode(command)[pos + 1])
    BY <1>2 DEF LinkInv, ProcessByte, Frame
  <2>2. ASSUME NEW c \in Commands, c = command PROVE Skips(c)'
    <3>1. pos \in 0 .. Len(c) + 5 /\ Skips(c) /\ Feed(Encode(c)[pos + 1])
      BY <1>1, <1>2, <2>1, <2>2
    <3> QED BY <1>2, <2>1, <3>1, SkipOK
  <2>3. command' = command
    BY <1>2
  <2> QED BY <1>1, <2>2, <2>3 DEF Skips, Misleading
<1>11. pos' # 0
  BY <1>2
<1> QED BY <1>4, <1>6, <1>7, <1>8, <1>9, <1>10, <1>11 DEF LinkInv

LEMMA ErrorOK ==
  ASSUME LinkInv, NEW byte \in Byte, ProcessByte(byte), Err,
         command' = command, pos' \in 0 .. Len(Frame), intact' \in BOOLEAN,
         met' \in DecodeState, intact' => pos' = 0,
         pos' = 0 => intact' /\ met' = dec'.state
  PROVE  LinkInv'
<1>1. /\ DecoderInv' /\ FreshInv' /\ RecentTyped'
      /\ throttle_override' \in Byte /\ has_throttle_override' \in BOOLEAN
  BY ProcessOK
<1>2. /\ errors \in 0 .. MaxErrors /\ errors < MaxErrors /\ errors' = errors + 1
      /\ MaxErrors \in Nat
  BY LinkAssumption DEF LinkInv, TypeOK, Err
<1>3. errors' \in 0 .. MaxErrors /\ errors' # 0
  BY <1>2
<1>4. TypeOK'
  <2>1. Frame' = Frame /\ pos' \in 0 .. Len(Frame')
    BY DEF Frame
  <2> QED BY <1>1, <1>2, <1>3, <2>1 DEF TypeOK, LinkInv, DecoderInv, RecentTyped
<1>5. Len(command') \in Nat
  BY FrameBytes DEF LinkInv, TypeOK
<1>6. intact' /\ met' = "SYNC1" => Follows(command)'
  BY <1>5 DEF Follows
<1>7. intact' /\ met' = "SYNC2" => Skips(command)'
  <2> SUFFICES ASSUME pos' = 0, met' = "SYNC2" PROVE Skips(command)'
    OBVIOUS
  <2> QED BY DEF Skips
<1> QED BY <1>1, <1>2, <1>3, <1>4, <1>6, <1>7 DEF LinkInv, OverrideCommanded

LEMMA LinkNextOK == LinkInv /\ [Next]_vars => LinkInv'
<1> SUFFICES ASSUME LinkInv, [Next]_vars PROVE LinkInv'
  OBVIOUS
<1> DEFINE n == Len(command)
<1>1. /\ command \in Commands /\ n \in Nat /\ Len(Frame) = n + 6 /\ pos \in 0 .. n + 6
      /\ errors \in 0 .. MaxErrors /\ intact \in BOOLEAN /\ MaxErrors \in Nat
  BY FrameBytes, LinkAssumption DEF LinkInv, TypeOK, Frame
<1>2. CASE UNCHANGED vars
  BY <1>2 DEF vars, frameVars, ctxVars, LinkInv, TypeOK, DecoderInv, FreshInv, Follows,
              Skips, Misleading, StoreInBounds, OverrideCommanded, Frame
<1>3. CASE Begin
  <2>1. /\ command' \in Commands /\ pos' = 0 /\ met' = dec.state
        /\ intact' = TRUE /\ UNCHANGED <<frameVars, ctxVars, errors, recent>>
    BY <1>3 DEF Begin
  <2>2. /\ dec' = dec /\ accepted' = accepted /\ recent' = recent /\ errors' = errors
        /\ UNCHANGED ctxVars
    BY <2>1 DEF frameVars
  <2>3. Len(command') \in Nat /\ Len(Frame') = Len(command') + 6
    BY <2>1, FrameBytes DEF Frame
  <2>4. TypeOK'
    <3>1. pos' \in 0 .. Len(Frame')
      BY <2>1, <2>3
    <3>2. met' \in DecodeState
      BY <2>1 DEF LinkInv, TypeOK, Decoder
    <3> QED BY <2>1, <2>2, <3>1, <3>2 DEF TypeOK, LinkInv, ctxVars
  <2>5. DecoderInv' /\ FreshInv' /\ OverrideCommanded'
    BY <2>2 DEF LinkInv, DecoderInv, FreshInv, StoreInBounds, OverrideCommanded, ctxVars
  <2>6. met' = "SYNC1" => Follows(command)'
    <3>1. met' = "SYNC1" => dec'.state = "SYNC1"
      BY <2>1, <2>2
    <3>2. pos' = 0 /\ Len(command') \in Nat
      BY <2>1, <2>3
    <3> QED BY <3>1, <3>2 DEF Follows
  <2>7. met' = "SYNC2" => Skips(command)'
    BY <2>1, <2>2 DEF Skips
  <2>8. errors' = 0 => intact' /\ met' = "SYNC1"
    <3> SUFFICES ASSUME errors = 0 PROVE dec.state = "SYNC1"
      BY <2>1, <2>2
    <3>1. Follows(command) /\ pos = n + 6
      BY <1>1, <1>3 DEF LinkInv, Begin, Sent
    <3> QED BY <1>1, <3>1 DEF Follows
  <2>9. intact' /\ met' = dec'.state
    BY <2>1, <2>2
  <2> QED BY <2>4, <2>5, <2>6, <2>7, <2>8, <2>9 DEF LinkInv
<1>4. CASE Transmit
  BY <1>4, TransmitOK
<1>5. CASE Corrupt
  <2>1. PICK byte \in Byte : ProcessByte(byte)
    BY <1>5 DEF Corrupt
  <2>2. /\ Err /\ command' = command /\ met' = met /\ intact' = FALSE
        /\ pos' = pos + 1 /\ pos # n + 6
    BY <1>1, <1>5 DEF Corrupt, Sent
  <2>3. pos' \in 0 .. Len(Frame) /\ pos' # 0 /\ met' \in DecodeState
    BY <1>1, <2>2 DEF LinkInv, TypeOK
  <2> QED BY <2>1, <2>2, <2>3, ErrorOK
<1>6. CASE Drop
  <2>1. /\ dec' = dec /\ accepted' = accepted /\ recent' = recent /\ command' = command
        /\ UNCHANGED ctxVars /\ met' = met /\ intact' = FALSE
        /\ errors < MaxErrors /\ errors' = errors + 1 /\ pos' = pos + 1 /\ pos # n + 6
    BY <1>1, <1>6 DEF Drop, Err, Sent, frameVars
  <2>2. /\ errors' \in 0 .. MaxErrors /\ errors' # 0
        /\ pos' \in 0 .. Len(Frame) /\ pos' # 0
    BY <1>1, <2>1
  <2>3. Frame' = Frame
    BY <2>1 DEF Frame
  <2> QED BY <2>1, <2>2, <2>3 DEF LinkInv, TypeOK, DecoderInv, FreshInv, StoreInBounds,
                                  OverrideCommanded, ctxVars
<1>7. CASE Insert
  <2>1. PICK byte \in Byte : ProcessByte(byte)
    BY <1>7 DEF Insert
  <2>2. /\ Err /\ command' = command /\ pos' = pos
        /\ intact' = (intact /\ pos = 0)
        /\ met' = IF pos = 0 THEN dec'.state ELSE met
    BY <1>7 DEF Insert
  <2>3. pos' \in 0 .. Len(Frame) /\ intact' \in BOOLEAN
    BY <1>1, <2>2
  <2>4. met' \in DecodeState
    <3>1. dec'.state \in DecodeState
      BY <2>1, ProcessOK DEF DecoderInv, Decoder
    <3> QED BY <2>2, <3>1 DEF LinkInv, TypeOK
  <2>5. (intact' => pos' = 0) /\ (pos' = 0 => intact' /\ met' = dec'.state)
    BY <2>2 DEF LinkInv
  <2> QED BY <2>1, <2>2, <2>3, <2>4, <2>5, ErrorOK
<1> QED BY <1>2, <1>3, <1>4, <1>5, <1>6, <1>7 DEF Next

LEMMA LinkInvariant == Spec => []LinkInv
<1>1. Init => LinkInv
  <2> SUFFICES ASSUME Init PROVE LinkInv
    OBVIOUS
  <2>1. /\ 0 \in Byte /\ 0 \in Word /\ MaxPayload \in Nat /\ MaxErrors \in Nat
    BY Bytes, LinkAssumption
  <2>2. /\ dec = [state |-> "SYNC1", payload |-> [i \in 0 .. MaxPayload - 1 |-> 0],
                  payload_len |-> 0, payload_idx |-> 0, crc_received |-> 0]
        /\ accepted = FALSE /\ throttle_override = 0 /\ has_throttle_override = FALSE
        /\ command \in Commands /\ pos = 0 /\ errors = 0 /\ met = "SYNC1" /\ intact = TRUE
        /\ recent = <<>>
    BY DEF Init, DecoderInit
  <2>3. dec \in Decoder /\ dec.state = "SYNC1"
    BY <2>1, <2>2 DEF Decoder, DecodeState
  <2>4. DecoderInv /\ FreshInv
    BY <2>2, <2>3 DEF DecoderInv, FreshInv, StoreInBounds
  <2>5. Len(command) \in Nat /\ Len(Frame) = Len(command) + 6
    BY <2>2, FrameBytes DEF Frame
  <2>6. TypeOK
    <3>1. recent \in Seq(Byte) /\ Len(recent) <= MaxPayload + 2
      BY <2>1, <2>2
    <3>2. pos \in 0 .. Len(Frame) /\ errors \in 0 .. MaxErrors
      BY <2>1, <2>2, <2>5
    <3>3. met \in DecodeState
      BY <2>2 DEF DecodeState
    <3> QED BY <2>1, <2>2, <2>3, <3>1, <3>2, <3>3 DEF TypeOK
  <2>7. Follows(command)
    BY <2>2, <2>3, <2>5 DEF Follows
  <2>8. OverrideCommanded
    BY <2>2 DEF OverrideCommanded
  <2> QED BY <2>2, <2>4, <2>6, <2>7, <2>8 DEF LinkInv
<1> QED BY <1>1, LinkNextOK, PTL DEF Spec

-----------------------------------------------------------------------------
(* The theorems.                                                           *)

(* Type correctness of the decoder and the receiver                        *)
(* (telemetry/tel_frame.c:49-96, telemetry/tel_send.c:32-55).              *)
THEOREM LinkTypeCorrect == Spec => []TypeOK
<1>1. LinkInv => TypeOK
  BY DEF LinkInv
<1> QED BY <1>1, LinkInvariant, PTL

(* The decoder never stores a byte outside its buffer, whatever arrives    *)
(* (telemetry/tel_frame.c:65-81).                                          *)
THEOREM LinkStoresInBounds == Spec => []StoreInBounds
<1>1. LinkInv => StoreInBounds
  BY DEF LinkInv, DecoderInv
<1> QED BY <1>1, LinkInvariant, PTL

(* An accepted payload holds nothing of an earlier frame                   *)
(* (telemetry/tel_frame.c:76-93).                                          *)
THEOREM LinkPayloadFresh == Spec => []PayloadFresh
<1>1. LinkInv => PayloadFresh
  BY FreshIsFresh DEF LinkInv, TypeOK, RecentTyped
<1> QED BY <1>1, LinkInvariant, PTL

(* What the encoder frames, the decoder delivers: the two agree for every  *)
(* payload and every checksum function (telemetry/tel_frame.c:18-39 and    *)
(* 49-96).                                                                 *)
THEOREM LinkDelivers == Spec => []FramesDelivered
<1>1. LinkInv => FramesDelivered
  BY FollowsDelivers DEF LinkInv
<1> QED BY <1>1, LinkInvariant, PTL

(* A frame that finds the decoder waiting for a second sync byte costs no  *)
(* frame after it, whatever the payload limit and the checksum, unless it  *)
(* looks like a start inside or at its end (telemetry/tel_frame.c:52-61).  *)
THEOREM LinkLossEnds == Spec => []LossEnds
<1>1. LinkInv => LossEnds
  BY SkipsEnd
<1> QED BY <1>1, LinkInvariant, PTL

(* Without line errors only a throttle command sets the override           *)
(* (telemetry/tel_send.c:32-55).                                           *)
THEOREM LinkOverrideCommanded == Spec => []OverrideCommanded
<1>1. LinkInv => OverrideCommanded
  BY DEF LinkInv
<1> QED BY <1>1, LinkInvariant, PTL
=============================================================================
