----------------------------- MODULE MCTelLink -----------------------------
(***************************************************************************)
(* Instances of TelLink.  Bytes have two bits and words four: everything a *)
(* fourth of the width in the code, the checksum included.                 *)
(***************************************************************************)
EXTENDS TelLink, Bitwise, SequencesExt

MCRadix == 4
MCSync1 == 3
MCSync2 == 2
READ == 0
SET == 1
STOP == 2

(* tel_crc16 with four bits in place of 16: the register starts with all   *)
(* bits set, every byte is added at its upper end and shifted through, and *)
(* what falls out is replaced by the polynomial x^4 + x + 1.               *)
ShiftBit(crc) == IF crc >= 8 THEN ((2 * crc) % 16) ^^ 3 ELSE 2 * crc

CrcOf(payload) ==
  FoldLeft(LAMBDA crc, byte : ShiftBit(ShiftBit(crc ^^ (4 * byte))), 15, payload)

(* Worked out once for every payload, as a relation: TLC would evaluate a  *)
(* function anew at each application.                                      *)
CrcPairs == {<<payload, CrcOf(payload)>> : payload \in SeqOf(0 .. 3, 3)}

MCCrc16(payload) == (CHOOSE pair \in CrcPairs : pair[1] = payload)[2]

(* Commands that are too short, of other kinds and longer than their kind  *)
(* needs.  The frame of <<SET, 0>> holds both sync bytes in a row, those   *)
(* of <<>> and <<STOP>> end in Sync1; the length of <<READ, 2, 1>> looks   *)
(* like Sync1, and it leaves a byte behind that no throttle command holds. *)
MixedCommands == {<<>>, <<SET>>, <<SET, 0>>, <<SET, 1>>, <<READ, 2, 1>>, <<STOP>>}

(* A throttle command whose payload is free of Sync1 and whose checksum    *)
(* ends in it, as C5 AA does for 80 94.                                    *)
TrailingCommand == {<<SET, 0, 2>>}
=============================================================================
