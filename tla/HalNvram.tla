------------------------------ MODULE HalNvram ------------------------------
(***************************************************************************)
(* Persistent storage (hal/hal_nvram.h) on the three platforms: files on   *)
(* POSIX, the NVS library on the ESP32, the last flash sector on the       *)
(* STM32.  A call takes several steps, and the power may fail or the       *)
(* program be stopped between any two.                                     *)
(***************************************************************************)
EXTENDS Integers, Sequences

CONSTANTS
  Keys,        \* names under which data are stored
  Bytes,       \* values of a byte
  Blobs,       \* what is stored, all of one length
  BlobLen      \* that length; as many bytes are read

Blank == "blank"             \* an erased byte of flash
Sector == "sector"           \* where the STM32 stores everything
Absent == <<"absent">>       \* no file, no entry
Unsettled == <<"unsettled">>

ASSUME NvramAssumption ==
  /\ BlobLen \in Nat \ {0, 1} /\ Sector \notin Keys
  /\ Blobs \subseteq [1 .. BlobLen -> Bytes]

VARIABLES
  platform,    \* "none" until the program starts
  store,       \* what each file, entry or sector holds
  op,          \* the call in progress
  kept,        \* history: what each key has to hold, or Unsettled
  tried        \* history: what a write to each key was begun with

nvramVars == <<platform, store, op, kept, tried>>

Slots == Keys \cup {Sector}
NoOp == [call |-> "none", key |-> Sector, blob |-> <<>>, done |-> 0]

NvramInit ==
  /\ platform = "none" /\ op = NoOp
  /\ store = [s \in Slots |-> Absent]
  /\ kept = [k \in Keys |-> Absent] /\ tried = [k \in Keys |-> {}]

-----------------------------------------------------------------------------
Erased == [i \in 1 .. BlobLen |-> Blank]
Gone == IF platform = "stm32" THEN Erased ELSE Absent

SlotFaulty(k) == Sector

(* The file or entry of a key; the STM32 ignores the key.  SlotFaulty does *)
(* so everywhere; no specification uses it.                                *)
Slot(k) == IF platform = "stm32" THEN Sector ELSE k

(* hal_nvram_read: a file may be short, the flash always yields BlobLen    *)
(* bytes.                                                                  *)
ReadBack(k) == store[Slot(k)]

(* The keys a call with key k may change.                                  *)
Touched(k) == IF platform = "stm32" THEN Keys ELSE {k}

(* hal_nvram_init; the flash of a new chip is erased.                      *)
PowerUp(p) ==
  /\ platform = "none"
  /\ platform' = p
  /\ store' = [store EXCEPT ![Sector] = IF p = "stm32" THEN Erased ELSE @]
  /\ kept' = [k \in Keys |-> IF p = "stm32" THEN Erased ELSE Absent]
  /\ UNCHANGED <<op, tried>>

(* hal_nvram_init at a later start of the ESP32: a partition without free  *)
(* pages, or of another version, is erased as a whole.                     *)
Reformat ==
  /\ platform = "esp32" /\ op = NoOp
  /\ store' = [s \in Slots |-> Absent] /\ kept' = [k \in Keys |-> Absent]
  /\ UNCHANGED <<platform, op, tried>>

(* hal_nvram_write and hal_nvram_erase are called.                         *)
Call(c, k, b) ==
  /\ platform # "none" /\ op = NoOp
  /\ op' = [call |-> c, key |-> k, blob |-> b, done |-> 0]
  /\ kept' = [j \in Keys |-> IF j \in Touched(k) THEN Unsettled ELSE kept[j]]
  /\ tried' = [tried EXCEPT ![k] = IF c = "write" THEN @ \cup {b} ELSE @]
  /\ UNCHANGED <<platform, store>>

Put(content, next, n) ==
  /\ store' = [store EXCEPT ![Slot(op.key)] = content]
  /\ op' = [op EXCEPT !.call = next, !.done = n]
  /\ UNCHANGED <<platform, kept, tried>>

ClearedFaulty == ReadBack(op.key)
Cleared == IF platform = "posix" THEN <<>> ELSE Erased

(* fopen(..., "wb") empties the file, HAL_FLASHEx_Erase blanks the sector. *)
(* ClearedFaulty overwrites in place; no specification uses it.            *)
Clear ==
  \/ op.call = "write" /\ platform \in {"posix", "stm32"} /\ Put(Cleared, "fill", 0)
  \/ op.call = "erase" /\ platform = "stm32" /\ Put(Cleared, "erased", 0)

(* The next byte: the file grows, or a byte of flash is programmed.        *)
Fill ==
  LET n == op.done + 1
      old == ReadBack(op.key)
  IN /\ op.call = "fill" /\ n <= BlobLen
     /\ Put([i \in DOMAIN old \cup {n} |-> IF i = n THEN op.blob[n] ELSE old[i]],
            "fill", n)

(* nvs_set_blob, nvs_erase_key and remove, with what commits them.         *)
Commit ==
  \/ op.call = "write" /\ platform = "esp32" /\ Put(op.blob, "fill", BlobLen)
  \/ op.call = "erase" /\ platform # "stm32" /\ Put(Absent, "erased", 0)

(* The call returns 0.                                                     *)
Return ==
  /\ \/ op.call = "fill" /\ op.done = BlobLen
     \/ op.call = "erased"
  /\ op' = NoOp
  /\ kept' = [j \in Keys |-> IF j \notin Touched(op.key) THEN kept[j]
                             ELSE IF op.call = "fill" THEN op.blob ELSE Gone]
  /\ UNCHANGED <<platform, store, tried>>

(* The program or the power stops.  An erase of flash that is interrupted  *)
(* leaves some bytes as they were and others blank.                        *)
Stop ==
  /\ op # NoOp /\ op' = NoOp
  /\ \/ UNCHANGED store
     \/ /\ platform = "stm32" /\ op.call \in {"write", "erase"}
        /\ \E b \in SUBSET (1 .. BlobLen) :
             store' = [store EXCEPT ![Sector] =
                         [i \in 1 .. BlobLen |-> IF i \in b THEN Blank ELSE @[i]]]
  /\ UNCHANGED <<platform, kept, tried>>

NvramNext ==
  \/ \E p \in {"posix", "esp32", "stm32"} : PowerUp(p)
  \/ Reformat
  \/ \E k \in Keys : Call("erase", k, <<>>) \/ \E b \in Blobs : Call("write", k, b)
  \/ Clear \/ Fill \/ Commit \/ Return \/ Stop

NvramSpec == NvramInit /\ [][NvramNext]_nvramVars

-----------------------------------------------------------------------------
(* Properties.                                                             *)

(* The calls in progress and the contents: a file being written is as long *)
(* as what has been written, the sector and the entries of the NVS have    *)
(* their full length.                                                      *)
NvramTypeOK ==
  /\ platform \in {"none", "posix", "esp32", "stm32"}
  /\ op.call \in {"none", "write", "erase", "fill", "erased"}
  /\ op.key \in Slots /\ op.done \in 0 .. BlobLen
  /\ \A s \in Slots :
       (store[s] # Absent /\ platform # "posix") => Len(store[s]) = BlobLen
  /\ (platform = "posix" /\ op.call = "fill") => Len(store[op.key]) = op.done
  /\ platform = "stm32" => store[Sector] # Absent
  /\ kept \in [Keys -> Blobs \cup {Absent, Unsettled, Erased}]
  /\ tried \in [Keys -> SUBSET Blobs]

(* What a call that returned has stored or erased stays, until the next    *)
(* call that may change it: through calls for other keys, and through      *)
(* stops in the middle of them.  On the STM32 every call may change every  *)
(* key; on the ESP32 a later hal_nvram_init may erase them all.            *)
Durable == \A k \in Keys : kept[k] # Unsettled => ReadBack(k) = kept[k]

(* Where keys have a file or an entry of their own, a write cut short is   *)
(* noticed: a read that returns all bytes returns what some write meant to *)
(* store, never a mixture of two.  The STM32 promises nothing of the kind. *)
TornDetected ==
  \A k \in Keys :
    (platform \in {"posix", "esp32"} /\ Len(ReadBack(k)) = BlobLen) =>
      ReadBack(k) \in tried[k]
=============================================================================
