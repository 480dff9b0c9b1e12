------------------------------- MODULE Upload -------------------------------
(***************************************************************************)
(* The receiver of BadgeMagic uploads: the Rust state that validates each  *)
(* 16-byte packet before anything is allocated or written, and the C       *)
(* adapter that owns the heap buffer, stores the finished upload and calls *)
(* back into the mode controller.  A packet is a start packet ("wang" and  *)
(* two zeros), a truncated one, or data, named by the columns that its     *)
(* bytes would announce if it came second.                                 *)
(***************************************************************************)
EXTENDS Integers, Sequences

CONSTANTS
    CHUNK, HEADER, COLUMN,   \* bytes of a packet, a header, a bitmap column
    MaxData,                 \* bytes the data flash holds
    Columns,                 \* bound: the sums of columns considered
    Start, Truncated         \* the two other kinds of packet

ASSUME UploadAssumption ==
    /\ CHUNK \in Nat \ {0} /\ COLUMN \in Nat
    /\ HEADER \in Nat /\ HEADER % CHUNK = 0 /\ HEADER > CHUNK
    /\ MaxData \in Nat
    /\ Columns \subseteq Nat
    /\ Start \notin Columns /\ Truncated \notin Columns /\ Start # Truncated

Packet == {Start, Truncated} \cup Columns

NoTotal == -1
NoData == <<>>

VARIABLES
    rx,       \* Transfer: bytes received, bytes announced
    heap,     \* the buffer: its capacity in bytes, and the packets copied
    stored,   \* what the data flash holds
    copied    \* observer: where the latest memcpy ended, and the room it had

vars == <<rx, heap, stored, copied>>

NewTransfer == [received |-> 0, total |-> NoTotal]
NoBuffer == [capacity |-> 0, data |-> NoData]

Init ==
    /\ rx = NewTransfer
    /\ heap = NoBuffer
    /\ stored = NoData
    /\ copied = [end |-> 0, room |-> 0]

-----------------------------------------------------------------------------
(* Transfer::accept.                                                       *)

Announced(columns) == HEADER + COLUMN * columns

Capacity(total) ==
    LET bytes == IF total = NoTotal THEN HEADER ELSE total
    IN  ((bytes + CHUNK - 1) \div CHUNK) * CHUNK

(* The state once a start packet has been recognised. *)
Resumed(packet) == IF packet = Start THEN NewTransfer ELSE rx

(* Mutant: any packet announces a length. *)
TotalWithAny(t, packet) == IF packet \in Columns THEN Announced(packet) ELSE t.total

(* The total known while the packet is handled: the second announces it. *)
TotalWith(t, packet) ==
    IF t.received = CHUNK /\ packet \in Columns THEN Announced(packet) ELSE t.total

Acceptable(packet) ==
    LET t == Resumed(packet)
        total == TotalWith(t, packet)
    IN  /\ packet # Truncated
        /\ t.received = 0 => packet = Start
        /\ t.received = CHUNK => total <= MaxData
        /\ t.received + CHUNK <= Capacity(total)

Finished(packet) ==
    LET t == Resumed(packet)
        total == TotalWith(t, packet)
    IN  total # NoTotal /\ t.received + CHUNK >= total

-----------------------------------------------------------------------------
(* legacy_ble_rx() and legacy_ble_reset().                                 *)

(* Mutant: the transfer is given up, its buffer is not. *)
LegacyResetNoFree == rx' = NewTransfer /\ UNCHANGED heap

LegacyReset == rx' = NewTransfer /\ heap' = NoBuffer

(* A start packet frees the buffer of the run it interrupts. *)
Freed(packet) == IF packet = Start THEN NoBuffer ELSE heap

Reject(packet) ==
    /\ ~Acceptable(packet)
    /\ LegacyReset
    /\ UNCHANGED <<stored, copied>>

OutOfMemory(packet) ==
    /\ Acceptable(packet)
    /\ Capacity(TotalWith(Resumed(packet), packet)) > Freed(packet).capacity
    /\ LegacyReset
    /\ UNCHANGED <<stored, copied>>

(* memcpy to the offset of the packet; what is there beyond it stays. *)
Filled(packet) ==
    LET slot == Resumed(packet).received \div CHUNK
    IN  Append(SubSeq(Freed(packet).data, 1, slot), packet)

(* Mutant: the buffer is allocated once. *)
GrownOnce(packet) ==
    IF Freed(packet).capacity = 0
    THEN Capacity(TotalWith(Resumed(packet), packet)) ELSE Freed(packet).capacity

Grown(packet) ==
    LET wanted == Capacity(TotalWith(Resumed(packet), packet))
        have == Freed(packet).capacity
    IN  IF wanted > have THEN wanted ELSE have

Copy(packet) ==
    /\ Acceptable(packet)
    /\ copied' = [end |-> Resumed(packet).received + CHUNK, room |-> Grown(packet)]

Receive(packet) ==
    /\ Copy(packet)
    /\ ~Finished(packet)
    /\ heap' = [capacity |-> Grown(packet), data |-> Filled(packet)]
    /\ rx' = [received |-> Resumed(packet).received + CHUNK,
              total |-> TotalWith(Resumed(packet), packet)]
    /\ UNCHANGED stored

(* data_flatSave() may fail; either way the buffer is given back. *)
Finish(packet) ==
    /\ Copy(packet)
    /\ Finished(packet)
    /\ stored' \in {Filled(packet), stored}
    /\ LegacyReset

LegacyRx ==
    \E packet \in Packet :
        Reject(packet) \/ OutOfMemory(packet) \/ Receive(packet) \/ Finish(packet)

(* link_onTerminated() of the app's link. *)
Disconnect == LegacyReset /\ UNCHANGED <<stored, copied>>

Next == LegacyRx \/ Disconnect

Spec == Init /\ [][Next]_vars

-----------------------------------------------------------------------------
(* Every variable stays in its type; a truncated packet in particular never *)
(* reaches the buffer or the flash (the length test of Transfer::accept).  *)
TypeOK ==
    /\ rx \in [received : Nat, total : Nat \cup {NoTotal}]
    /\ heap \in [capacity : Nat, data : Seq(Packet \ {Truncated})]
    /\ stored \in Seq(Packet \ {Truncated})
    /\ copied \in [end : Nat, room : Nat]

(* No packet is copied past the end of the buffer, neither the padding of  *)
(* the last one nor one that follows a restart, a failed allocation or a   *)
(* disconnection (Transfer::accept, and the realloc of legacy_ble_rx).     *)
CopyFits ==
    /\ copied.end <= copied.room
    /\ rx.received <= heap.capacity

(* The buffer lives exactly as long as the transfer it belongs to: what    *)
(* is rejected, stored, refused by the heap or the flash, or interrupted   *)
(* by a disconnection leaves no memory behind (legacy_ble_reset).          *)
BufferIsReleased ==
    IF rx.received = 0 THEN heap = NoBuffer
    ELSE /\ heap.capacity > 0
         /\ Len(heap.data) * CHUNK = rx.received

(* As long, in packets, as its second packet announces, and storable. *)
WholeUpload(u) ==
    /\ Len(u) >= 2 /\ u[2] \in Columns
    /\ Announced(u[2]) <= MaxData
    /\ (Len(u) - 1) * CHUNK < Announced(u[2])
    /\ Announced(u[2]) <= Len(u) * CHUNK

(* Whatever the order of the packets, failures and disconnections, the     *)
(* badge stores whole uploads only, each one run of consecutive packets    *)
(* (legacy_ble_rx and Transfer::accept, as one).                           *)
Store == INSTANCE UploadStore
           WITH StartPacket <- Start, NothingStored <- NoData, pending <- heap.data

StoresWholeUploads == Store!Spec
=============================================================================
