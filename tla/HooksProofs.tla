---------------------------- MODULE HooksProofs ----------------------------
(***************************************************************************)
(* The two places where FOSSASIA's firmware hands something over to        *)
(* FrogAlert, for every value of the constants.                            *)
(*                                                                         *)
(* The upload receiver, for packets, headers and columns of any size: the  *)
(* copy stays in the buffer, the buffer is given back, and the receiver    *)
(* implements UploadStore.  The invariant Inv says what the two numbers of *)
(* Transfer mean for the packets in the buffer.                            *)
(*                                                                         *)
(* The panel, of any width: pictures are whole, the one that is shown is   *)
(* the one the reducer remembers, and somebody draws.  In the middle of a  *)
(* handler none of this need hold; the invariant PanelInv says instead     *)
(* what the rest of the handler will still do about it.                    *)
(***************************************************************************)
EXTENDS Upload, Display, SequenceTheorems, TLAPS

Good == Packet \ {Truncated}

(* The transfer counts the packets of the buffer, and the length announced *)
(* is the one of its second packet, which the flash can hold.              *)
Counted ==
    /\ rx.received = Len(heap.data) * CHUNK
    /\ Len(heap.data) < 2 => rx.total = NoTotal
    /\ Len(heap.data) >= 2 =>
          /\ heap.data[2] \in Columns
          /\ rx.total = Announced(heap.data[2])
          /\ rx.total <= MaxData
          /\ rx.received < rx.total

Inv ==
    /\ TypeOK /\ CopyFits
    /\ Counted
    /\ heap.data = NoData => heap = NoBuffer

-----------------------------------------------------------------------------
(* Arithmetic of packets.                                                  *)

LEMMA Sizes ==
  /\ CHUNK \in Nat \ {0} /\ COLUMN \in Nat /\ HEADER \in Nat /\ HEADER > CHUNK
  /\ MaxData \in Nat /\ Columns \subseteq Nat
  BY UploadAssumption

LEMMA WholeChunks ==
  ASSUME NEW n \in Nat
  PROVE  /\ n * CHUNK \in Nat
         /\ n * CHUNK = 0 <=> n = 0
         /\ n * CHUNK = CHUNK <=> n = 1
         /\ (n + 1) * CHUNK = n * CHUNK + CHUNK
         /\ (n * CHUNK) \div CHUNK = n
  <1> USE Sizes
  <1>1. n * CHUNK \in Nat OBVIOUS
  <1>2. (n + 1) * CHUNK = n * CHUNK + CHUNK OBVIOUS
  <1>3. n * CHUNK = 0 <=> n = 0 OBVIOUS
  <1>4. n * CHUNK = CHUNK <=> n = 1
    <2>1. n * CHUNK = CHUNK => (n - 1) * CHUNK = 0 OBVIOUS
    <2>2. (n - 1) * CHUNK = 0 => n - 1 = 0 OBVIOUS
    <2> QED BY <2>1, <2>2
  <1>5. (n * CHUNK) \div CHUNK = n OBVIOUS
  <1> QED BY <1>1, <1>2, <1>3, <1>4, <1>5

LEMMA AnnouncedType ==
  ASSUME NEW c \in Columns
  PROVE  Announced(c) \in Nat /\ Announced(c) > CHUNK
  <1>1. COLUMN * c \in Nat BY Sizes
  <1> QED BY <1>1, Sizes DEF Announced

LEMMA CapacityType ==
  ASSUME NEW total \in Nat \cup {NoTotal}
  PROVE  Capacity(total) \in Nat
  <1> DEFINE bytes == IF total = NoTotal THEN HEADER ELSE total
  <1>1. bytes + CHUNK - 1 \in Nat BY Sizes DEF NoTotal
  <1>2. Capacity(total) = ((bytes + CHUNK - 1) \div CHUNK) * CHUNK BY DEF Capacity
  <1> HIDE DEF bytes
  <1>3. (bytes + CHUNK - 1) \div CHUNK \in Nat BY <1>1, Sizes
  <1> QED BY <1>2, <1>3, Sizes

-----------------------------------------------------------------------------
(* The transfer and the buffer as a packet finds them.                     *)

(* What a packet finds after a start packet has restarted the transfer is  *)
(* as sound as what was there.                                             *)
LEMMA ResumedSound ==
  ASSUME Inv, NEW packet \in Packet
  PROVE  /\ Resumed(packet).received \in Nat
         /\ Resumed(packet).total \in Nat \cup {NoTotal}
         /\ Freed(packet).capacity \in Nat /\ Freed(packet).data \in Seq(Good)
         /\ Resumed(packet).received = Len(Freed(packet).data) * CHUNK
         /\ Len(Freed(packet).data) < 2 => Resumed(packet).total = NoTotal
         /\ Len(Freed(packet).data) >= 2 =>
               /\ Freed(packet).data[2] \in Columns
               /\ Resumed(packet).total = Announced(Freed(packet).data[2])
               /\ Resumed(packet).total <= MaxData
               /\ Resumed(packet).received < Resumed(packet).total
  <1>1. CASE packet = Start
    BY <1>1, Sizes DEF Resumed, Freed, NewTransfer, NoBuffer, NoData
  <1>2. CASE packet # Start
    BY <1>2 DEF Resumed, Freed, Inv, TypeOK, Counted, Good
  <1> QED BY <1>1, <1>2

LEMMA FilledIs ==
  ASSUME Inv, NEW packet \in Packet
  PROVE  Filled(packet) = Append(Freed(packet).data, packet)
  <1>1. Len(Freed(packet).data) \in Nat BY ResumedSound
  <1>2. Resumed(packet).received \div CHUNK = Len(Freed(packet).data)
    BY <1>1, ResumedSound, WholeChunks
  <1> QED BY <1>2, ResumedSound, SubSeqFull DEF Filled

(* An acceptable packet fits, goes behind the others, and announces the    *)
(* length if it is the second.                                             *)
LEMMA AcceptedPacket ==
  ASSUME Inv, NEW packet \in Packet, Acceptable(packet)
  PROVE  LET t == Resumed(packet)
             total == TotalWith(t, packet)
             old == Freed(packet).data
             new == Append(old, packet)
         IN  /\ packet \in Good /\ new \in Seq(Good) /\ Len(new) = Len(old) + 1
             /\ t.received + CHUNK = Len(new) * CHUNK
             /\ total \in Nat \cup {NoTotal}
             /\ Len(new) < 2 => total = NoTotal /\ packet = Start
             /\ total # NoTotal =>
                   /\ Len(new) >= 2 /\ new[2] \in Columns
                   /\ total = Announced(new[2]) /\ total <= MaxData
                   /\ (Len(new) - 1) * CHUNK < total
             /\ Len(new) >= 2 => total # NoTotal
             /\ packet # Start => old # <<>>
             /\ packet = Start => old = <<>>
             /\ t.received + CHUNK <= Capacity(total)
  <1> DEFINE t == Resumed(packet)
             total == TotalWith(t, packet)
             old == Freed(packet).data
             new == Append(old, packet)
             n == Len(old)
  <1>a. /\ old \in Seq(Good) /\ n \in Nat /\ t.received \in Nat
        /\ t.total \in Nat \cup {NoTotal} /\ t.received = n * CHUNK
        /\ n < 2 => t.total = NoTotal
        /\ n >= 2 => /\ old[2] \in Columns /\ t.total = Announced(old[2])
                     /\ t.total <= MaxData /\ t.received < t.total
    BY ResumedSound
  <1>b. packet \in Good BY DEF Acceptable, Good
  <1>c. /\ new \in Seq(Good) /\ Len(new) = n + 1 /\ new[n + 1] = packet
        /\ \A i \in 1 .. n : new[i] = old[i]
    BY <1>a, <1>b
  <1>d. /\ t.received = 0 => packet = Start
        /\ t.received = CHUNK => total <= MaxData
        /\ t.received + CHUNK <= Capacity(total)
    BY DEF Acceptable
  <1>e. (packet = Start <=> n = 0) /\ (old = <<>> <=> n = 0)
    <2>1. packet = Start => n = 0 BY DEF Freed, NoBuffer, NoData
    <2>2. n = 0 => packet = Start BY <1>a, <1>d, WholeChunks
    <2>3. old = <<>> <=> n = 0 BY <1>a, EmptySeq
    <2> QED BY <2>1, <2>2, <2>3
  <1>f. total = IF n = 1 /\ packet \in Columns THEN Announced(packet) ELSE t.total
    BY <1>a, WholeChunks DEF TotalWith
  <1>g. /\ t.received + CHUNK = (n + 1) * CHUNK
        /\ n = 1 => t.received = CHUNK
    BY <1>a, WholeChunks
  <1> HIDE DEF t, total, old, new, n
  <1>1. CASE n = 0
    BY <1>1, <1>a, <1>b, <1>c, <1>d, <1>e, <1>f, <1>g DEF t, total, old, new, n
  <1>2. CASE n = 1
    <2>1. packet \in Columns
      BY <1>2, <1>b, <1>e DEF Packet, Good
    <2>2. total = Announced(packet) /\ total \in Nat /\ total > CHUNK /\ total <= MaxData
      BY <1>2, <1>d, <1>f, <1>g, <2>1, AnnouncedType
    <2>3. new[2] = packet /\ Len(new) = 2 /\ (Len(new) - 1) * CHUNK = CHUNK
      BY <1>2, <1>c, Sizes
    <2>4. total # NoTotal BY <2>2 DEF NoTotal
    <2> QED BY <1>2, <1>a, <1>b, <1>c, <1>d, <1>e, <1>g, <2>1, <2>2, <2>3, <2>4
            DEF t, total, old, new, n
  <1>3. CASE n >= 2
    <2>1. total = t.total /\ t.total = Announced(old[2]) /\ old[2] \in Columns
      BY <1>3, <1>a, <1>f
    <2>2. new[2] = old[2] /\ Len(new) - 1 = n BY <1>3, <1>a, <1>c
    <2>3. total \in Nat /\ total # NoTotal BY <2>1, AnnouncedType DEF NoTotal
    <2> QED BY <1>3, <1>a, <1>b, <1>c, <1>d, <1>e, <1>g, <2>1, <2>2, <2>3
            DEF t, total, old, new, n
  <1> QED BY <1>a, <1>1, <1>2, <1>3

(* The buffer has grown to what the packet needs, and never shrinks. *)
LEMMA GrownFits ==
  ASSUME Inv, NEW packet \in Packet, Acceptable(packet)
  PROVE  /\ Grown(packet) \in Nat
         /\ Resumed(packet).received + CHUNK <= Grown(packet)
  <1> DEFINE wanted == Capacity(TotalWith(Resumed(packet), packet))
             have == Freed(packet).capacity
  <1>1. /\ TotalWith(Resumed(packet), packet) \in Nat \cup {NoTotal}
        /\ Resumed(packet).received + CHUNK <= wanted
    BY AcceptedPacket
  <1>2. wanted \in Nat BY <1>1, CapacityType
  <1>3. have \in Nat /\ Resumed(packet).received + CHUNK \in Nat BY ResumedSound, Sizes
  <1>4. Grown(packet) = IF wanted > have THEN wanted ELSE have BY DEF Grown
  <1> HIDE DEF wanted, have
  <1> QED BY <1>1, <1>2, <1>3, <1>4

-----------------------------------------------------------------------------
(* The invariant.                                                          *)

LEMMA AtRest == /\ NewTransfer \in [received : Nat, total : Nat \cup {NoTotal}]
                /\ NoBuffer \in [capacity : Nat, data : Seq(Good)]
                /\ NewTransfer.received = 0 /\ NewTransfer.total = NoTotal
                /\ NoBuffer.capacity = 0 /\ NoBuffer.data = NoData
                /\ NoData \in Seq(Good) /\ Len(NoData) = 0
  BY DEF NewTransfer, NoBuffer, NoData

LEMMA InitInv == Init => Inv
  BY AtRest, Sizes DEF Init, Inv, TypeOK, CopyFits, Counted, Good

LEMMA ResetInv ==
  ASSUME Inv, LegacyReset, copied' \in [end : Nat, room : Nat],
         copied'.end <= copied'.room, stored' \in Seq(Good)
  PROVE  Inv'
  BY AtRest, Sizes DEF Inv, TypeOK, CopyFits, Counted, Good, LegacyReset

LEMMA CopyInv ==
  ASSUME Inv, NEW packet \in Packet, Copy(packet)
  PROVE  copied' \in [end : Nat, room : Nat] /\ copied'.end <= copied'.room
  <1>1. Resumed(packet).received + CHUNK \in Nat BY ResumedSound, Sizes
  <1> QED BY <1>1, GrownFits DEF Copy

LEMMA ReceiveInv ==
  ASSUME Inv, NEW packet \in Packet, Receive(packet)
  PROVE  Inv'
  <1> DEFINE new == Append(Freed(packet).data, packet)
             total == TotalWith(Resumed(packet), packet)
             received == Resumed(packet).received + CHUNK
  <1>1. Acceptable(packet) BY DEF Receive, Copy
  <1>2. /\ rx' = [received |-> received, total |-> total]
        /\ heap' = [capacity |-> Grown(packet), data |-> new]
        /\ stored' = stored /\ Copy(packet)
        /\ ~(total # NoTotal /\ received >= total)
    BY FilledIs DEF Receive, Finished
  <1>a. /\ new \in Seq(Good) /\ received = Len(new) * CHUNK
        /\ Len(new) = Len(Freed(packet).data) + 1
        /\ total \in Nat \cup {NoTotal}
        /\ Len(new) < 2 => total = NoTotal
        /\ total # NoTotal => new[2] \in Columns /\ total = Announced(new[2])
                             /\ total <= MaxData
        /\ Len(new) >= 2 => total # NoTotal
        /\ Len(new) >= 2 => packet # Start /\ packet # Truncated
    BY <1>1, AcceptedPacket DEF Good
  <1>b. Len(Freed(packet).data) \in Nat /\ received \in Nat
    BY ResumedSound, Sizes
  <1>3. /\ new \in Seq(Good) /\ received = Len(new) * CHUNK /\ Len(new) \in Nat \ {0}
        /\ received \in Nat
        /\ total \in Nat \cup {NoTotal}
        /\ Len(new) < 2 => total = NoTotal
        /\ Len(new) >= 2 => new[2] \in Columns /\ total = Announced(new[2])
                            /\ total <= MaxData /\ total \in Nat /\ received < total
    <2> HIDE DEF new, total, received
    <2> QED BY <1>a, <1>b, <1>2 DEF NoTotal
  <1>4. Grown(packet) \in Nat /\ received <= Grown(packet) BY <1>1, GrownFits
  <1>5. copied' \in [end : Nat, room : Nat] /\ copied'.end <= copied'.room
    BY <1>2, CopyInv
  <1>6. new # NoData BY <1>3 DEF NoData
  <1> HIDE DEF new, total, received
  <1>7. Counted' BY <1>2, <1>3 DEF Counted
  <1>8. CopyFits' BY <1>2, <1>4, <1>5 DEF CopyFits
  <1>9. TypeOK' BY <1>2, <1>3, <1>4, <1>5 DEF TypeOK, Inv, Good
  <1> QED BY <1>2, <1>6, <1>7, <1>8, <1>9 DEF Inv

LEMMA FinishInv ==
  ASSUME Inv, NEW packet \in Packet, Finish(packet)
  PROVE  Inv'
  <1>1. Acceptable(packet) /\ Copy(packet) BY DEF Finish, Copy
  <1>2. stored' \in Seq(Good)
    <2>1. Filled(packet) \in Seq(Good) BY <1>1, AcceptedPacket, FilledIs
    <2> QED BY <2>1 DEF Finish, Inv, TypeOK, Good
  <1> QED BY <1>1, <1>2, CopyInv, ResetInv DEF Finish

LEMMA NextInv == Inv /\ [Next]_vars => Inv'
  <1> SUFFICES ASSUME Inv, [Next]_vars PROVE Inv' OBVIOUS
  <1>0. copied \in [end : Nat, room : Nat] /\ copied.end <= copied.room
        /\ stored \in Seq(Good)
    BY DEF Inv, TypeOK, CopyFits, Good
  <1>1. CASE UNCHANGED vars
    BY <1>1 DEF vars, Inv, TypeOK, CopyFits, Counted
  <1>2. ASSUME NEW packet \in Packet, Reject(packet) PROVE Inv'
    BY <1>0, <1>2, ResetInv DEF Reject
  <1>3. ASSUME NEW packet \in Packet, OutOfMemory(packet) PROVE Inv'
    BY <1>0, <1>3, ResetInv DEF OutOfMemory
  <1>4. CASE Disconnect
    BY <1>0, <1>4, ResetInv DEF Disconnect
  <1> QED BY <1>1, <1>2, <1>3, <1>4, ReceiveInv, FinishInv DEF Next, LegacyRx

LEMMA SpecInv == Spec => []Inv
  BY InitInv, NextInv, PTL DEF Spec

(* The variables keep their types; nothing truncated gets into the buffer  *)
(* or the flash (the length test of Transfer::accept).                     *)
THEOREM UploadTypeCorrect == Spec => []TypeOK
  <1>1. Inv => TypeOK BY DEF Inv
  <1> QED BY <1>1, SpecInv, PTL

(* Every copy ends within the buffer that was allocated for it, whatever   *)
(* the sizes of packet, header and column (Transfer::accept and the        *)
(* realloc of legacy_ble_rx).                                              *)
THEOREM EveryCopyFits == Spec => []CopyFits
  <1>1. Inv => CopyFits BY DEF Inv
  <1> QED BY <1>1, SpecInv, PTL

(* There is a buffer exactly while a transfer has received something, and  *)
(* it holds exactly what was received (legacy_ble_reset).                  *)
THEOREM BufferLivesWithTransfer == Spec => []BufferIsReleased
  <1>1. ASSUME Inv PROVE BufferIsReleased
    <2>1. Len(heap.data) \in Nat /\ rx.received = Len(heap.data) * CHUNK
          /\ rx.received <= heap.capacity /\ heap.capacity \in Nat
          /\ heap.data \in Seq(Good)
      BY <1>1 DEF Inv, TypeOK, CopyFits, Counted, Good
    <2>2. rx.received = 0 <=> heap.data = NoData
      <3>1. rx.received = 0 <=> Len(heap.data) = 0 BY <2>1, WholeChunks
      <3> QED BY <2>1, <3>1, EmptySeq DEF NoData
    <2>3. rx.received \in Nat BY <2>1, WholeChunks
    <2> QED BY <1>1, <2>1, <2>2, <2>3 DEF Inv, BufferIsReleased
  <1> QED BY <1>1, SpecInv, PTL

-----------------------------------------------------------------------------
(* The receiver implements UploadStore: a packet that is copied begins or  *)
(* continues the pending run, the last one stores it, and whatever resets  *)
(* the transfer abandons it.                                               *)

LEMMA InitStore == Init => Store!Init
  BY AtRest DEF Init, Store!Init, NoData

LEMMA ResetAbandons ==
  ASSUME LegacyReset, stored' = stored PROVE Store!Abandon
  BY AtRest DEF LegacyReset, Store!Abandon, NoData

LEMMA ReceiveContinues ==
  ASSUME Inv, NEW packet \in Packet, Receive(packet)
  PROVE  Store!Begin \/ Store!Continue
  <1>1. /\ Acceptable(packet) /\ stored' = stored
        /\ heap'.data = Append(Freed(packet).data, packet)
    BY FilledIs DEF Receive, Copy
  <1>2. CASE packet = Start
    <2>1. Freed(packet).data = <<>> BY <1>2, AtRest DEF Freed, NoData
    <2>2. heap'.data = <<Start>> BY <1>1, <1>2, <2>1
    <2> QED BY <1>1, <2>2 DEF Store!Begin
  <1>3. CASE packet # Start
    <2>1. Freed(packet) = heap BY <1>3 DEF Freed
    <2>2. heap.data # <<>> BY <1>1, <1>3, <2>1, AcceptedPacket
    <2> QED BY <1>1, <2>1, <2>2 DEF Store!Continue
  <1> QED BY <1>2, <1>3

(* What is finished is whole: as long as its second packet announces. *)
LEMMA FinishedIsWhole ==
  ASSUME Inv, NEW packet \in Packet, Acceptable(packet), Finished(packet)
  PROVE  /\ WholeUpload(Append(Freed(packet).data, packet))
         /\ packet # Start /\ heap.data # <<>> /\ Freed(packet) = heap
  <1> DEFINE new == Append(Freed(packet).data, packet)
             total == TotalWith(Resumed(packet), packet)
  <1>1. total # NoTotal /\ Resumed(packet).received + CHUNK >= total
    BY DEF Finished
  <1>2. /\ Len(new) >= 2 /\ new[2] \in Columns /\ total = Announced(new[2])
        /\ total <= MaxData /\ (Len(new) - 1) * CHUNK < total
        /\ Resumed(packet).received + CHUNK = Len(new) * CHUNK
    BY <1>1, AcceptedPacket
  <1>3. packet # Start
    BY <1>2, AcceptedPacket, AtRest DEF Freed, NoData
  <1>4. Freed(packet) = heap /\ heap.data # <<>>
    BY <1>3, AcceptedPacket DEF Freed
  <1> HIDE DEF new
  <1>5. WholeUpload(new)
    BY <1>1, <1>2 DEF WholeUpload
  <1> QED BY <1>3, <1>4, <1>5 DEF new

LEMMA FinishStores ==
  ASSUME Inv, NEW packet \in Packet, Finish(packet)
  PROVE  Store!Store \/ Store!Abandon
  <1>1. Acceptable(packet) /\ Finished(packet) /\ LegacyReset
        /\ (stored' = Append(Freed(packet).data, packet) \/ stored' = stored)
    BY FilledIs DEF Finish, Copy
  <1>2. CASE stored' = stored BY <1>1, <1>2, ResetAbandons
  <1>3. CASE stored' = Append(Freed(packet).data, packet)
    <2>1. heap'.data = <<>> BY <1>1, AtRest DEF LegacyReset, NoData
    <2> QED BY <1>1, <1>3, <2>1, FinishedIsWhole DEF Store!Store
  <1> QED BY <1>1, <1>2, <1>3

(* Whatever packets come, in whatever order, and whatever fails, the flash *)
(* receives whole uploads only, each one run of consecutive packets.       *)
THEOREM ImplementsUploadStore == Spec => StoresWholeUploads
  <1>1. ASSUME Inv, [Next]_vars PROVE [Store!Next]_(Store!vars)
    <2>1. CASE UNCHANGED vars BY <2>1 DEF vars, Store!vars
    <2>2. ASSUME NEW packet \in Packet, Reject(packet) \/ OutOfMemory(packet)
          PROVE  Store!Next
      BY <2>2, ResetAbandons DEF Reject, OutOfMemory, Store!Next
    <2>3. CASE Disconnect
      BY <2>3, ResetAbandons DEF Disconnect, Store!Next
    <2>4. ASSUME NEW packet \in Packet, Receive(packet) PROVE Store!Next
      BY <1>1, <2>4, ReceiveContinues DEF Store!Next
    <2>5. ASSUME NEW packet \in Packet, Finish(packet) PROVE Store!Next
      BY <1>1, <2>5, FinishStores DEF Store!Next
    <2> QED BY <1>1, <2>1, <2>2, <2>3, <2>4, <2>5 DEF Next, LegacyRx
  <1> QED BY <1>1, InitStore, SpecInv, PTL DEF Spec, StoresWholeUploads, Store!Spec

-----------------------------------------------------------------------------
(* The panel.                                                              *)

(* What the running handler still comes to.                                *)

Comes(s, op) == \E i \in DOMAIN s : s[i] = op

(* One of ops is still to come, and nothing after it undoes it. *)
EndsIn(s, ops, undo) ==
    \E i \in DOMAIN s : /\ s[i] \in ops
                        /\ \A j \in DOMAIN s : j > i => s[j] \notin undo

(* A stream takes the panel right after the overlay has lost it. *)
StreamsLast(s) ==
    \A i \in DOMAIN s : s[i] = "streaming_on" /\ i > 1 => s[i - 1] = "relinquish"

LEMMA NothingComes ==
  /\ \A op : ~Comes(<<>>, op)
  /\ \A ops, undo : ~EndsIn(<<>>, ops, undo)
  /\ StreamsLast(<<>>)
  BY DEF Comes, EndsIn, StreamsLast

LEMMA TailIs ==
  ASSUME NEW S, NEW s \in Seq(S), s # <<>>
  PROVE  /\ Tail(s) \in Seq(S)
         /\ Len(s) \in Nat /\ Len(s) > 0 /\ DOMAIN s = 1 .. Len(s)
         /\ Head(s) = s[1] /\ Head(s) \in S
         /\ DOMAIN Tail(s) = 1 .. (Len(s) - 1)
         /\ \A i \in 1 .. (Len(s) - 1) : Tail(s)[i] = s[i + 1]
  <1>1. Len(s) \in Nat /\ DOMAIN s = 1 .. Len(s) BY LenProperties
  <1>2. Len(s) > 0 BY <1>1, EmptySeq
  <1>3. Tail(s) \in Seq(S) /\ Len(Tail(s)) = Len(s) - 1 /\ Head(s) \in S
    BY HeadTailProperties
  <1>4. DOMAIN Tail(s) = 1 .. (Len(s) - 1) BY <1>3, LenProperties
  <1>5. \A i \in 1 .. (Len(s) - 1) : Tail(s)[i] = s[i + 1] BY HeadTailProperties
  <1> QED BY <1>1, <1>2, <1>3, <1>4, <1>5

LEMMA AfterHead ==
  ASSUME NEW S, NEW s \in Seq(S), s # <<>>
  PROVE  /\ \A op : Comes(s, op) <=> Head(s) = op \/ Comes(Tail(s), op)
         /\ \A ops, undo : EndsIn(s, ops, undo) =>
               \/ EndsIn(Tail(s), ops, undo)
               \/ Head(s) \in ops /\ \A op \in undo : ~Comes(Tail(s), op)
         /\ StreamsLast(s) =>
               /\ StreamsLast(Tail(s))
               /\ Tail(s) # <<>> /\ Head(Tail(s)) = "streaming_on" => Head(s) = "relinquish"
  <1> DEFINE r == Tail(s)
             n == Len(s)
  <1>1. /\ r \in Seq(S) /\ n \in Nat /\ n > 0 /\ DOMAIN s = 1 .. n
        /\ Head(s) = s[1] /\ DOMAIN r = 1 .. (n - 1)
        /\ \A i \in 1 .. (n - 1) : r[i] = s[i + 1]
    BY TailIs
  <1>2. r # <<>> => n > 1 /\ Head(r) = r[1]
    BY <1>1, TailIs
  <1> HIDE DEF r, n
  <1>3. ASSUME NEW op PROVE Comes(s, op) <=> Head(s) = op \/ Comes(r, op)
    <2>1. ASSUME Comes(s, op), Head(s) # op PROVE Comes(r, op)
      <3>1. PICK i \in 1 .. n : s[i] = op BY <1>1, <2>1 DEF Comes
      <3>2. i - 1 \in 1 .. (n - 1) /\ r[i - 1] = op BY <1>1, <2>1, <3>1
      <3> QED BY <1>1, <3>2 DEF Comes
    <2>2. ASSUME Head(s) = op PROVE Comes(s, op)
      BY <1>1, <2>2 DEF Comes
    <2>3. ASSUME Comes(r, op) PROVE Comes(s, op)
      <3>1. PICK i \in 1 .. (n - 1) : r[i] = op BY <1>1, <2>3 DEF Comes
      <3>2. i + 1 \in 1 .. n /\ s[i + 1] = op BY <1>1, <3>1
      <3> QED BY <1>1, <3>2 DEF Comes
    <2> QED BY <2>1, <2>2, <2>3
  <1>4. ASSUME NEW ops, NEW undo, EndsIn(s, ops, undo)
        PROVE  \/ EndsIn(r, ops, undo)
               \/ Head(s) \in ops /\ \A op \in undo : ~Comes(r, op)
    <2>1. PICK i \in 1 .. n : s[i] \in ops /\ \A j \in 1 .. n : j > i => s[j] \notin undo
      BY <1>1, <1>4 DEF EndsIn
    <2>2. CASE i = 1
      <3>1. \A j \in 1 .. (n - 1) : r[j] \notin undo
        <4> TAKE j \in 1 .. (n - 1)
        <4>1. j + 1 \in 1 .. n /\ j + 1 > i BY <1>1, <2>2
        <4> QED BY <1>1, <2>1, <4>1
      <3> QED BY <1>1, <2>1, <2>2, <3>1 DEF Comes
    <2>3. CASE i # 1
      <3>1. i - 1 \in 1 .. (n - 1) /\ r[i - 1] = s[i] BY <1>1, <2>3
      <3>2. \A j \in 1 .. (n - 1) : j > i - 1 => r[j] \notin undo
        <4> SUFFICES ASSUME NEW j \in 1 .. (n - 1), j > i - 1 PROVE r[j] \notin undo
          OBVIOUS
        <4>1. j + 1 \in 1 .. n /\ j + 1 > i BY <1>1
        <4> QED BY <1>1, <2>1, <4>1
      <3> QED BY <1>1, <2>1, <3>1, <3>2 DEF EndsIn
    <2> QED BY <2>2, <2>3
  <1>5. ASSUME StreamsLast(s)
        PROVE  /\ StreamsLast(r)
               /\ r # <<>> /\ Head(r) = "streaming_on" => Head(s) = "relinquish"
    <2>1. ASSUME NEW i \in 1 .. (n - 1), r[i] = "streaming_on", i > 1
          PROVE  r[i - 1] = "relinquish"
      <3>1. s[i + 1] = "streaming_on" /\ i + 1 \in 1 .. n /\ i + 1 > 1 BY <1>1, <2>1
      <3>2. s[(i + 1) - 1] = "relinquish" BY <1>1, <1>5, <3>1 DEF StreamsLast
      <3>3. i - 1 \in 1 .. (n - 1) /\ (i - 1) + 1 = (i + 1) - 1 BY <1>1, <2>1
      <3> QED BY <1>1, <3>2, <3>3
    <2>2. ASSUME r # <<>>, Head(r) = "streaming_on" PROVE Head(s) = "relinquish"
      <3>1. s[2] = "streaming_on" /\ 2 \in 1 .. n BY <1>1, <1>2, <2>2
      <3>2. 2 > 1 /\ 2 - 1 = 1 OBVIOUS
      <3>3. s[1] = "relinquish" BY <1>1, <1>5, <3>1, <3>2 DEF StreamsLast
      <3> QED BY <1>1, <3>3
    <2> QED BY <1>1, <2>1, <2>2 DEF StreamsLast
  <1> QED BY <1>3, <1>4, <1>5 DEF r

-----------------------------------------------------------------------------
(* The invariant.                                                          *)

BoardType ==
    [mode : {"NORMAL", "DOWNLOAD", "POWER_OFF"}, streaming : BOOLEAN,
     counter_view : BOOLEAN, always_on : BOOLEAN, conn : BOOLEAN,
     handle : BOOLEAN, tmr0 : BOOLEAN]

Drawing == call.at \in {"stop", "column", "commit", "own"}

(* What a call that is under way has already done: the columns before x    *)
(* are written, then the buffer is complete, then it is the one read.      *)
Drawn ==
    /\ Drawing => survey_allowed /\ display_active /\ rt.last_frame = call.frame
    /\ call.at = "stop" => ~overlay.owned
    /\ call.at = "column" =>
          \A c \in LedColumns : c < call.x => overlay.fb[Inactive][c] = call.frame
    /\ call.at = "commit" => overlay.fb[Inactive] = Whole(call.frame)
    /\ call.at = "own" => overlay.fb[overlay.index] = Whole(call.frame)
    /\ call.at = "release" => ~display_active /\ rt.last_frame = NoFrame
    /\ call.at = "restart" => survey_allowed

(* Reducer, adapter and overlay agree. *)
Agreed ==
    /\ display_active = overlay.owned
    /\ overlay.owned = (rt.last_frame # NoFrame)
    /\ overlay.owned => overlay.fb[overlay.index] = Whole(rt.last_frame)

(* While the survey may draw they agree and stay so, or the handler is     *)
(* still to tell the reducer, or to hand the panel to a stream.            *)
Told ==
    survey_allowed =>
        \/ /\ ~Comes(todo, "relinquish")
           /\ call.at \in {"none", "sdk", "restart"} => Agreed
        \/ EndsIn(todo, {"View", "streaming_on"}, {"relinquish"})

(* Who may not draw has the panel only until the handler relinquishes it. *)
Yielded ==
    /\ overlay.owned /\ ~survey_allowed => Comes(todo, "relinquish")
    /\ StreamsLast(todo)
    /\ todo # <<>> /\ Head(todo) = "streaming_on" => ~overlay.owned /\ call.at = "none"

StartOf(mode) ==
    IF mode = "NORMAL" THEN "start_normal_animation" ELSE "start_ble_animation"

StepOf(mode) == IF mode = "NORMAL" THEN "ANI_NEXT_STEP" ELSE "BLE_NEXT_STEP"

Ends == {"stop_all_animation", "relinquish"}

Scheduled == StepOf(board.mode) \in tasks.timers \cup tasks.events

(* An animation that nobody has replaced goes on or is still to be started;*)
(* and a handler starts that of its mode only.                             *)
Animated ==
    /\ Comes(todo, "start_normal_animation") => board.mode = "NORMAL"
    /\ Comes(todo, "start_ble_animation") => board.mode # "NORMAL"
    /\ board.mode # "POWER_OFF" /\ ~board.streaming =>
          \/ Comes(todo, "streaming_on")
          \/ EndsIn(todo, {StartOf(board.mode)}, Ends)
          \/ /\ ~Comes(todo, "stop_all_animation") /\ ~Comes(todo, "relinquish")
             /\ overlay.owned \/ Drawing \/ call.at = "restart" \/ Scheduled

(* A badge that is off is dark with its timer stopped, or becomes so. *)
Darkened ==
    board.mode = "POWER_OFF" =>
        /\ ~Comes(todo, "timer_on")
        /\ board.tmr0 => Comes(todo, "timer_off")
        /\ \/ EndsIn(todo, {"leds_releaseall"}, {"timer_off"})
           \/ ~board.tmr0 /\ panel.shows = Whole(DARK)

PanelInv ==
    /\ DisplayTypeOK /\ OverlayIsWhole
    /\ Drawn /\ Told /\ Yielded /\ Animated /\ Darkened

-----------------------------------------------------------------------------
(* Types.                                                                  *)

LEMMA PanelSizes ==
  /\ LED_COLS \in Nat /\ LED_COLS > 0 /\ LED_COLS \div 2 \in Nat /\ LED_COLS \div 2 > 0
  /\ 0 \in LedColumns
  <1>1. LED_COLS \in Nat /\ LED_COLS > 0 /\ LED_COLS % 2 = 0 BY DisplayAssumption
  <1>2. LED_COLS > 1 BY <1>1
  <1>3. LED_COLS \div 2 \in Nat /\ LED_COLS \div 2 > 0 BY <1>1, <1>2
  <1> QED BY <1>1, <1>3 DEF LedColumns

LEMMA CallTypes ==
  /\ \A place \in {"none", "sdk", "release", "restart"} : At(place) \in CallType
  /\ \A place : At(place).at = place
  /\ \A f \in Frame, x \in LedColumns :
        /\ Column(f, x) \in CallType
        /\ [Column(f, x) EXCEPT !.at = "stop"] \in CallType
        /\ [Column(f, x) EXCEPT !.at = "commit"] \in CallType
        /\ [Column(f, x) EXCEPT !.at = "own"] \in CallType
  BY DEF At, Column, CallType

LEMMA DrawingType ==
  ASSUME call \in CallType, Drawing
  PROVE  call.frame \in Frame /\ call.x \in LedColumns /\ call = [Column(call.frame, call.x) EXCEPT !.at = call.at]
  BY DEF CallType, Drawing, Column

LEMMA PlaceType ==
  ASSUME call \in CallType
  PROVE  call.at \in {"none", "sdk", "release", "restart", "stop", "column", "commit", "own"}
  BY DEF CallType

(* No event of dispatch() is a statement of another kind. *)
LEMMA KindsAreNoStatements ==
  Kinds \cap {"relinquish", "stop_all_animation", "start_normal_animation",
              "start_ble_animation", "timer_off", "timer_on", "name_view",
              "streaming_on", "leds_releaseall"} = {}
  BY DEF Kinds, Callbacks

(* The head of the plan is done. *)
LEMMA Popped ==
  ASSUME PanelInv, todo # <<>>, todo' = Tail(todo), NEW op, op = Head(todo)
  PROVE  /\ todo' \in Seq(Statements)
         /\ \A x : Comes(todo, x) <=> op = x \/ Comes(todo', x)
         /\ \A ops, undo : EndsIn(todo, ops, undo) =>
               \/ EndsIn(todo', ops, undo)
               \/ op \in ops /\ \A x \in undo : ~Comes(todo', x)
         /\ StreamsLast(todo')
         /\ todo' # <<>> /\ Head(todo') = "streaming_on" => op = "relinquish"
  BY AfterHead, TailIs DEF PanelInv, DisplayTypeOK, Yielded

-----------------------------------------------------------------------------
(* A dispatch: first the reducer.                                          *)

LEMMA AnswerIs ==
  ASSUME NEW in \in inputs, NEW kind, NEW next \in Watch, NEW owned \in BOOLEAN,
         NEW frame \in Frame \cup {NoFrame}, rt \in Watch,
         Answers(rt, in, kind, next, owned, frame)
  PROVE  /\ owned = (next.last_frame # NoFrame)
         /\ owned => survey_allowed
         /\ frame # NoFrame => frame = next.last_frame /\ frame \in Frame
         /\ frame = NoFrame =>
               \/ next.last_frame = NoFrame
               \/ kind # "View" /\ next.last_frame = rt.last_frame
  <1>1. in.allowed = survey_allowed BY DEF inputs
  <1>2. CASE Rendered(rt, in, kind, next, owned, frame)
    BY <1>1, <1>2 DEF Rendered, LastFrameAfter
  <1>3. CASE Kept(rt, in, kind, next, owned, frame)
    BY <1>1, <1>3 DEF Kept, MayAlert
  <1> QED BY <1>2, <1>3 DEF Answers

LEMMA RunDispatchInv == ASSUME PanelInv, RunDispatch PROVE PanelInv'
  <1>0. /\ DisplayTypeOK /\ call \in CallType /\ rt \in Watch /\ todo \in Seq(Statements)
        /\ board.mode \in {"NORMAL", "DOWNLOAD", "POWER_OFF"}
    BY DEF PanelInv, DisplayTypeOK
  <1>1. PICK kind \in Kinds, in \in inputs, next \in Watch, owned \in BOOLEAN,
             frame \in Frame \cup {NoFrame} :
          /\ Dispatched(kind)
          /\ Answers(rt, in, kind, next, owned, frame)
          /\ rt' = next
          /\ display_active' = owned
          /\ call' = IF ~owned THEN At("release")
                     ELSE IF frame # NoFrame THEN Present(frame) ELSE At("sdk")
    BY DEF RunDispatch
  <1>2. UNCHANGED <<board, overlay, tasks, panel>> BY DEF RunDispatch
  <1>3. /\ owned = (next.last_frame # NoFrame)
        /\ owned => survey_allowed
        /\ frame # NoFrame => frame = next.last_frame /\ frame \in Frame
        /\ frame = NoFrame =>
              \/ next.last_frame = NoFrame
              \/ kind # "View" /\ next.last_frame = rt.last_frame
    BY <1>0, <1>1, AnswerIs
  <1>4. call.at \in {"none", "sdk"} /\ survey_allowed' = survey_allowed
    BY <1>1, <1>2 DEF Dispatched, survey_allowed
  <1>5. \/ ~owned /\ call' = At("release")
        \/ owned /\ frame = NoFrame /\ call' = At("sdk")
        \/ owned /\ frame # NoFrame /\ overlay.owned /\ call' = Column(frame, 0)
        \/ /\ owned /\ frame # NoFrame /\ ~overlay.owned
           /\ call' = [Column(frame, 0) EXCEPT !.at = "stop"]
    BY <1>1, <1>3 DEF Present
  <1>5a. call'.at = IF ~owned THEN "release"
                    ELSE IF frame = NoFrame THEN "sdk"
                    ELSE IF overlay.owned THEN "column" ELSE "stop"
    BY <1>5 DEF At, Column
  <1>6. /\ todo' \in Seq(Statements)
        /\ \A x : x \notin Kinds => (Comes(todo, x) <=> Comes(todo', x))
        /\ \A ops, undo : EndsIn(todo, ops, undo) =>
              \/ EndsIn(todo', ops, undo)
              \/ kind \in ops /\ \A x \in undo : ~Comes(todo', x)
        /\ StreamsLast(todo')
        /\ ~(todo' # <<>> /\ Head(todo') = "streaming_on")
    <2>1. CASE todo # <<>> /\ Head(todo) = kind /\ todo' = Tail(todo)
      BY <2>1, Popped, KindsAreNoStatements
    <2>2. CASE call.at = "sdk" /\ UNCHANGED todo
      BY <1>0, <2>2 DEF PanelInv, Yielded
    <2> QED BY <1>1, <2>1, <2>2 DEF Dispatched
  <1>7. DisplayTypeOK'
    <2>1. call' \in CallType BY <1>3, <1>5, CallTypes, PanelSizes
    <2> QED BY <1>0, <1>1, <1>2, <1>6, <2>1 DEF DisplayTypeOK
  <1>8. OverlayIsWhole' BY <1>2 DEF PanelInv, OverlayIsWhole
  <1>9. Drawn'
    <2>1. CASE call'.at \in {"release", "sdk"}
      BY <1>1, <1>3, <1>5a, <2>1 DEF Drawn, Drawing
    <2>2. CASE owned /\ frame # NoFrame /\ overlay.owned /\ call' = Column(frame, 0)
      BY <1>1, <1>2, <1>3, <1>4, <2>2 DEF Drawn, Drawing, Column, LedColumns
    <2>3. CASE /\ owned /\ frame # NoFrame /\ ~overlay.owned
               /\ call' = [Column(frame, 0) EXCEPT !.at = "stop"]
      BY <1>1, <1>2, <1>3, <1>4, <2>3 DEF Drawn, Drawing, Column
    <2> QED BY <1>5, <1>5a, <2>1, <2>2, <2>3
  <1>10. Told'
    <2> SUFFICES ASSUME survey_allowed,
                        ~EndsIn(todo', {"View", "streaming_on"}, {"relinquish"})
                 PROVE  /\ ~Comes(todo', "relinquish")
                        /\ call'.at \in {"none", "sdk", "restart"} => Agreed'
      BY <1>4 DEF Told
    <2>1. CASE ~Comes(todo, "relinquish") /\ Agreed
      <3>1. ~Comes(todo', "relinquish") BY <1>6, <2>1, KindsAreNoStatements
      <3>2. ASSUME call'.at \in {"none", "sdk", "restart"} PROVE Agreed'
        <4>1. owned /\ frame = NoFrame
          BY <1>5a, <3>2
        <4> QED BY <1>1, <1>2, <1>3, <2>1, <4>1 DEF Agreed
      <3> QED BY <3>1, <3>2
    <2>2. CASE EndsIn(todo, {"View", "streaming_on"}, {"relinquish"})
      <3>1. kind = "View" /\ ~Comes(todo', "relinquish")
        BY <1>1, <1>6, <2>2, KindsAreNoStatements
      <3>2. call'.at \notin {"none", "sdk", "restart"}
        BY <1>3, <1>5a, <3>1
      <3> QED BY <3>1, <3>2
    <2>3. call.at \in {"none", "sdk", "restart"} BY <1>4
    <2> QED BY <2>1, <2>2, <2>3 DEF PanelInv, Told
  <1>11. Yielded'
    BY <1>2, <1>4, <1>6, KindsAreNoStatements DEF PanelInv, Yielded
  <1>12. Animated'
    <2>1. /\ \A x \in {"start_normal_animation", "start_ble_animation", "streaming_on",
                       "stop_all_animation", "relinquish"} :
                Comes(todo', x) <=> Comes(todo, x)
          /\ EndsIn(todo, {StartOf(board.mode)}, Ends) =>
                EndsIn(todo', {StartOf(board.mode)}, Ends)
      BY <1>6, KindsAreNoStatements DEF StartOf
    <2>2. ~Drawing /\ call.at # "restart" BY <1>4 DEF Drawing
    <2> QED BY <1>2, <2>1, <2>2 DEF PanelInv, Animated, Scheduled
  <1>13. Darkened'
    <2>1. /\ \A x \in {"timer_on", "timer_off"} : Comes(todo', x) <=> Comes(todo, x)
          /\ EndsIn(todo, {"leds_releaseall"}, {"timer_off"}) =>
                EndsIn(todo', {"leds_releaseall"}, {"timer_off"})
      BY <1>6, KindsAreNoStatements
    <2> QED BY <1>2, <2>1 DEF PanelInv, Darkened
  <1> QED BY <1>7, <1>8, <1>9, <1>10, <1>11, <1>12, <1>13 DEF PanelInv

-----------------------------------------------------------------------------
(* A dispatch: then the panel.                                             *)

(* No step of a call touches the plan or the board: what is left to do is  *)
(* left to do, and a badge that is off stays as dark as it was.            *)
LEMMA CallKeepsPlan ==
  ASSUME PanelInv, UNCHANGED <<board, rt, display_active, panel, todo>>
  PROVE  /\ survey_allowed' = survey_allowed
         /\ Darkened' /\ StreamsLast(todo')
         /\ call' \in CallType /\ UNCHANGED <<overlay, tasks>> => DisplayTypeOK'
  BY DEF PanelInv, survey_allowed, Darkened, Yielded, DisplayTypeOK

LEMMA RunReturnInv == ASSUME PanelInv, RunReturn PROVE PanelInv'
  <1>1. /\ call.at = "sdk" /\ call' = At("none") /\ call'.at = "none"
        /\ UNCHANGED <<board, rt, display_active, overlay, tasks, panel, todo>>
    BY CallTypes DEF RunReturn
  <1>2. DisplayTypeOK' /\ Darkened' /\ survey_allowed' = survey_allowed
    BY <1>1, CallKeepsPlan, CallTypes
  <1>3. OverlayIsWhole' BY <1>1 DEF PanelInv, OverlayIsWhole
  <1>4. Drawn' BY <1>1 DEF Drawn, Drawing
  <1>5. Told' BY <1>1, <1>2 DEF PanelInv, Told, Agreed
  <1>6. Yielded' BY <1>1, <1>2 DEF PanelInv, Yielded
  <1>7. Animated' BY <1>1 DEF PanelInv, Animated, Drawing, Scheduled
  <1> QED BY <1>2, <1>3, <1>4, <1>5, <1>6, <1>7 DEF PanelInv

LEMMA RunReleaseInv == ASSUME PanelInv, RunRelease PROVE PanelInv'
  <1>0. DisplayTypeOK BY DEF PanelInv
  <1>1. /\ call.at = "release"
        /\ overlay' = [overlay EXCEPT !.owned = FALSE]
        /\ call' = At(IF overlay.owned /\ survey_allowed THEN "restart" ELSE "sdk")
        /\ call'.at = IF overlay.owned /\ survey_allowed THEN "restart" ELSE "sdk"
        /\ UNCHANGED <<board, rt, display_active, tasks, panel, todo>>
    BY CallTypes DEF RunRelease
  <1>2. Darkened' /\ StreamsLast(todo') /\ survey_allowed' = survey_allowed
    BY <1>1, CallKeepsPlan
  <1>3. ~overlay'.owned BY <1>0, <1>1 DEF DisplayTypeOK
  <1>4. DisplayTypeOK'
    <2>1. call' \in CallType BY <1>1, CallTypes
    <2> QED BY <1>0, <1>1, <2>1 DEF DisplayTypeOK
  <1>5. OverlayIsWhole' BY <1>3 DEF OverlayIsWhole
  <1>6. Drawn' BY <1>1, <1>2 DEF Drawn, Drawing
  <1>7. Told'
    <2>1. ~display_active' /\ rt'.last_frame = NoFrame /\ display_active' \in BOOLEAN
      BY <1>1, <1>4 DEF PanelInv, Drawn, DisplayTypeOK
    <2>2. Agreed'
      <3>1. overlay'.owned \in BOOLEAN BY <1>4 DEF DisplayTypeOK
      <3> QED BY <1>3, <2>1, <3>1 DEF Agreed
    <2> QED BY <1>1, <1>2, <2>2 DEF PanelInv, Told
  <1>8. Yielded' BY <1>1, <1>2, <1>3 DEF PanelInv, Yielded
  <1>9. Animated'
    <2>1. CASE overlay.owned /\ survey_allowed
      BY <1>1, <2>1 DEF PanelInv, Animated
    <2>2. CASE overlay.owned /\ ~survey_allowed
      BY <1>1, <2>2 DEF PanelInv, Animated, Yielded
    <2>3. CASE ~overlay.owned
      BY <1>1, <2>3 DEF PanelInv, Animated, Drawing, Scheduled
    <2> QED BY <2>1, <2>2, <2>3
  <1> QED BY <1>2, <1>4, <1>5, <1>6, <1>7, <1>8, <1>9 DEF PanelInv

LEMMA RunAnimationInv == ASSUME PanelInv, RunAnimation PROVE PanelInv'
  <1>0. DisplayTypeOK BY DEF PanelInv
  <1>1. /\ \/ call.at = "restart" /\ tasks' = Started("ANI_NEXT_STEP") /\ call' = At("sdk")
           \/ call.at = "stop" /\ tasks' = Stopped /\ call' = Column(call.frame, 0)
        /\ UNCHANGED <<board, rt, display_active, overlay, panel, todo>>
    BY DEF RunAnimation
  <1>2. Darkened' /\ StreamsLast(todo') /\ survey_allowed' = survey_allowed
    BY <1>1, CallKeepsPlan
  <1>3. OverlayIsWhole' BY <1>1 DEF PanelInv, OverlayIsWhole
  <1>4. Yielded' BY <1>1, <1>2 DEF PanelInv, Yielded
  <1>5. CASE call.at = "restart" /\ tasks' = Started("ANI_NEXT_STEP") /\ call' = At("sdk")
    <2>1. call' \in CallType /\ call'.at = "sdk" BY <1>5, CallTypes
    <2>2. DisplayTypeOK'
      BY <1>0, <1>1, <1>5, <2>1 DEF DisplayTypeOK, Started, Animations
    <2>3. Drawn' BY <2>1 DEF Drawn, Drawing
    <2>4. Told' BY <1>1, <1>2, <1>5, <2>1 DEF PanelInv, Told, Agreed
    <2>5. board.mode = "NORMAL" BY <1>5 DEF PanelInv, Drawn, survey_allowed
    <2>6. "ANI_NEXT_STEP" \in tasks'.timers BY <1>0, <1>5 DEF Started, DisplayTypeOK
    <2>7. Scheduled' BY <1>1, <2>5, <2>6 DEF Scheduled, StepOf
    <2>8. Animated' BY <1>1, <2>7 DEF PanelInv, Animated
    <2> QED BY <1>2, <1>3, <1>4, <2>2, <2>3, <2>4, <2>8 DEF PanelInv
  <1>6. CASE call.at = "stop" /\ tasks' = Stopped /\ call' = Column(call.frame, 0)
    <2>0. call.frame \in Frame
      BY <1>0, <1>6, DrawingType DEF Drawing, DisplayTypeOK
    <2>1. call' \in CallType /\ call'.at = "column" /\ call'.x = 0 /\ call'.frame = call.frame
      BY <1>6, <2>0, CallTypes, PanelSizes DEF Column
    <2>2. DisplayTypeOK' BY <1>0, <1>1, <1>6, <2>1 DEF DisplayTypeOK, Stopped
    <2>3. Drawn'
      <3>1. \A c \in LedColumns : ~(c < call'.x) BY <2>1 DEF LedColumns
      <3>2. survey_allowed /\ display_active /\ rt.last_frame = call.frame
        BY <1>6 DEF PanelInv, Drawn, Drawing
      <3> QED BY <1>1, <1>2, <2>1, <3>1, <3>2 DEF Drawn, Drawing
    <2>4. Told' BY <1>1, <1>2, <2>1 DEF PanelInv, Told
    <2>5. Animated' BY <1>1, <1>6, <2>1 DEF PanelInv, Animated, Drawing
    <2> QED BY <1>2, <1>3, <1>4, <2>2, <2>3, <2>4, <2>5 DEF PanelInv
  <1> QED BY <1>1, <1>5, <1>6

LEMMA RunColumnInv == ASSUME PanelInv, RunColumn PROVE PanelInv'
  <1> DEFINE f == call.frame
             x == call.x
  <1>0. DisplayTypeOK BY DEF PanelInv
  <1>1. /\ call.at = "column"
        /\ overlay' = [overlay EXCEPT !.fb[Inactive][x] = f]
        /\ call' = IF x + 1 < LED_COLS THEN Column(f, x + 1)
                   ELSE [call EXCEPT !.at = "commit"]
        /\ UNCHANGED <<board, rt, display_active, tasks, panel, todo>>
    BY DEF RunColumn
  <1>2. Darkened' /\ StreamsLast(todo') /\ survey_allowed' = survey_allowed
    BY <1>1, CallKeepsPlan
  <1>3. f \in Frame /\ x \in LedColumns
        /\ [call EXCEPT !.at = "commit"] = [Column(f, x) EXCEPT !.at = "commit"]
    BY <1>0, <1>1, DrawingType DEF Drawing, DisplayTypeOK, CallType, Column
  <1>4. /\ Inactive \in 0 .. 1 /\ Inactive # overlay.index
        /\ overlay.fb \in [0 .. 1 -> [LedColumns -> Frame \cup {DARK}]]
        /\ overlay.index \in 0 .. 1 /\ overlay.owned \in BOOLEAN
    BY <1>0 DEF DisplayTypeOK, Inactive
  <1> HIDE DEF f, x
  <1>5. /\ overlay'.index = overlay.index /\ overlay'.owned = overlay.owned
        /\ overlay'.fb = [overlay.fb EXCEPT ![Inactive][x] = f]
        /\ overlay' \in [fb : [0 .. 1 -> [LedColumns -> Frame \cup {DARK}]],
                         index : 0 .. 1, owned : BOOLEAN]
    BY <1>0, <1>1, <1>3, <1>4 DEF DisplayTypeOK
  <1>6. /\ overlay'.fb[overlay.index] = overlay.fb[overlay.index]
        /\ overlay'.fb[Inactive] = [overlay.fb[Inactive] EXCEPT ![x] = f]
        /\ overlay.fb[Inactive] \in [LedColumns -> Frame \cup {DARK}]
        /\ Inactive' = Inactive
    BY <1>4, <1>5 DEF Inactive
  <1>7. \/ x + 1 < LED_COLS /\ call' = Column(f, x + 1) /\ call' \in CallType
           /\ call'.at = "column" /\ call'.frame = f /\ call'.x = x + 1
        \/ x + 1 = LED_COLS /\ call' \in CallType /\ call'.at = "commit" /\ call'.frame = f
    <2>1. CASE x + 1 < LED_COLS
      <3>1. x + 1 \in LedColumns BY <1>3, <2>1, PanelSizes DEF LedColumns
      <3> QED BY <1>1, <1>3, <2>1, <3>1, CallTypes DEF Column
    <2>2. CASE ~(x + 1 < LED_COLS)
      <3>1. x + 1 = LED_COLS BY <1>3, <2>2, PanelSizes DEF LedColumns
      <3> QED BY <1>1, <1>3, <2>2, <3>1, CallTypes DEF Column
    <2> QED BY <2>1, <2>2
  <1>8. DisplayTypeOK'
    <2>1. call' \in CallType BY <1>7
    <2> QED BY <1>0, <1>1, <1>5, <2>1 DEF DisplayTypeOK
  <1>9. OverlayIsWhole' BY <1>5, <1>6 DEF PanelInv, OverlayIsWhole
  <1>10. \A c \in LedColumns : c < x + 1 => overlay'.fb[Inactive][c] = f
    <2> SUFFICES ASSUME NEW c \in LedColumns, c < x + 1
                 PROVE  overlay'.fb[Inactive][c] = f
      OBVIOUS
    <2>1. c = x \/ c < x BY <1>3 DEF LedColumns
    <2>2. c < x => overlay.fb[Inactive][c] = f BY <1>1 DEF PanelInv, Drawn, f, x
    <2> QED BY <1>3, <1>6, <2>1, <2>2
  <1>11. Drawn'
    <2>1. survey_allowed /\ display_active /\ rt.last_frame = f
      BY <1>1 DEF PanelInv, Drawn, Drawing, f
    <2>2. CASE x + 1 < LED_COLS
      <3>1. call'.at = "column" /\ call'.frame = f /\ call'.x = x + 1
        BY <1>7, <2>2, PanelSizes
      <3> QED BY <1>1, <1>2, <1>6, <1>10, <2>1, <3>1 DEF Drawn, Drawing
    <2>3. CASE ~(x + 1 < LED_COLS)
      <3>1. call'.at = "commit" /\ call'.frame = f /\ x + 1 = LED_COLS BY <1>7, <2>3
      <3>2. overlay'.fb[Inactive] = Whole(f)
        <4>1. \A c \in LedColumns : c < x + 1 BY <3>1, PanelSizes DEF LedColumns
        <4> QED BY <1>6, <1>10, <4>1 DEF Whole
      <3> QED BY <1>1, <1>2, <1>6, <2>1, <3>1, <3>2 DEF Drawn, Drawing
    <2> QED BY <2>2, <2>3
  <1>12. Told' BY <1>1, <1>2, <1>7 DEF PanelInv, Told
  <1>13. Yielded' BY <1>1, <1>2, <1>5 DEF PanelInv, Yielded
  <1>14. Animated' BY <1>1, <1>5, <1>7 DEF PanelInv, Animated, Drawing
  <1> QED BY <1>2, <1>8, <1>9, <1>11, <1>12, <1>13, <1>14 DEF PanelInv

LEMMA RunCommitInv == ASSUME PanelInv, RunCommit PROVE PanelInv'
  <1>0. DisplayTypeOK BY DEF PanelInv
  <1>1. /\ \/ /\ call.at = "commit"
              /\ overlay' = [overlay EXCEPT !.index = Inactive]
              /\ call' = [call EXCEPT !.at = "own"]
           \/ /\ call.at = "own"
              /\ overlay' = [overlay EXCEPT !.owned = TRUE]
              /\ call' = At("sdk")
        /\ UNCHANGED <<board, rt, display_active, tasks, panel, todo>>
    BY DEF RunCommit
  <1>2. Darkened' /\ StreamsLast(todo') /\ survey_allowed' = survey_allowed
    BY <1>1, CallKeepsPlan
  <1>3. /\ call.frame \in Frame
        /\ survey_allowed /\ display_active /\ rt.last_frame = call.frame
    BY <1>0, <1>1, DrawingType DEF PanelInv, Drawn, Drawing, DisplayTypeOK
  <1>4. /\ Inactive \in 0 .. 1 /\ overlay.owned \in BOOLEAN
    BY <1>0 DEF DisplayTypeOK, Inactive
  <1>5. CASE /\ call.at = "commit"
             /\ overlay' = [overlay EXCEPT !.index = Inactive]
             /\ call' = [call EXCEPT !.at = "own"]
    <2>1. call' \in CallType /\ call'.at = "own" /\ call'.frame = call.frame
      BY <1>0, <1>5, DrawingType, CallTypes DEF Drawing, DisplayTypeOK, CallType
    <2>2. /\ overlay'.fb = overlay.fb /\ overlay'.owned = overlay.owned
          /\ overlay'.index = Inactive
      BY <1>0, <1>5 DEF DisplayTypeOK
    <2>3. DisplayTypeOK' BY <1>0, <1>1, <1>4, <1>5, <2>1 DEF DisplayTypeOK
    <2>4. overlay'.fb[overlay'.index] = Whole(call.frame)
      BY <1>5, <2>2 DEF PanelInv, Drawn
    <2>5. OverlayIsWhole' BY <1>3, <2>4 DEF OverlayIsWhole
    <2>6. Drawn' BY <1>1, <1>2, <1>3, <2>1, <2>4 DEF Drawn, Drawing
    <2>7. Told' BY <1>1, <1>2, <2>1 DEF PanelInv, Told
    <2>8. Yielded' BY <1>1, <1>2, <1>5, <2>2 DEF PanelInv, Yielded
    <2>9. Animated' BY <1>1, <1>5, <2>1, <2>2 DEF PanelInv, Animated, Drawing
    <2> QED BY <1>2, <2>3, <2>5, <2>6, <2>7, <2>8, <2>9 DEF PanelInv
  <1>6. CASE /\ call.at = "own"
             /\ overlay' = [overlay EXCEPT !.owned = TRUE]
             /\ call' = At("sdk")
    <2>1. call' \in CallType /\ call'.at = "sdk" BY <1>6, CallTypes
    <2>2. /\ overlay'.fb = overlay.fb /\ overlay'.owned /\ overlay'.owned \in BOOLEAN
          /\ overlay'.index = overlay.index
      BY <1>0, <1>6 DEF DisplayTypeOK
    <2>3. DisplayTypeOK' BY <1>0, <1>1, <1>6, <2>1 DEF DisplayTypeOK
    <2>4. overlay'.fb[overlay'.index] = Whole(call.frame)
      BY <1>6, <2>2 DEF PanelInv, Drawn
    <2>5. OverlayIsWhole' BY <1>3, <2>4 DEF OverlayIsWhole
    <2>6. Drawn' BY <2>1 DEF Drawn, Drawing
    <2>7. Agreed'
      <3>1. call.frame # NoFrame /\ display_active' \in BOOLEAN
        BY <1>3, <2>3, FrameAssumption DEF DisplayTypeOK
      <3> QED BY <1>1, <1>3, <2>2, <2>4, <3>1 DEF Agreed
    <2>8. Told' BY <1>1, <1>2, <2>7 DEF PanelInv, Told
    <2>9. Yielded' BY <1>1, <1>2, <1>3, <1>6 DEF PanelInv, Yielded
    <2>10. Animated' BY <1>1, <1>6, <2>2 DEF PanelInv, Animated, Drawing
    <2> QED BY <1>2, <2>3, <2>5, <2>6, <2>8, <2>9, <2>10 DEF PanelInv
  <1> QED BY <1>1, <1>5, <1>6

-----------------------------------------------------------------------------
(* The other statements of a handler.                                      *)

LEMMA DoneIs ==
  ASSUME PanelInv, NEW op, Doing(op)
  PROVE  /\ call.at = "none" /\ todo # <<>> /\ Head(todo) = op
         /\ todo' \in Seq(Statements)
         /\ \A x : Comes(todo, x) <=> op = x \/ Comes(todo', x)
         /\ \A ops, undo : EndsIn(todo, ops, undo) =>
               \/ EndsIn(todo', ops, undo)
               \/ op \in ops /\ \A x \in undo : ~Comes(todo', x)
         /\ StreamsLast(todo')
         /\ todo' # <<>> /\ Head(todo') = "streaming_on" => op = "relinquish"
  BY Popped DEF Doing

(* What reducer, adapter and overlay have agreed on is nobody else's. *)
LEMMA DoneKeeps ==
  ASSUME PanelInv, NEW op, Doing(op), op \notin {"View", "relinquish", "streaming_on"},
         UNCHANGED <<rt, display_active, overlay, call>>, survey_allowed' = survey_allowed
  PROVE  OverlayIsWhole' /\ Drawn' /\ Told' /\ Yielded'
  <1>1. /\ call.at = "none"
        /\ Comes(todo', "relinquish") <=> Comes(todo, "relinquish")
        /\ EndsIn(todo, {"View", "streaming_on"}, {"relinquish"}) =>
              EndsIn(todo', {"View", "streaming_on"}, {"relinquish"})
        /\ StreamsLast(todo')
        /\ ~(todo' # <<>> /\ Head(todo') = "streaming_on")
    BY DoneIs
  <1>2. OverlayIsWhole' BY DEF PanelInv, OverlayIsWhole
  <1>3. Drawn' BY <1>1 DEF Drawn, Drawing
  <1>4. Told' BY <1>1 DEF PanelInv, Told, Agreed
  <1>5. Yielded' BY <1>1 DEF PanelInv, Yielded
  <1> QED BY <1>2, <1>3, <1>4, <1>5

LEMMA RunRelinquishInv == ASSUME PanelInv, RunRelinquish PROVE PanelInv'
  <1>0. DisplayTypeOK BY DEF PanelInv
  <1>1. /\ Doing("relinquish")
        /\ overlay' = [overlay EXCEPT !.owned = FALSE]
        /\ UNCHANGED <<board, rt, display_active, tasks, panel, call>>
    BY DEF RunRelinquish
  <1>2. /\ call.at = "none" /\ todo' \in Seq(Statements)
        /\ Comes(todo, "relinquish")
        /\ \A x : x # "relinquish" => (Comes(todo', x) <=> Comes(todo, x))
        /\ \A ops, undo : EndsIn(todo, ops, undo) /\ "relinquish" \notin ops =>
              EndsIn(todo', ops, undo)
        /\ StreamsLast(todo')
    BY <1>1, DoneIs
  <1>3. /\ ~overlay'.owned
        /\ survey_allowed' = survey_allowed
    BY <1>0, <1>1 DEF DisplayTypeOK, survey_allowed
  <1>4. DisplayTypeOK' BY <1>0, <1>1, <1>2 DEF DisplayTypeOK
  <1>5. OverlayIsWhole' BY <1>3 DEF OverlayIsWhole
  <1>6. Drawn' BY <1>1, <1>2 DEF Drawn, Drawing
  <1>7. Told' BY <1>2, <1>3 DEF PanelInv, Told
  <1>8. Yielded' BY <1>1, <1>2, <1>3 DEF Yielded
  <1>9. Animated'
    <2>1. EndsIn(todo, {StartOf(board.mode)}, Ends) => EndsIn(todo', {StartOf(board.mode)}, Ends)
      BY <1>2 DEF StartOf
    <2> QED BY <1>1, <1>2, <2>1 DEF PanelInv, Animated
  <1>10. Darkened' BY <1>1, <1>2 DEF PanelInv, Darkened
  <1> QED BY <1>4, <1>5, <1>6, <1>7, <1>8, <1>9, <1>10 DEF PanelInv

LEMMA RunTasksInv == ASSUME PanelInv, RunTasks PROVE PanelInv'
  <1>0. DisplayTypeOK BY DEF PanelInv
  <1>1. PICK op \in {"stop_all_animation", "start_normal_animation", "start_ble_animation"} :
          /\ Doing(op)
          /\ tasks' = CASE op = "stop_all_animation" -> Stopped
                        [] op = "start_normal_animation" -> Started("ANI_NEXT_STEP")
                        [] op = "start_ble_animation" -> Started("BLE_NEXT_STEP")
    BY DEF RunTasks
  <1>2. UNCHANGED <<board, rt, display_active, overlay, panel, call>> BY DEF RunTasks
  <1>3. survey_allowed' = survey_allowed BY <1>2 DEF survey_allowed
  <1>4. OverlayIsWhole' /\ Drawn' /\ Told' /\ Yielded'
    BY <1>1, <1>2, <1>3, DoneKeeps
  <1>5. /\ todo' \in Seq(Statements)
        /\ \A x : Comes(todo, x) <=> op = x \/ Comes(todo', x)
        /\ \A ops, undo : EndsIn(todo, ops, undo) =>
              \/ EndsIn(todo', ops, undo)
              \/ op \in ops /\ \A x \in undo : ~Comes(todo', x)
        /\ call.at = "none"
    BY <1>1, DoneIs
  <1>6. /\ tasks' \in [timers : SUBSET Animations, events : SUBSET Animations]
        /\ op = "start_normal_animation" => "ANI_NEXT_STEP" \in tasks'.timers
        /\ op = "start_ble_animation" => "BLE_NEXT_STEP" \in tasks'.timers
    BY <1>0, <1>1 DEF DisplayTypeOK, Stopped, Started, Animations
  <1>7. DisplayTypeOK' BY <1>0, <1>2, <1>5, <1>6 DEF DisplayTypeOK
  <1>8. Animated'
    <2>1. /\ Comes(todo', "start_normal_animation") => board'.mode = "NORMAL"
          /\ Comes(todo', "start_ble_animation") => board'.mode # "NORMAL"
          /\ op = "start_normal_animation" => board.mode = "NORMAL"
          /\ op = "start_ble_animation" => board.mode # "NORMAL"
      BY <1>2, <1>5 DEF PanelInv, Animated
    <2>2. op # "stop_all_animation" => op = StartOf(board.mode) /\ Scheduled'
      BY <1>1, <1>2, <1>6, <2>1 DEF StartOf, StepOf, Scheduled
    <2> SUFFICES ASSUME board.mode # "POWER_OFF", ~board.streaming,
                        ~Comes(todo', "streaming_on"),
                        ~EndsIn(todo', {StartOf(board.mode)}, Ends)
                 PROVE  /\ ~Comes(todo', "stop_all_animation") /\ ~Comes(todo', "relinquish")
                        /\ overlay'.owned \/ Scheduled'
      BY <1>2, <2>1 DEF Animated
    <2>3. ~Comes(todo, "streaming_on") BY <1>1, <1>5
    <2>4. CASE EndsIn(todo, {StartOf(board.mode)}, Ends)
      <3>1. op = StartOf(board.mode) /\ \A x \in Ends : ~Comes(todo', x)
        BY <1>5, <2>4
      <3>2. Scheduled' BY <2>2, <3>1 DEF StartOf
      <3> QED BY <3>1, <3>2 DEF Ends
    <2>5. CASE /\ ~Comes(todo, "stop_all_animation") /\ ~Comes(todo, "relinquish")
      <3>1. op # "stop_all_animation" BY <1>5, <2>5
      <3> QED BY <1>5, <2>2, <2>5, <3>1
    <2> QED BY <2>3, <2>4, <2>5 DEF PanelInv, Animated
  <1>9. Darkened'
    <2>1. /\ \A x \in {"timer_on", "timer_off"} : Comes(todo', x) <=> Comes(todo, x)
          /\ EndsIn(todo, {"leds_releaseall"}, {"timer_off"}) =>
                EndsIn(todo', {"leds_releaseall"}, {"timer_off"})
      BY <1>1, <1>5
    <2> QED BY <1>2, <2>1 DEF PanelInv, Darkened
  <1> QED BY <1>4, <1>7, <1>8, <1>9 DEF PanelInv

(* A statement that is about neither the animations nor the overlay. *)
LEMMA DoneAnimates ==
  ASSUME PanelInv, NEW op, Doing(op), board'.mode = board.mode, board'.streaming = board.streaming,
         UNCHANGED <<overlay, tasks, call>>,
         op \in {"timer_off", "timer_on", "name_view", "leds_releaseall"}
  PROVE  Animated'
  <1>1. /\ \A x \in {"start_normal_animation", "start_ble_animation", "streaming_on",
                     "stop_all_animation", "relinquish"} :
              Comes(todo', x) <=> Comes(todo, x)
        /\ EndsIn(todo, {StartOf(board.mode)}, Ends) =>
              EndsIn(todo', {StartOf(board.mode)}, Ends)
    BY DoneIs DEF StartOf
  <1> QED BY <1>1 DEF PanelInv, Animated, Drawing, Scheduled

LEMMA RunBoardInv == ASSUME PanelInv, RunBoard PROVE PanelInv'
  <1>0. DisplayTypeOK BY DEF PanelInv
  <1>1. UNCHANGED <<rt, display_active, overlay, tasks, panel, call>> BY DEF RunBoard
  <1>2. ASSUME NEW op \in {"timer_off", "timer_on", "name_view"}, Doing(op),
               board' = CASE op = "timer_off" -> [board EXCEPT !.tmr0 = FALSE]
                          [] op = "timer_on" -> [board EXCEPT !.tmr0 = TRUE]
                          [] op = "name_view" -> [board EXCEPT !.counter_view = FALSE]
        PROVE  PanelInv'
    <2>1. /\ board'.mode = board.mode /\ board'.streaming = board.streaming
          /\ board'.tmr0 = CASE op = "timer_off" -> FALSE
                             [] op = "timer_on" -> TRUE
                             [] op = "name_view" -> board.tmr0
          /\ board' \in BoardType
      BY <1>0, <1>2 DEF DisplayTypeOK, BoardType
    <2>2. survey_allowed' = survey_allowed BY <2>1 DEF survey_allowed
    <2>3. OverlayIsWhole' /\ Drawn' /\ Told' /\ Yielded'
      BY <1>1, <1>2, <2>2, DoneKeeps
    <2>4. Animated' BY <1>1, <1>2, <2>1, DoneAnimates
    <2>5. /\ todo' \in Seq(Statements)
          /\ \A x : Comes(todo, x) <=> op = x \/ Comes(todo', x)
          /\ EndsIn(todo, {"leds_releaseall"}, {"timer_off"}) =>
                EndsIn(todo', {"leds_releaseall"}, {"timer_off"})
      BY <1>2, DoneIs
    <2>6. DisplayTypeOK' BY <1>0, <1>1, <2>1, <2>5 DEF DisplayTypeOK, BoardType
    <2>7. Darkened' BY <1>1, <1>2, <2>1, <2>5 DEF PanelInv, Darkened
    <2> QED BY <2>3, <2>4, <2>6, <2>7 DEF PanelInv
  <1>3. ASSUME Doing("streaming_on"), board' = [board EXCEPT !.streaming = TRUE]
        PROVE  PanelInv'
    <2>1. /\ board'.mode = board.mode /\ board'.streaming /\ board'.tmr0 = board.tmr0
          /\ board' \in BoardType
      BY <1>0, <1>3 DEF DisplayTypeOK, BoardType
    <2>2. ~survey_allowed' BY <2>1 DEF survey_allowed
    <2>3. /\ todo' \in Seq(Statements) /\ call.at = "none"
          /\ todo # <<>> /\ Head(todo) = "streaming_on"
          /\ \A x : x # "streaming_on" => (Comes(todo', x) <=> Comes(todo, x))
          /\ EndsIn(todo, {"leds_releaseall"}, {"timer_off"}) =>
                EndsIn(todo', {"leds_releaseall"}, {"timer_off"})
          /\ StreamsLast(todo')
          /\ ~(todo' # <<>> /\ Head(todo') = "streaming_on")
      BY <1>3, DoneIs
    <2>4. DisplayTypeOK' BY <1>0, <1>1, <2>1, <2>3 DEF DisplayTypeOK, BoardType
    <2>5. OverlayIsWhole' BY <1>1 DEF PanelInv, OverlayIsWhole
    <2>6. Drawn' BY <1>1, <2>3 DEF Drawn, Drawing
    <2>7. Told' BY <2>2 DEF Told
    <2>8. Yielded' BY <1>1, <2>3 DEF PanelInv, Yielded
    <2>9. Animated' BY <2>1, <2>3 DEF PanelInv, Animated
    <2>10. Darkened' BY <1>1, <2>1, <2>3 DEF PanelInv, Darkened
    <2> QED BY <2>4, <2>5, <2>6, <2>7, <2>8, <2>9, <2>10 DEF PanelInv
  <1> QED BY <1>2, <1>3 DEF RunBoard

LEMMA RunReleaseLedsInv == ASSUME PanelInv, RunReleaseLeds PROVE PanelInv'
  <1>0. DisplayTypeOK BY DEF PanelInv
  <1>1. /\ Doing("leds_releaseall")
        /\ panel' = [panel EXCEPT !.shows = Whole(DARK)]
        /\ UNCHANGED <<board, rt, display_active, overlay, tasks, call>>
    BY DEF RunReleaseLeds
  <1>2. survey_allowed' = survey_allowed BY <1>1 DEF survey_allowed
  <1>3. OverlayIsWhole' /\ Drawn' /\ Told' /\ Yielded'
    BY <1>1, <1>2, DoneKeeps
  <1>4. Animated' BY <1>1, DoneAnimates
  <1>5. /\ todo' \in Seq(Statements)
        /\ \A x : Comes(todo', x) => Comes(todo, x)
        /\ Comes(todo, "timer_off") => Comes(todo', "timer_off")
        /\ EndsIn(todo, {"leds_releaseall"}, {"timer_off"}) =>
              \/ EndsIn(todo', {"leds_releaseall"}, {"timer_off"})
              \/ ~Comes(todo', "timer_off")
    BY <1>1, DoneIs
  <1>6. /\ panel'.shows = Whole(DARK)
        /\ panel' \in [shows : [LedColumns -> Frame \cup {BADGE, DARK}], pair : LedPairs]
    BY <1>0, <1>1 DEF DisplayTypeOK, Whole
  <1>7. DisplayTypeOK' BY <1>0, <1>1, <1>5, <1>6 DEF DisplayTypeOK
  <1>8. Darkened' BY <1>1, <1>5, <1>6 DEF PanelInv, Darkened
  <1> QED BY <1>3, <1>4, <1>7, <1>8 DEF PanelInv

-----------------------------------------------------------------------------
(* The interrupt and the timers.                                           *)

LEMMA RefreshInv == ASSUME PanelInv, Refresh PROVE PanelInv'
  <1>0. DisplayTypeOK BY DEF PanelInv
  <1> DEFINE Seen(c) == IF overlay.owned THEN overlay.fb[overlay.index][c] ELSE BADGE
             first == 2 * panel.pair
             half == LED_COLS \div 2
             next == (panel.pair + 1) % half
             shows == [panel.shows EXCEPT ![first] = Seen(first),
                                          ![first + 1] = Seen(first + 1)]
  <1>1. /\ board.tmr0
        /\ panel' = [shows |-> shows, pair |-> next]
        /\ UNCHANGED <<board, rt, display_active, overlay, tasks, call, todo>>
    BY DEF Refresh
  <1>2. half \in Nat /\ half > 0 BY PanelSizes
  <1> HIDE DEF half
  <1>3. panel.pair \in Nat
    BY <1>0 DEF DisplayTypeOK, LedPairs
  <1>4. next \in 0 .. (half - 1) BY <1>2, <1>3
  <1>5. \A c \in LedColumns : Seen(c) \in Frame \cup {BADGE, DARK}
    BY <1>0 DEF DisplayTypeOK
  <1> HIDE DEF Seen, first, next
  <1>6. shows \in [LedColumns -> Frame \cup {BADGE, DARK}]
    BY <1>0, <1>5 DEF DisplayTypeOK
  <1> HIDE DEF shows
  <1>7. panel' \in [shows : [LedColumns -> Frame \cup {BADGE, DARK}], pair : LedPairs]
    BY <1>1, <1>4, <1>6 DEF LedPairs, half
  <1>8. DisplayTypeOK' BY <1>0, <1>1, <1>7 DEF DisplayTypeOK
  <1>9. OverlayIsWhole' BY <1>1 DEF PanelInv, OverlayIsWhole
  <1>10. survey_allowed' = survey_allowed BY <1>1 DEF survey_allowed
  <1>11. Drawn' BY <1>1, <1>10 DEF PanelInv, Drawn, Drawing, Inactive
  <1>12. Told' BY <1>1, <1>10 DEF PanelInv, Told, Agreed
  <1>13. Yielded' BY <1>1, <1>10 DEF PanelInv, Yielded
  <1>14. Animated' BY <1>1 DEF PanelInv, Animated, Drawing, Scheduled
  <1>15. Darkened' BY <1>1 DEF PanelInv, Darkened
  <1> QED BY <1>8, <1>9, <1>11, <1>12, <1>13, <1>14, <1>15 DEF PanelInv

(* Timers and links are nothing to the panel, as long as an animation that *)
(* was to go on does. *)
LEMMA OutsideKeeps ==
  ASSUME PanelInv, UNCHANGED <<rt, display_active, overlay, panel, call, todo>>,
         board'.mode = board.mode, board'.streaming = board.streaming,
         board'.tmr0 = board.tmr0, board' \in BoardType,
         tasks' \in [timers : SUBSET Animations, events : SUBSET Animations],
         Scheduled => Scheduled' \/ (Idle /\ overlay.owned)
  PROVE  PanelInv'
  <1>1. DisplayTypeOK' BY DEF PanelInv, DisplayTypeOK, BoardType
  <1>2. OverlayIsWhole' BY DEF PanelInv, OverlayIsWhole
  <1>3. survey_allowed' = survey_allowed BY DEF survey_allowed
  <1>4. Drawn' BY <1>3 DEF PanelInv, Drawn, Drawing, Inactive
  <1>5. Told' BY <1>3 DEF PanelInv, Told, Agreed
  <1>6. Yielded' BY <1>3 DEF PanelInv, Yielded
  <1>7. Animated' BY DEF PanelInv, Animated, Drawing
  <1>8. Darkened' BY DEF PanelInv, Darkened
  <1> QED BY <1>1, <1>2, <1>4, <1>5, <1>6, <1>7, <1>8 DEF PanelInv

(* Between two handlers the invariant is what the properties say. *)
LEMMA PanelAtRest ==
  ASSUME PanelInv, Idle
  PROVE  /\ todo = <<>> /\ call.at = "none"
         /\ survey_allowed => Agreed
         /\ overlay.owned => survey_allowed
         /\ board.mode # "POWER_OFF" /\ ~board.streaming => overlay.owned \/ Scheduled
         /\ board.mode = "POWER_OFF" => ~board.tmr0 /\ panel.shows = Whole(DARK)
  BY NothingComes DEF Idle, PanelInv, Told, Yielded, Animated, Drawing, Darkened

LEMMA AnimationTimerInv == ASSUME PanelInv, AnimationTimer PROVE PanelInv'
  <1>0. DisplayTypeOK BY DEF PanelInv
  <1>1. PICK step \in tasks.timers :
          tasks' = [timers |-> tasks.timers \ {step}, events |-> tasks.events \cup {step}]
    BY DEF AnimationTimer
  <1>2. UNCHANGED <<board, rt, display_active, overlay, panel, call, todo>>
    BY DEF AnimationTimer
  <1>3. tasks' \in [timers : SUBSET Animations, events : SUBSET Animations]
    BY <1>0, <1>1 DEF DisplayTypeOK
  <1>4. Scheduled' = Scheduled BY <1>1, <1>2 DEF Scheduled
  <1>5. board' \in BoardType BY <1>0, <1>2 DEF DisplayTypeOK, BoardType
  <1> QED BY <1>2, <1>3, <1>4, <1>5, OutsideKeeps

LEMMA AnimationStepInv == ASSUME PanelInv, AnimationStep PROVE PanelInv'
  <1>0. DisplayTypeOK /\ Idle BY DEF PanelInv, AnimationStep
  <1>1. PICK step \in tasks.events :
          tasks' = [timers |-> IF overlay_wanted THEN tasks.timers
                               ELSE tasks.timers \cup {step},
                    events |-> tasks.events \ {step}]
    BY DEF AnimationStep
  <1>2. UNCHANGED <<board, rt, display_active, overlay, panel, call, todo>>
    BY DEF AnimationStep
  <1>3. tasks' \in [timers : SUBSET Animations, events : SUBSET Animations]
    BY <1>0, <1>1 DEF DisplayTypeOK
  <1>4. overlay_wanted => overlay.owned
    BY <1>0, PanelAtRest DEF overlay_wanted, Agreed
  <1>5. ~overlay_wanted /\ Scheduled => Scheduled' BY <1>1, <1>2 DEF Scheduled
  <1>6. board' \in BoardType BY <1>0, <1>2 DEF DisplayTypeOK, BoardType
  <1> QED BY <1>0, <1>2, <1>3, <1>4, <1>5, <1>6, OutsideKeeps

LEMMA PeerInv == ASSUME PanelInv, Peer PROVE PanelInv'
  <1>0. DisplayTypeOK BY DEF PanelInv
  <1>1. /\ board' = [board EXCEPT !.conn = ~board.conn]
        /\ UNCHANGED <<rt, display_active, overlay, tasks, panel, call, todo>>
    BY DEF Peer
  <1>2. /\ board'.mode = board.mode /\ board'.streaming = board.streaming
        /\ board'.tmr0 = board.tmr0 /\ board' \in BoardType
    BY <1>0, <1>1 DEF DisplayTypeOK, BoardType
  <1>3. tasks' \in [timers : SUBSET Animations, events : SUBSET Animations]
    BY <1>0, <1>1 DEF DisplayTypeOK
  <1>4. Scheduled => Scheduled' BY <1>1, <1>2 DEF Scheduled
  <1> QED BY <1>1, <1>2, <1>3, <1>4, OutsideKeeps

-----------------------------------------------------------------------------
(* The handlers.                                                           *)

(* A plan is good for the board it starts from and the one it is for:      *)
(* whoever loses the panel relinquishes it, whoever gets it back tells the *)
(* reducer, the animation of the mode is started again or never stopped,   *)
(* and a badge that goes off stops its timer before it darkens the LEDs.   *)
GoodPlan(ops) ==
    /\ ops \in Seq(Statements)
    /\ StreamsLast(ops) /\ ~(ops # <<>> /\ Head(ops) = "streaming_on")
    /\ survey_allowed' =>
          \/ survey_allowed /\ ~Comes(ops, "relinquish")
          \/ EndsIn(ops, {"View", "streaming_on"}, {"relinquish"})
    /\ survey_allowed /\ ~survey_allowed' => Comes(ops, "relinquish")
    /\ Comes(ops, "start_normal_animation") => board'.mode = "NORMAL"
    /\ Comes(ops, "start_ble_animation") => board'.mode # "NORMAL"
    /\ board'.mode # "POWER_OFF" /\ ~board'.streaming =>
          \/ Comes(ops, "streaming_on")
          \/ EndsIn(ops, {StartOf(board'.mode)}, Ends)
          \/ /\ board.mode = board'.mode /\ ~board.streaming
             /\ ~Comes(ops, "stop_all_animation") /\ ~Comes(ops, "relinquish")
    /\ board'.mode = "POWER_OFF" =>
          /\ ~Comes(ops, "timer_on") /\ board'.tmr0 = board.tmr0
          /\ \/ EndsIn(ops, {"leds_releaseall"}, {"timer_off"}) /\ Comes(ops, "timer_off")
             \/ board.mode = "POWER_OFF"

LEMMA BeginInv ==
  ASSUME PanelInv, NEW ops, Begin(ops), GoodPlan(ops), board' \in BoardType,
         UNCHANGED <<rt, display_active, overlay, tasks, panel>>
  PROVE  PanelInv'
  <1>1. /\ todo' = ops /\ call' = call /\ call.at = "none"
        /\ survey_allowed => Agreed
        /\ overlay.owned => survey_allowed
        /\ board.mode # "POWER_OFF" /\ ~board.streaming => overlay.owned \/ Scheduled
        /\ board.mode = "POWER_OFF" => ~board.tmr0 /\ panel.shows = Whole(DARK)
    BY PanelAtRest DEF Begin
  <1>2. DisplayTypeOK' BY <1>1 DEF PanelInv, DisplayTypeOK, BoardType, GoodPlan
  <1>3. OverlayIsWhole' BY DEF PanelInv, OverlayIsWhole
  <1>4. Drawn' BY <1>1 DEF Drawn, Drawing
  <1>5. Told' BY <1>1 DEF GoodPlan, Told, Agreed
  <1>6. Yielded' BY <1>1 DEF GoodPlan, Yielded
  <1>7. Animated'
    <2>1. board'.mode = board.mode /\ Scheduled => Scheduled' BY DEF Scheduled
    <2> QED BY <1>1, <2>1 DEF GoodPlan, Animated
  <1>8. Darkened' BY <1>1 DEF GoodPlan, Darkened
  <1> QED BY <1>2, <1>3, <1>4, <1>5, <1>6, <1>7, <1>8 DEF PanelInv

LEMMA SurveyTaskInv == ASSUME PanelInv, SurveyTask PROVE PanelInv'
  <1>1. PICK kind \in {"Tick"} \cup Callbacks : Begin(<<kind>>) BY DEF SurveyTask
  <1>2. UNCHANGED <<board, rt, display_active, overlay, tasks, panel>> BY DEF SurveyTask
  <1>3. kind \in Kinds /\ kind \in Statements /\ kind # "View"
    BY DEF Kinds, Callbacks, Statements
  <1>4. /\ \A x : Comes(<<kind>>, x) <=> kind = x
        /\ StreamsLast(<<kind>>) /\ Head(<<kind>>) = kind
        /\ <<kind>> \in Seq(Statements)
    BY <1>3 DEF Comes, StreamsLast
  <1>5. survey_allowed' = survey_allowed BY <1>2 DEF survey_allowed
  <1>6. Begin(<<kind>>) /\ GoodPlan(<<kind>>)
    BY <1>1, <1>2, <1>3, <1>4, <1>5, KindsAreNoStatements, PanelAtRest DEF GoodPlan, Begin
  <1>7. board' \in BoardType BY <1>2 DEF PanelInv, DisplayTypeOK, BoardType
  <1> QED BY <1>2, <1>6, <1>7, BeginInv

(* What the plans of the handlers contain, and in which order. *)
LEMMA ScreenOffPlan ==
  LET p == <<"relinquish", "stop_all_animation", "timer_off", "leds_releaseall", "Shutdown">>
  IN  /\ p \in Seq(Statements) /\ StreamsLast(p) /\ Head(p) # "streaming_on"
      /\ Comes(p, "relinquish") /\ Comes(p, "timer_off") /\ ~Comes(p, "timer_on")
      /\ ~Comes(p, "start_normal_animation") /\ ~Comes(p, "start_ble_animation")
      /\ EndsIn(p, {"leds_releaseall"}, {"timer_off"})
  BY DEF Comes, EndsIn, StreamsLast, Statements, Kinds, Callbacks

LEMMA NormalPlans ==
  \A ops \in {<<"Resume", "timer_on", "name_view", "relinquish", "Suspend",
               "start_normal_animation", "View">>,
             <<"Resume", "timer_on", "name_view", "relinquish",
               "start_normal_animation", "View">>} :
     /\ ops \in Seq(Statements) /\ StreamsLast(ops) /\ Head(ops) # "streaming_on"
     /\ Comes(ops, "relinquish") /\ ~Comes(ops, "start_ble_animation")
     /\ EndsIn(ops, {"View", "streaming_on"}, {"relinquish"})
     /\ EndsIn(ops, {"start_normal_animation"}, Ends)
  <1> DEFINE p == <<"Resume", "timer_on", "name_view", "relinquish", "Suspend",
                    "start_normal_animation", "View">>
             q == <<"Resume", "timer_on", "name_view", "relinquish",
                    "start_normal_animation", "View">>
  <1>1. /\ p \in Seq(Statements) /\ StreamsLast(p) /\ Head(p) # "streaming_on"
        /\ Comes(p, "relinquish") /\ ~Comes(p, "start_ble_animation")
    BY DEF Comes, StreamsLast, Statements, Kinds, Callbacks
  <1>2. /\ EndsIn(p, {"View", "streaming_on"}, {"relinquish"})
        /\ EndsIn(p, {"start_normal_animation"}, Ends)
    BY DEF EndsIn, Ends
  <1>3. /\ q \in Seq(Statements) /\ StreamsLast(q) /\ Head(q) # "streaming_on"
        /\ Comes(q, "relinquish") /\ ~Comes(q, "start_ble_animation")
    BY DEF Comes, StreamsLast, Statements, Kinds, Callbacks
  <1>4. /\ EndsIn(q, {"View", "streaming_on"}, {"relinquish"})
        /\ EndsIn(q, {"start_normal_animation"}, Ends)
    BY DEF EndsIn, Ends
  <1> HIDE DEF p, q
  <1>5. \A ops \in {p, q} :
          /\ ops \in Seq(Statements) /\ StreamsLast(ops) /\ Head(ops) # "streaming_on"
          /\ Comes(ops, "relinquish") /\ ~Comes(ops, "start_ble_animation")
          /\ EndsIn(ops, {"View", "streaming_on"}, {"relinquish"})
          /\ EndsIn(ops, {"start_normal_animation"}, Ends)
    BY <1>1, <1>2, <1>3, <1>4
  <1> QED BY <1>5 DEF p, q

LEMMA DownloadPlan ==
  LET p == <<"Suspend", "relinquish", "start_ble_animation">>
  IN  /\ p \in Seq(Statements) /\ StreamsLast(p) /\ Head(p) # "streaming_on"
      /\ Comes(p, "relinquish") /\ ~Comes(p, "start_normal_animation")
      /\ EndsIn(p, {"start_ble_animation"}, Ends)
  BY DEF Comes, EndsIn, StreamsLast, Statements, Kinds, Callbacks, Ends

LEMMA StreamPlan ==
  LET p == <<"stop_all_animation", "Suspend", "relinquish", "streaming_on">>
  IN  /\ p \in Seq(Statements) /\ StreamsLast(p) /\ Head(p) # "streaming_on"
      /\ Comes(p, "relinquish") /\ Comes(p, "streaming_on") /\ ~Comes(p, "timer_on")
      /\ ~Comes(p, "start_normal_animation") /\ ~Comes(p, "start_ble_animation")
      /\ EndsIn(p, {"View", "streaming_on"}, {"relinquish"})
  BY DEF Comes, EndsIn, StreamsLast, Statements, Kinds, Callbacks

(* Plans that give nothing away. *)
LEMMA ShortPlans ==
  /\ \A ops \in {<<"View">>, <<"Suspend">>,
                 <<"start_normal_animation", "View">>, <<"start_ble_animation", "View">>,
                 <<"start_normal_animation", "View", "Suspend">>,
                 <<"start_ble_animation", "Suspend">>} :
        /\ ops \in Seq(Statements) /\ StreamsLast(ops) /\ Head(ops) # "streaming_on"
        /\ ~Comes(ops, "relinquish") /\ ~Comes(ops, "stop_all_animation")
        /\ ~Comes(ops, "timer_on")
  /\ \A ops \in {<<"View">>, <<"Suspend">>} :
        /\ ~Comes(ops, "start_normal_animation") /\ ~Comes(ops, "start_ble_animation")
  /\ \A ops \in {<<"start_normal_animation", "View">>,
                 <<"start_normal_animation", "View", "Suspend">>} :
        /\ ~Comes(ops, "start_ble_animation")
        /\ EndsIn(ops, {"start_normal_animation"}, Ends)
        /\ EndsIn(ops, {"View", "streaming_on"}, {"relinquish"})
  /\ \A ops \in {<<"start_ble_animation", "View">>, <<"start_ble_animation", "Suspend">>} :
        /\ ~Comes(ops, "start_normal_animation")
        /\ EndsIn(ops, {"start_ble_animation"}, Ends)
  BY DEF Comes, EndsIn, StreamsLast, Statements, Kinds, Callbacks, Ends

LEMMA BoardIs == PanelInv => board \in BoardType
  BY DEF PanelInv, DisplayTypeOK, BoardType

LEMMA ScreenOffInv ==
  ASSUME PanelInv, ScreenOff, UNCHANGED <<rt, display_active, overlay, tasks, panel>>
  PROVE  PanelInv'
  <1> DEFINE p == <<"relinquish", "stop_all_animation", "timer_off", "leds_releaseall",
                    "Shutdown">>
  <1>1. board' = [board EXCEPT !.mode = "POWER_OFF"] /\ Begin(p) BY DEF ScreenOff
  <1>2. board' \in BoardType /\ board'.mode = "POWER_OFF" /\ board'.tmr0 = board.tmr0
    BY <1>1, BoardIs DEF BoardType
  <1>3. GoodPlan(p) BY <1>2, ScreenOffPlan DEF GoodPlan, survey_allowed
  <1> QED BY <1>1, <1>2, <1>3, BeginInv

LEMMA SetupNormalInv ==
  ASSUME PanelInv, SetupNormal, UNCHANGED <<rt, display_active, overlay, tasks, panel>>
  PROVE  PanelInv'
  <1>1. PICK ops \in {<<"Resume", "timer_on", "name_view", "relinquish", "Suspend",
                        "start_normal_animation", "View">>,
                      <<"Resume", "timer_on", "name_view", "relinquish",
                        "start_normal_animation", "View">>} : Begin(ops)
    BY DEF SetupNormal
  <1>2. board' \in BoardType /\ board'.mode = "NORMAL"
    BY BoardIs DEF SetupNormal, BoardType
  <1>3. GoodPlan(ops) BY <1>2, NormalPlans DEF GoodPlan, survey_allowed, StartOf
  <1> QED BY <1>1, <1>2, <1>3, BeginInv

LEMMA SystemButtonInv == ASSUME PanelInv, SystemButton PROVE PanelInv'
  <1>1. UNCHANGED <<rt, display_active, overlay, tasks, panel>> BY DEF SystemButton
  <1>2. board.mode \in {"NORMAL", "DOWNLOAD", "POWER_OFF"} BY BoardIs DEF BoardType
  <1>3. SetupDownload \/ ScreenOff \/ SetupNormal BY <1>2 DEF SystemButton
  <1>4. ASSUME board' = [board EXCEPT !.mode = "DOWNLOAD"],
               Begin(<<"Suspend", "relinquish", "start_ble_animation">>)
        PROVE  PanelInv'
    <2> DEFINE p == <<"Suspend", "relinquish", "start_ble_animation">>
    <2>1. board' \in BoardType /\ board'.mode = "DOWNLOAD" BY <1>4, BoardIs DEF BoardType
    <2>2. GoodPlan(p) BY <2>1, DownloadPlan DEF GoodPlan, survey_allowed, StartOf
    <2> QED BY <1>1, <1>4, <2>1, <2>2, BeginInv
  <1>5. SetupDownload => PanelInv' BY <1>1, <1>4, ScreenOffInv DEF SetupDownload
  <1> QED BY <1>1, <1>3, <1>5, ScreenOffInv, SetupNormalInv

LEMMA ViewButtonInv == ASSUME PanelInv, ViewButton PROVE PanelInv'
  <1>1. /\ board.mode = "NORMAL"
        /\ board' = [board EXCEPT !.counter_view = ~board.counter_view]
        /\ Begin(<<"View">>)
        /\ UNCHANGED <<rt, display_active, overlay, tasks, panel>>
    BY DEF ViewButton
  <1>2. /\ board' \in BoardType /\ board'.mode = "NORMAL"
        /\ board'.streaming = board.streaming
    BY <1>1, BoardIs DEF BoardType
  <1>3. GoodPlan(<<"View">>) BY <1>1, <1>2, ShortPlans DEF GoodPlan, survey_allowed
  <1> QED BY <1>1, <1>2, <1>3, BeginInv

LEMMA StreamingEnterInv == ASSUME PanelInv, StreamingEnter PROVE PanelInv'
  <1> DEFINE p == <<"stop_all_animation", "Suspend", "relinquish", "streaming_on">>
  <1>1. /\ Begin(p)
        /\ UNCHANGED <<board, rt, display_active, overlay, tasks, panel>>
    BY DEF StreamingEnter
  <1>2. board' \in BoardType BY <1>1, BoardIs
  <1>3. GoodPlan(p) BY <1>1, StreamPlan DEF GoodPlan, survey_allowed
  <1> QED BY <1>1, <1>2, <1>3, BeginInv

LEMMA StreamingExitInv == ASSUME PanelInv, StreamingExit PROVE PanelInv'
  <1>1. /\ board' = [board EXCEPT !.streaming = FALSE]
        /\ UNCHANGED <<rt, display_active, overlay, tasks, panel>>
    BY DEF StreamingExit
  <1>2. PICK ops \in {<<"start_normal_animation", "View">>, <<"start_ble_animation", "View">>} :
          /\ Begin(ops)
          /\ ops = IF board.mode = "NORMAL" THEN <<"start_normal_animation", "View">>
                   ELSE <<"start_ble_animation", "View">>
    BY DEF StreamingExit
  <1>3. /\ board' \in BoardType /\ board'.mode = board.mode /\ ~board'.streaming
        /\ board'.tmr0 = board.tmr0
    BY <1>1, BoardIs DEF BoardType
  <1>4. GoodPlan(ops)
    BY <1>2, <1>3, ShortPlans DEF GoodPlan, survey_allowed, StartOf
  <1> QED BY <1>1, <1>2, <1>3, <1>4, BeginInv

LEMMA LinkUpInv == ASSUME PanelInv, LinkUp PROVE PanelInv'
  <1>1. /\ board' = [board EXCEPT !.handle = TRUE]
        /\ Begin(<<"Suspend">>)
        /\ UNCHANGED <<rt, display_active, overlay, tasks, panel>>
    BY DEF LinkUp
  <1>2. /\ board' \in BoardType /\ board'.mode = board.mode
        /\ board'.streaming = board.streaming /\ board'.tmr0 = board.tmr0
    BY <1>1, BoardIs DEF BoardType
  <1>3. GoodPlan(<<"Suspend">>) BY <1>2, ShortPlans DEF GoodPlan, survey_allowed
  <1> QED BY <1>1, <1>2, <1>3, BeginInv

LEMMA LinkDownInv == ASSUME PanelInv, LinkDown PROVE PanelInv'
  <1>1. /\ board' = [board EXCEPT !.handle = FALSE, !.streaming = FALSE]
        /\ UNCHANGED <<rt, display_active, overlay, tasks, panel>>
    BY DEF LinkDown
  <1>2. PICK ops \in {<<"start_normal_animation", "View", "Suspend">>,
                      <<"start_ble_animation", "Suspend">>, <<"Suspend">>} :
          /\ Begin(ops)
          /\ ops = IF board.mode = "NORMAL"
                   THEN <<"start_normal_animation", "View", "Suspend">>
                   ELSE IF board.streaming THEN <<"start_ble_animation", "Suspend">>
                   ELSE <<"Suspend">>
    BY DEF LinkDown
  <1>3. /\ board' \in BoardType /\ board'.mode = board.mode /\ ~board'.streaming
        /\ board'.tmr0 = board.tmr0
    BY <1>1, BoardIs DEF BoardType
  <1>4. CASE board.mode = "NORMAL"
    <2>1. GoodPlan(ops) BY <1>2, <1>3, <1>4, ShortPlans DEF GoodPlan, survey_allowed, StartOf
    <2> QED BY <1>1, <1>2, <1>3, <2>1, BeginInv
  <1>5. CASE board.mode # "NORMAL"
    <2>1. GoodPlan(ops) BY <1>2, <1>3, <1>5, ShortPlans DEF GoodPlan, survey_allowed, StartOf
    <2> QED BY <1>1, <1>2, <1>3, <2>1, BeginInv
  <1> QED BY <1>4, <1>5

-----------------------------------------------------------------------------
(* The theorems.                                                           *)

LEMMA DisplayInitInv == DisplayInit => PanelInv
  <1> SUFFICES ASSUME DisplayInit PROVE PanelInv
    OBVIOUS
  <1>1. PICK always_on \in AlwaysOn :
          board = [mode |-> "NORMAL", streaming |-> FALSE, counter_view |-> FALSE,
                   always_on |-> always_on, conn |-> FALSE, handle |-> FALSE,
                   tmr0 |-> TRUE]
    BY DEF DisplayInit
  <1>2. /\ call = At("none") /\ call.at = "none" /\ call \in CallType /\ todo = <<>>
    BY CallTypes DEF DisplayInit
  <1>3. DisplayTypeOK
    <2>1. always_on \in BOOLEAN BY DisplayAssumption
    <2>2. 0 \in LedPairs BY PanelSizes DEF LedPairs
    <2>3. rt \in Watch BY DEF DisplayInit, NewWatch, Watch
    <2>4. overlay \in [fb : [0 .. 1 -> [LedColumns -> Frame \cup {DARK}]],
                       index : 0 .. 1, owned : BOOLEAN]
      BY DEF DisplayInit, Whole
    <2>5. panel \in [shows : [LedColumns -> Frame \cup {BADGE, DARK}], pair : LedPairs]
      BY <2>2 DEF DisplayInit, Whole
    <2>6. todo \in Seq(Statements) BY <1>2
    <2> QED BY <1>1, <1>2, <2>1, <2>3, <2>4, <2>5, <2>6
            DEF DisplayInit, DisplayTypeOK, Animations
  <1>4. ~overlay.owned /\ ~display_active /\ rt.last_frame = NoFrame
    BY DEF DisplayInit, NewWatch
  <1>5. OverlayIsWhole BY <1>4 DEF OverlayIsWhole
  <1>6. Drawn BY <1>2 DEF Drawn, Drawing
  <1>7. Agreed BY <1>3, <1>4 DEF Agreed, DisplayTypeOK
  <1>8. Told BY <1>2, <1>7, NothingComes DEF Told
  <1>9. Yielded BY <1>2, <1>4, NothingComes DEF Yielded
  <1>10. Animated
    <2>1. Scheduled BY <1>1 DEF DisplayInit, Scheduled, StepOf
    <2> QED BY <1>2, <2>1, NothingComes DEF Animated
  <1>11. Darkened BY <1>1 DEF Darkened
  <1> QED BY <1>3, <1>5, <1>6, <1>8, <1>9, <1>10, <1>11 DEF PanelInv

LEMMA DisplayNextInv == PanelInv /\ [DisplayNext]_display_vars => PanelInv'
  <1> SUFFICES ASSUME PanelInv, [DisplayNext]_display_vars PROVE PanelInv'
    OBVIOUS
  <1>1. CASE RunTodo
    BY <1>1, RunDispatchInv, RunRelinquishInv, RunTasksInv, RunBoardInv, RunReleaseLedsInv
       DEF RunTodo
  <1>2. CASE RunCall
    BY <1>2, RunReturnInv, RunReleaseInv, RunAnimationInv, RunColumnInv, RunCommitInv
       DEF RunCall
  <1>3. CASE Refresh BY <1>3, RefreshInv
  <1>4. CASE AnimationTimer BY <1>4, AnimationTimerInv
  <1>5. CASE Handlers
    <2>1. CASE UploadDone BY <2>1, SetupNormalInv DEF UploadDone
    <2> QED BY <1>5, <2>1, SurveyTaskInv, AnimationStepInv, SystemButtonInv, ViewButtonInv,
               StreamingEnterInv, StreamingExitInv, LinkUpInv, LinkDownInv DEF Handlers
  <1>6. CASE Peer BY <1>6, PeerInv
  <1>7. CASE UNCHANGED display_vars
    <2>1. UNCHANGED <<board, rt, display_active, overlay, tasks, panel, call, todo>>
      BY <1>7 DEF display_vars
    <2>2. /\ board' \in BoardType
          /\ tasks' \in [timers : SUBSET Animations, events : SUBSET Animations]
      BY <2>1, BoardIs DEF PanelInv, DisplayTypeOK
    <2>3. Scheduled => Scheduled' BY <2>1 DEF Scheduled
    <2> QED BY <2>1, <2>2, <2>3, OutsideKeeps
  <1> QED BY <1>1, <1>2, <1>3, <1>4, <1>5, <1>6, <1>7 DEF DisplayNext

LEMMA SpecPanelInv == DisplaySpec => []PanelInv
  BY DisplayInitInv, DisplayNextInv, PTL DEF DisplaySpec

(* Wherever the interrupt, the SDK's callbacks, the button, the app and the *)
(* peer interleave, no column is written or read beyond the panel's buffers *)
(* and the state stays well-formed.                                        *)
THEOREM DisplayTypeCorrect == DisplaySpec => []DisplayTypeOK
  <1>1. PanelInv => DisplayTypeOK BY DEF PanelInv
  <1> QED BY <1>1, SpecPanelInv, PTL

(* frogalert_display_present() never lets the interrupt see half a picture: *)
(* on a panel of any width, the overlay that may be read between any two   *)
(* statements is one frame from the first column to the last.              *)
THEOREM NoTornPicture == DisplaySpec => []OverlayIsWhole
  <1>1. PanelInv => OverlayIsWhole BY DEF PanelInv
  <1> QED BY <1>1, SpecPanelInv, PTL

(* Between two handlers, the frame that the reducer remembers is the one in *)
(* the overlay, and the overlay is on if and only if there is one: whatever *)
(* took the panel away told the reducer, which would not present the same  *)
(* frame again.  Where frogalert_survey_allowed() forbids it (download     *)
(* mode, a badge that is off, an app that streams), the overlay is off.    *)
THEOREM ReducerKnowsThePicture == DisplaySpec => []OverlayIsLastFrame
  <1>1. PanelInv => OverlayIsLastFrame BY PanelAtRest DEF OverlayIsLastFrame, Agreed
  <1> QED BY <1>1, SpecPanelInv, PTL

(* When neither the overlay nor a stream has the panel of a badge that is on, *)
(* the step of its mode's animation has its timer set or its event queued: *)
(* every way to take the overlay off starts the animation again.           *)
THEOREM SomebodyDraws == DisplaySpec => []NeverFrozen
  <1>1. PanelInv => NeverFrozen BY PanelAtRest DEF NeverFrozen, Scheduled, StepOf
  <1> QED BY <1>1, SpecPanelInv, PTL

(* mode_setup_screen_off() leaves every column dark and nothing lights one *)
(* before the next mode: the timer is stopped before the LEDs are released, *)
(* and no handler that comes while the badge is off starts it again.       *)
THEOREM OffIsDark == DisplaySpec => []ScreenOffIsDark
  <1>1. PanelInv => ScreenOffIsDark BY PanelAtRest DEF ScreenOffIsDark
  <1> QED BY <1>1, SpecPanelInv, PTL
=============================================================================
