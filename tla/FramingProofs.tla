---------------------------- MODULE FramingProofs ----------------------------
(* Theorems about the frames of a TCP connection.                           *)
EXTENDS Framing, TLAPS

\* The invariant that carries the others: no frame that is too long is begun,
\* and as long as the next packet is one that the promise is about, the
\* accumulator starts with it.
BegunFits == \A s \in Sides : \A k \in 1..begun[s] : LengthField(s, k) # TooLong
NextAtHead == \A s \in Sides :
    Len(received[s]) + 1 \in IntactPackets[Peer(s)]
        => used[s] = End(Peer(s), Len(received[s]))

FramingInv == FramingTypeOK /\ WholeFrames /\ BegunFits /\ NextAtHead /\ NothingWithheld

LEMMA PeerIsSide == ASSUME NEW s \in Sides
                    PROVE  Peer(s) \in Sides /\ Peer(s) # s /\ Peer(Peer(s)) = s
BY DEF Sides, Peer

\* What a script says of one side's stream.
LEMMA Scripted ==
    ASSUME FramingTypeOK, NEW s \in Sides
    PROVE  /\ Count(s) \in Nat /\ End(s, 0) = 0
           /\ \A k \in 0..Count(s) : End(s, k) \in Nat
           /\ \A i, j \in 0..Count(s) : i < j => End(s, i) + HEADER <= End(s, j)
BY FramingAssumption DEF FramingTypeOK, Script, Count, End

LEMMA Lengths ==
    ASSUME FramingTypeOK, NEW s \in Sides, NEW k \in 1..Count(s)
    PROVE  /\ Payload(s, k) \in Nat
           /\ LengthField(s, k) \in Nat \cup {TooLong}
           /\ LengthField(s, k) # TooLong
                => HEADER + LengthField(s, k) = End(s, k) - End(s, k - 1)
<1>1. Payload(s, k) \in Nat
  <2>1. k - 1 \in 0..Count(s) /\ k \in 0..Count(s) /\ k - 1 < k
    BY Scripted
  <2> QED BY <2>1, Scripted DEF Payload, HEADER
<1>2. End(s, k) \in Nat /\ End(s, k - 1) \in Nat
  BY Scripted
<1> QED BY <1>1, <1>2 DEF LengthField, TooLong, Payload, HEADER

\* Frames are told apart by where they begin.
LEMMA Distinct ==
    ASSUME FramingTypeOK, NEW s \in Sides, NEW i \in 0..Count(s), NEW j \in 0..Count(s),
           End(s, i) = End(s, j)
    PROVE  i = j
<1>1. ~(i < j)
  BY Scripted DEF HEADER
<1>2. ~(j < i)
  BY Scripted DEF HEADER
<1> QED BY <1>1, <1>2, Scripted

\* No more is written than the frames that have been begun.
LEMMA WrittenBound ==
    ASSUME FramingTypeOK, WholeFrames, NEW s \in Sides
    PROVE  written[s] <= End(s, begun[s])
<1>1. begun[s] \in 0..Count(s) /\ written[s] \in Nat
  BY Scripted DEF FramingTypeOK
<1> QED BY <1>1, Scripted DEF WholeFrames

\* The script does not change, and neither does what is said of it.
LEMMA SameScript ==
    ASSUME script' = script
    PROVE  /\ IntactPackets' = IntactPackets
           /\ \A s, k : /\ End(s, k)' = End(s, k) /\ Count(s)' = Count(s)
                        /\ LengthField(s, k)' = LengthField(s, k)
BY DEF IntactPackets, End, Count, Kind, LengthField, Payload, TooLong

LEMMA FramingInitially == FramingInit => FramingInv
<1> SUFFICES ASSUME FramingInit PROVE FramingInv
  OBVIOUS
<1>1. FramingTypeOK
  <2>1. \A s \in Sides : Count(s) \in Nat
    BY FramingAssumption DEF FramingInit, Script, Count
  <2>2. Capacity \in Nat
    BY FramingAssumption
  <2> QED BY <2>1, <2>2, PeerIsSide DEF FramingInit, FramingTypeOK, PcValues
<1>2. WholeFrames
  BY <1>1, Scripted DEF FramingInit, WholeFrames
<1>3. BegunFits
  BY DEF FramingInit, BegunFits
<1>4. NextAtHead
  BY <1>1, Scripted, PeerIsSide DEF FramingInit, NextAtHead
<1>5. NothingWithheld
  <2> SUFFICES ASSUME NEW s \in Sides, NEW k \in 1..Count(Peer(s)) PROVE ~Complete(s, k)
    BY DEF NothingWithheld, Decodable
  <2>1. Buffered(s) = 0
    BY DEF FramingInit, Buffered
  <2> QED BY <1>1, <2>1, Lengths, PeerIsSide DEF Complete, HEADER, TooLong
<1> QED BY <1>1, <1>2, <1>3, <1>4, <1>5 DEF FramingInv

-----------------------------------------------------------------------------
(* Writing.                                                                 *)

\* A frame that is begun, from wherever, while nothing is being written.
LEMMA BeginsKeeps ==
    ASSUME FramingInv, NEW s \in Sides, pc[s] \in {"select", "decode"},
           NEW return \in {"select", "decode"}, BeginsFrame(s, return),
           UNCHANGED <<script, written>>
    PROVE  /\ WholeFrames' /\ BegunFits'
           /\ begun' \in [Sides -> Nat] /\ \A t \in Sides : begun'[t] <= Count(t)
           /\ pc' \in [Sides -> PcValues] /\ back' \in [Sides -> {"select", "decode"}]
<1> USE DEF FramingInv
<1>0. \A t \in Sides : begun[t] \in Nat /\ Count(t) \in Nat /\ Count(t)' = Count(t)
  BY Scripted DEF FramingTypeOK, Count
<1>1. /\ begun' \in [Sides -> Nat] /\ \A t \in Sides : begun'[t] <= Count(t)
      /\ pc' \in [Sides -> PcValues] /\ back' \in [Sides -> {"select", "decode"}]
  BY <1>0 DEF FramingTypeOK, BeginsFrame, PcValues
<1>2. WholeFrames'
  <2> SUFFICES ASSUME NEW t \in Sides
               PROVE  IF pc'[t] = "write"
                      THEN /\ begun'[t] > 0
                           /\ End(t, begun'[t] - 1) <= written[t]
                           /\ written[t] < End(t, begun'[t])
                      ELSE written[t] = End(t, begun'[t])
    BY DEF WholeFrames, End
  <2>1. CASE t # s
    BY <2>1 DEF BeginsFrame, FramingTypeOK, WholeFrames
  <2>2. CASE t = s
    <3>1. /\ begun'[s] = begun[s] + 1 /\ pc'[s] = "write"
          /\ written[s] = End(s, begun[s])
      BY DEF BeginsFrame, FramingTypeOK, WholeFrames
    <3>2. End(s, begun[s]) + HEADER <= End(s, begun[s] + 1)
      BY <1>0, Scripted DEF BeginsFrame
    <3>3. End(s, begun[s]) \in Nat /\ End(s, begun[s] + 1) \in Nat
      BY <1>0, Scripted DEF BeginsFrame
    <3> QED BY <1>0, <2>2, <3>1, <3>2, <3>3 DEF HEADER
  <2> QED BY <2>1, <2>2
<1>3. BegunFits'
  <2>1. \A t \in Sides, k \in Nat : LengthField(t, k)' = LengthField(t, k)
    BY DEF LengthField, Payload, End
  <2>2. \A t \in Sides : begun'[t] = begun[t] \/ (t = s /\ begun'[t] = begun[t] + 1)
    BY DEF BeginsFrame, FramingTypeOK
  <2>3. \A t \in Sides : \A k \in 1..begun'[t] : LengthField(t, k) # TooLong
    BY <1>0, <2>2 DEF BeginsFrame, BegunFits
  <2> QED BY <1>0, <1>1, <2>1, <2>3 DEF BegunFits, TooLong
<1> QED BY <1>1, <1>2, <1>3

LEMMA BeginKeeps ==
    ASSUME FramingInv, NEW s \in Sides, Begin(s)
    PROVE  FramingInv'
<1> USE DEF FramingInv
<1>1. /\ WholeFrames' /\ BegunFits'
      /\ begun' \in [Sides -> Nat] /\ \A t \in Sides : begun'[t] <= Count(t)
      /\ pc' \in [Sides -> PcValues] /\ back' \in [Sides -> {"select", "decode"}]
  BY BeginsKeeps DEF Begin, MayBegin
<1>2. FramingTypeOK'
  BY <1>1 DEF Begin, FramingTypeOK, Count
<1>3. NextAtHead'
  BY DEF Begin, NextAtHead, IntactPackets, End, Count, Kind
<1>4. NothingWithheld'
  <2>1. \A t \in Sides : Waits(t)' => Waits(t)
    BY DEF Begin, MayBegin, BeginsFrame, FramingTypeOK, Waits
  <2> QED
    BY <2>1 DEF Begin, NothingWithheld, AtHead, Decodable, Complete, Buffered,
                LengthField, Payload, Kind, End, Count
<1> QED BY <1>1, <1>2, <1>3, <1>4

LEMMA WriteKeeps ==
    ASSUME FramingInv, NEW s \in Sides, Write(s)
    PROVE  FramingInv'
<1> USE DEF FramingInv
<1>0. PICK n \in 1..Capacity :
        /\ pc[s] = "write" /\ n <= Room(s) /\ written[s] + n <= End(s, begun[s])
        /\ written' = [written EXCEPT ![s] = @ + n]
        /\ pc' = IF written'[s] = End(s, begun[s])
                 THEN [pc EXCEPT ![s] = back[s]] ELSE pc
        /\ UNCHANGED <<script, back, begun, got, used, received>>
  BY DEF Write
<1>a. /\ Capacity \in Nat /\ n \in Nat /\ n > 0
      /\ \A t \in Sides : /\ written[t] \in Nat /\ got[t] \in Nat /\ begun[t] \in 0..Count(t)
                          /\ Count(t) \in Nat
  BY FramingAssumption, Scripted DEF FramingTypeOK
<1>b. \A t \in Sides : written'[t] = IF t = s THEN written[t] + n ELSE written[t]
  BY <1>0 DEF FramingTypeOK
<1>1. FramingTypeOK'
  <2>1. pc' \in [Sides -> PcValues] /\ written' \in [Sides -> Nat]
    BY <1>0, <1>a DEF FramingTypeOK, PcValues
  <2>2. \A t \in Sides : /\ got[t] <= written'[Peer(t)]
                         /\ written'[Peer(t)] - got[t] <= Capacity
    BY <1>0, <1>a, <1>b, PeerIsSide DEF FramingTypeOK, Room
  <2> QED BY <1>0, <2>1, <2>2 DEF FramingTypeOK, Count
<1>2. WholeFrames'
  <2> SUFFICES ASSUME NEW t \in Sides
               PROVE  IF pc'[t] = "write"
                      THEN /\ begun[t] > 0
                           /\ End(t, begun[t] - 1) <= written'[t]
                           /\ written'[t] < End(t, begun[t])
                      ELSE written'[t] = End(t, begun[t])
    BY <1>0 DEF WholeFrames, End
  <2>1. CASE t # s
    BY <1>0, <1>b, <2>1 DEF FramingTypeOK, WholeFrames
  <2>2. CASE t = s
    <3>1. /\ begun[s] > 0 /\ End(s, begun[s] - 1) <= written[s]
      BY <1>0 DEF WholeFrames
    <3>2. End(s, begun[s]) \in Nat /\ End(s, begun[s] - 1) \in Nat
      BY <1>a, <3>1, Scripted
    <3>3. CASE written'[s] = End(s, begun[s])
      BY <1>0, <2>2, <3>3 DEF FramingTypeOK
    <3>4. CASE written'[s] # End(s, begun[s])
      BY <1>0, <1>a, <1>b, <2>2, <3>1, <3>2, <3>4
    <3> QED BY <3>3, <3>4
  <2> QED BY <2>1, <2>2
<1>3. BegunFits' /\ NextAtHead'
  BY <1>0 DEF BegunFits, NextAtHead, IntactPackets, LengthField, Payload, TooLong,
              End, Count, Kind
<1>4. NothingWithheld'
  <2>1. \A t \in Sides : Waits(t)' => Waits(t)
    BY <1>0 DEF FramingTypeOK, Waits
  <2> QED
    BY <1>0, <2>1 DEF NothingWithheld, AtHead, Decodable, Complete, Buffered,
                      LengthField, Payload, Kind, End, Count
<1> QED BY <1>1, <1>2, <1>3, <1>4

-----------------------------------------------------------------------------
(* Reading.                                                                 *)

LEMMA ReadKeeps ==
    ASSUME FramingInv, NEW s \in Sides, Read(s)
    PROVE  FramingInv'
<1> USE DEF FramingInv
<1>0. PICK n \in 1..READ_SIZE :
        /\ pc[s] = "select" /\ n <= written[Peer(s)] - got[s]
        /\ got' = [got EXCEPT ![s] = @ + n] /\ pc' = [pc EXCEPT ![s] = "decode"]
        /\ UNCHANGED <<script, back, begun, written, used, received>>
  BY DEF Read, MayRead
<1>a. READ_SIZE \in Nat /\ n \in Nat /\ Capacity \in Nat
  BY FramingAssumption
<1>1. FramingTypeOK'
  <2>1. got' \in [Sides -> Nat] /\ pc' \in [Sides -> PcValues]
    BY <1>0, <1>a DEF FramingTypeOK, PcValues
  <2>2. \A t \in Sides : got'[t] = IF t = s THEN got[t] + n ELSE got[t]
    BY <1>0 DEF FramingTypeOK
  <2>3. \A t \in Sides : /\ used[t] <= got'[t] /\ got'[t] <= written[Peer(t)]
                         /\ written[Peer(t)] - got'[t] <= Capacity
    <3>1. \A t \in Sides :
            /\ Peer(t) \in Sides /\ used[t] \in Nat /\ got[t] \in Nat
            /\ written[Peer(t)] \in Nat /\ used[t] <= got[t] /\ got[t] <= written[Peer(t)]
            /\ written[Peer(t)] - got[t] <= Capacity
      BY PeerIsSide DEF FramingTypeOK
    <3> QED BY <1>0, <1>a, <2>2, <3>1
  <2> QED BY <1>0, <2>1, <2>3 DEF FramingTypeOK, Count
<1>2. WholeFrames'
  BY <1>0 DEF FramingTypeOK, WholeFrames, End
<1>3. BegunFits' /\ NextAtHead'
  BY <1>0 DEF BegunFits, NextAtHead, IntactPackets, LengthField, Payload, TooLong,
              End, Count, Kind
<1>4. NothingWithheld'
  <2>1. \A t \in Sides : Waits(t)' => t # s /\ Waits(t) /\ got'[t] = got[t]
    BY <1>0 DEF FramingTypeOK, Waits
  <2> QED
    BY <1>0, <2>1 DEF NothingWithheld, AtHead, Decodable, Complete, Buffered,
                      LengthField, Payload, Kind, End, Count
<1> QED BY <1>1, <1>2, <1>3, <1>4

\* Taking anything of n bytes out of the accumulator keeps all but the place
\* of the next packet.
LEMMA TakesKeeps ==
    ASSUME FramingInv, NEW s \in Sides, NEW p \in Nat, NEW n \in Nat,
           n <= Buffered(s), Takes(s, p, n)
    PROVE  FramingTypeOK' /\ WholeFrames' /\ BegunFits' /\ NothingWithheld'
<1> USE DEF FramingInv
<1>0. /\ pc[s] = "decode"
      /\ received' = [received EXCEPT ![s] = Append(@, p)]
      /\ used' = [used EXCEPT ![s] = @ + n]
      /\ AfterPacket(s) /\ UNCHANGED <<script, written, got>>
  BY DEF Takes
<1>1. /\ WholeFrames' /\ BegunFits'
      /\ begun' \in [Sides -> Nat] /\ \A t \in Sides : begun'[t] <= Count(t)
      /\ pc' \in [Sides -> PcValues] /\ back' \in [Sides -> {"select", "decode"}]
  <2>1. CASE UNCHANGED <<pc, begun, back>>
    BY <1>0, <2>1 DEF FramingTypeOK, WholeFrames, BegunFits, LengthField, Payload,
                      TooLong, End, Count
  <2>2. CASE BeginsFrame(s, "decode")
    BY <1>0, <2>2, BeginsKeeps
  <2>3. CASE pc' = [pc EXCEPT ![s] = "panicked"] /\ UNCHANGED <<begun, back>>
    BY <1>0, <2>3 DEF FramingTypeOK, WholeFrames, BegunFits, LengthField, Payload,
                      TooLong, End, Count, PcValues
  <2> QED BY <1>0, <2>1, <2>2, <2>3 DEF AfterPacket
<1>2. FramingTypeOK'
  <2>1. used' \in [Sides -> Nat] /\ \A t \in Sides : used'[t] <= got[t]
    BY <1>0 DEF FramingTypeOK, Buffered
  <2>2. received' \in [Sides -> Seq(Nat)]
    <3>1. Append(received[s], p) \in Seq(Nat)
      BY DEF FramingTypeOK
    <3> QED BY <1>0, <3>1 DEF FramingTypeOK
  <2> QED BY <1>0, <1>1, <2>1, <2>2 DEF FramingTypeOK, Count
<1>3. NothingWithheld'
  <2>1. \A t \in Sides : Waits(t)' => t # s /\ Waits(t) /\ used'[t] = used[t]
    BY <1>0 DEF FramingTypeOK, Waits, AfterPacket, BeginsFrame
  <2> QED
    BY <1>0, <2>1 DEF NothingWithheld, AtHead, Decodable, Complete, Buffered,
                      LengthField, Payload, Kind, End, Count
<1> QED BY <1>1, <1>2, <1>3

\* The next packet that the promise is about is the one that is decoded.
LEMMA DecodesNext ==
    ASSUME FramingInv, NEW s \in Sides, Len(received[s]) + 1 \in IntactPackets[Peer(s)]
    PROVE  /\ ~Astray(s)
           /\ \A k \in 1..Count(Peer(s)) :
                AtHead(s, k) => k = Len(received[s]) + 1 /\ Kind(Peer(s), k) = "plain"
<1> USE DEF FramingInv
<1>0. Peer(s) \in Sides /\ Len(received[s]) \in Nat /\ Count(Peer(s)) \in Nat
  BY PeerIsSide, Scripted DEF FramingTypeOK
<1>1. /\ Len(received[s]) + 1 \in 1..Count(Peer(s))
      /\ Kind(Peer(s), Len(received[s]) + 1) = "plain"
  BY <1>0 DEF IntactPackets
<1>2. used[s] = End(Peer(s), Len(received[s])) /\ Len(received[s]) \in 0..Count(Peer(s))
  BY <1>0, <1>1 DEF NextAtHead
<1>3. ~Astray(s)
  BY <1>2 DEF Astray
<1>4. ASSUME NEW k \in 1..Count(Peer(s)), AtHead(s, k) PROVE k = Len(received[s]) + 1
  <2>1. End(Peer(s), k - 1) = End(Peer(s), Len(received[s])) /\ k - 1 \in 0..Count(Peer(s))
    BY <1>0, <1>2, <1>4 DEF AtHead
  <2>2. k - 1 = Len(received[s])
    BY <1>0, <1>2, <2>1, Distinct
  <2> QED BY <1>0, <2>2
<1> QED BY <1>1, <1>3, <1>4

\* Whatever is decoded has been sent.
LEMMA DecodesSent ==
    ASSUME FramingInv, NEW s \in Sides, NEW k \in 1..Count(Peer(s)),
           AtHead(s, k), Complete(s, k)
    PROVE  /\ k \in 1..begun[Peer(s)]
           /\ HEADER + LengthField(Peer(s), k) = End(Peer(s), k) - used[s]
           /\ HEADER + LengthField(Peer(s), k) \in Nat
           /\ HEADER + LengthField(Peer(s), k) <= Buffered(s)
<1> USE DEF FramingInv
<1>0. /\ Peer(s) \in Sides /\ Count(Peer(s)) \in Nat
      /\ used[s] \in Nat /\ got[s] \in Nat /\ written[Peer(s)] \in Nat
      /\ got[s] <= written[Peer(s)] /\ begun[Peer(s)] \in 0..Count(Peer(s))
  BY PeerIsSide, Scripted DEF FramingTypeOK
<1>1. written[Peer(s)] <= End(Peer(s), begun[Peer(s)])
  BY <1>0, WrittenBound
<1>2. LengthField(Peer(s), k) \in Nat \cup {TooLong}
  BY <1>0, Lengths
<1>3. used[s] = End(Peer(s), k - 1) /\ used[s] < got[s]
  BY <1>0, <1>2 DEF AtHead, Complete, Buffered, HEADER, TooLong
<1>4. ~(begun[Peer(s)] < k)
  <2> SUFFICES ASSUME begun[Peer(s)] < k PROVE FALSE
    OBVIOUS
  <2>1. begun[Peer(s)] = k - 1 \/ begun[Peer(s)] < k - 1
    BY <1>0
  <2>2. End(Peer(s), begun[Peer(s)]) <= End(Peer(s), k - 1)
    <3>1. k - 1 \in 0..Count(Peer(s)) /\ End(Peer(s), k - 1) \in Nat
          /\ End(Peer(s), begun[Peer(s)]) \in Nat
      BY <1>0, Scripted
    <3>2. CASE begun[Peer(s)] = k - 1
      BY <3>1, <3>2
    <3>3. CASE begun[Peer(s)] < k - 1
      <4>1. End(Peer(s), begun[Peer(s)]) + HEADER <= End(Peer(s), k - 1)
        BY <1>0, <3>1, <3>3, Scripted
      <4> QED BY <3>1, <4>1 DEF HEADER
    <3> QED BY <2>1, <3>2, <3>3
  <2>3. End(Peer(s), begun[Peer(s)]) \in Nat
    BY <1>0, Scripted
  <2> QED BY <1>0, <1>1, <1>3, <2>2, <2>3
<1>5. k \in 1..begun[Peer(s)]
  BY <1>0, <1>4
<1>6. LengthField(Peer(s), k) # TooLong
  BY <1>0, <1>5 DEF BegunFits
<1>7. HEADER + LengthField(Peer(s), k) = End(Peer(s), k) - End(Peer(s), k - 1)
  BY <1>0, <1>6, Lengths
<1> QED BY <1>2, <1>3, <1>5, <1>6, <1>7 DEF Complete, HEADER

LEMMA TakePacketKeeps ==
    ASSUME FramingInv, NEW s \in Sides, TakePacket(s)
    PROVE  FramingInv'
<1>0. PICK k \in 1..Count(Peer(s)) :
        /\ AtHead(s, k) /\ Decodable(s, k)
        /\ Takes(s, k, HEADER + LengthField(Peer(s), k))
  BY DEF TakePacket
<1>t. FramingTypeOK /\ Peer(s) \in Sides
  BY PeerIsSide DEF FramingInv
<1>a. /\ k \in 1..begun[Peer(s)]
      /\ HEADER + LengthField(Peer(s), k) = End(Peer(s), k) - used[s]
      /\ HEADER + LengthField(Peer(s), k) \in Nat
      /\ HEADER + LengthField(Peer(s), k) <= Buffered(s)
  BY <1>0, DecodesSent DEF Decodable
<1>b. Count(Peer(s)) \in Nat /\ k \in Nat
  BY <1>t, Scripted
<1>1. FramingTypeOK' /\ WholeFrames' /\ BegunFits' /\ NothingWithheld'
  BY <1>0, <1>a, <1>b, TakesKeeps
<1>2. NextAtHead'
  <2> SUFFICES ASSUME NEW t \in Sides, Len(received'[t]) + 1 \in IntactPackets[Peer(t)]
               PROVE  used'[t] = End(Peer(t), Len(received'[t]))
    BY <1>0, SameScript DEF NextAtHead, Takes
  <2>0. /\ received' = [received EXCEPT ![s] = Append(@, k)]
        /\ used' = [used EXCEPT ![s] = @ + (HEADER + LengthField(Peer(s), k))]
    BY <1>0 DEF Takes
  <2>1. CASE t # s
    BY <1>t, <2>0, <2>1 DEF FramingTypeOK, FramingInv, NextAtHead
  <2>2. CASE t = s
    <3>1. Len(received'[s]) = Len(received[s]) + 1 /\ Len(received[s]) \in Nat
      BY <1>t, <2>0 DEF FramingTypeOK
    <3>2. Len(received[s]) + 1 \in IntactPackets[Peer(s)]
      BY <1>t, <1>b, <2>2, <3>1 DEF IntactPackets
    <3>3. k = Len(received[s]) + 1
      BY <1>0, <3>2, DecodesNext
    <3>4. used'[s] = used[s] + (HEADER + LengthField(Peer(s), k)) /\ used[s] \in Nat
      BY <1>t, <2>0 DEF FramingTypeOK
    <3>5. End(Peer(s), k) \in Nat
      BY <1>t, <1>b, Scripted
    <3> QED BY <1>a, <2>2, <3>1, <3>3, <3>4, <3>5
  <2> QED BY <2>1, <2>2
<1> QED BY <1>1, <1>2 DEF FramingInv

LEMMA TakeGarbageKeeps ==
    ASSUME FramingInv, NEW s \in Sides, TakeGarbage(s)
    PROVE  FramingInv'
<1>t. FramingTypeOK /\ Peer(s) \in Sides
  BY PeerIsSide DEF FramingInv
<1>0. PICK n \in HEADER..(written[Peer(s)]) : n <= Buffered(s) /\ Takes(s, 0, n)
  BY DEF TakeGarbage
<1>a. n \in Nat
  BY <1>t DEF HEADER, FramingTypeOK
<1>1. FramingTypeOK' /\ WholeFrames' /\ BegunFits' /\ NothingWithheld'
  BY <1>0, <1>a, TakesKeeps
<1>2. NextAtHead'
  <2> SUFFICES ASSUME NEW t \in Sides, Len(received'[t]) + 1 \in IntactPackets[Peer(t)]
               PROVE  used'[t] = End(Peer(t), Len(received'[t]))
    BY <1>0, SameScript DEF NextAtHead, Takes
  <2>0. /\ received' = [received EXCEPT ![s] = Append(@, 0)]
        /\ used' = [used EXCEPT ![s] = @ + n]
    BY <1>0 DEF Takes
  <2>1. CASE t # s
    BY <1>t, <2>0, <2>1 DEF FramingTypeOK, FramingInv, NextAtHead
  <2>2. CASE t = s
    <3>1. Len(received'[s]) = Len(received[s]) + 1 /\ Len(received[s]) \in Nat
      BY <1>t, <2>0 DEF FramingTypeOK
    <3>2. Count(Peer(s)) \in Nat
      BY <1>t, Scripted
    <3>3. Len(received[s]) + 1 \in IntactPackets[Peer(s)]
      BY <1>t, <2>2, <3>1, <3>2 DEF IntactPackets
    <3> QED BY <3>3, DecodesNext DEF TakeGarbage
  <2> QED BY <2>1, <2>2
<1> QED BY <1>1, <1>2 DEF FramingInv

LEMMA ClearBufferKeeps ==
    ASSUME FramingInv, NEW s \in Sides, ClearBuffer(s)
    PROVE  FramingInv'
<1> USE DEF FramingInv
<1>0. /\ pc[s] = "decode" /\ used' = [used EXCEPT ![s] = got[s]]
      /\ pc' = [pc EXCEPT ![s] = "select"]
      /\ UNCHANGED <<script, back, begun, written, got, received>>
  BY DEF ClearBuffer
<1>t. FramingTypeOK /\ Peer(s) \in Sides
  BY PeerIsSide
<1>1. FramingTypeOK'
  BY <1>0 DEF FramingTypeOK, Count, PcValues
<1>2. WholeFrames'
  BY <1>0 DEF FramingTypeOK, WholeFrames, End
<1>3. BegunFits'
  BY <1>0 DEF BegunFits, LengthField, Payload, TooLong, End, Count
<1>4. NextAtHead'
  <2>1. Len(received[s]) + 1 \notin IntactPackets[Peer(s)]
    BY DecodesNext DEF ClearBuffer, Erroneous
  <2> QED
    BY <1>0, <2>1, SameScript DEF FramingTypeOK, NextAtHead
<1>5. NothingWithheld'
  <2> SUFFICES ASSUME NEW t \in Sides, NEW k \in 1..Count(Peer(t)),
                      Waits(t)', AtHead(t, k)'
               PROVE  ~Decodable(t, k)'
    BY <1>0 DEF NothingWithheld, Count
  <2>1. CASE t # s
    <3>1. Waits(t) /\ AtHead(t, k)
      BY <1>0, <2>1 DEF FramingTypeOK, Waits, AtHead, Count, End
    <3>2. ~Decodable(t, k)
      BY <3>1 DEF NothingWithheld
    <3> QED
      BY <1>0, <2>1, <3>2
      DEF FramingTypeOK, Decodable, Complete, Buffered, LengthField, Payload, Kind, End
  <2>2. CASE t = s
    <3>1. Buffered(s)' = 0
      BY <1>0 DEF FramingTypeOK, Buffered
    <3>2. LengthField(Peer(s), k)' = LengthField(Peer(s), k)
      BY <1>0 DEF LengthField, Payload, End
    <3>3. LengthField(Peer(s), k) \in Nat \cup {TooLong}
      BY <1>t, <2>2, Lengths
    <3> QED BY <2>2, <3>1, <3>2, <3>3 DEF Decodable, Complete, HEADER, TooLong
  <2> QED BY <2>1, <2>2
<1> QED BY <1>1, <1>2, <1>3, <1>4, <1>5

LEMMA AwaitMoreKeeps ==
    ASSUME FramingInv, NEW s \in Sides, AwaitMore(s)
    PROVE  FramingInv'
<1> USE DEF FramingInv
<1>0. /\ pc[s] = "decode" /\ pc' = [pc EXCEPT ![s] = "select"]
      /\ UNCHANGED <<script, back, begun, written, got, used, received>>
  BY DEF AwaitMore
<1>1. FramingTypeOK'
  BY <1>0 DEF FramingTypeOK, Count, PcValues
<1>2. WholeFrames'
  BY <1>0 DEF FramingTypeOK, WholeFrames, End
<1>3. BegunFits' /\ NextAtHead'
  BY <1>0 DEF BegunFits, NextAtHead, IntactPackets, LengthField, Payload, TooLong,
              End, Count, Kind
<1>4. NothingWithheld'
  <2>1. \A t \in Sides : Waits(t)' => t = s \/ Waits(t)
    BY <1>0 DEF FramingTypeOK, Waits
  <2>2. \A t \in Sides : \A k \in 1..Count(Peer(t)) :
          Waits(t)' /\ AtHead(t, k) => ~Decodable(t, k)
    BY <2>1 DEF NothingWithheld, AwaitMore
  <2> QED
    BY <1>0, <2>2 DEF NothingWithheld, AtHead, Decodable, Complete, Buffered,
                      LengthField, Payload, Kind, End, Count
<1> QED BY <1>1, <1>2, <1>3, <1>4

LEMMA FramingKeeps == FramingInv /\ [FramingNext]_framingVars => FramingInv'
<1> SUFFICES ASSUME FramingInv, [FramingNext]_framingVars PROVE FramingInv'
  OBVIOUS
<1>1. CASE UNCHANGED framingVars
  <2>1. FramingTypeOK' /\ WholeFrames'
    BY <1>1 DEF framingVars, FramingInv, FramingTypeOK, WholeFrames, End, Count
  <2>2. BegunFits' /\ NextAtHead'
    BY <1>1 DEF framingVars, FramingInv, BegunFits, NextAtHead, IntactPackets,
                LengthField, Payload, TooLong, End, Count, Kind
  <2>3. NothingWithheld'
    BY <1>1 DEF framingVars, FramingInv, NothingWithheld, Waits, AtHead, Decodable,
                Complete, Buffered, LengthField, Payload, Kind, End, Count
  <2> QED BY <2>1, <2>2, <2>3 DEF FramingInv
<1>2. ASSUME NEW s \in Sides, Task(s) PROVE FramingInv'
  BY <1>2, BeginKeeps, WriteKeeps, ReadKeeps, TakePacketKeeps, ClearBufferKeeps,
     AwaitMoreKeeps, TakeGarbageKeeps DEF Task, Decode
<1> QED BY <1>1, <1>2 DEF FramingNext

LEMMA FramingInvariant == FramingSpec => []FramingInv
BY FramingInitially, FramingKeeps, PTL DEF FramingSpec

-----------------------------------------------------------------------------

\* The types; and neither the accumulators nor the kernels' buffers hold what
\* was not written.
THEOREM FramingTypeCorrect == FramingSpec => []FramingTypeOK
BY FramingInvariant, PTL DEF FramingInv

\* Only whole frames follow one another in a stream, whatever a side does
\* between two turns of write_all().
THEOREM FramesStayWhole == FramingSpec => []WholeFrames
BY FramingInvariant, PTL DEF FramingInv

\* No packet that has arrived in full waits for the next read.
THEOREM NothingIsWithheld == FramingSpec => []NothingWithheld
BY FramingInvariant, PTL DEF FramingInv

LEMMA LinkInitially == FramingInit => Link!LinkInit
BY DEF FramingInit, Link!LinkInit, IntactPackets, Link!Sides, Sides

\* Every step sends a packet or not, and delivers one or not.
LEMMA LinkSteps ==
    FramingInv /\ [FramingNext]_framingVars => [Link!LinkNext]_(Link!linkVars)
<1> SUFFICES ASSUME FramingInv, [FramingNext]_framingVars
             PROVE  Link!LinkNext \/ UNCHANGED Link!linkVars
  OBVIOUS
<1>t. FramingTypeOK
  BY DEF FramingInv
<1>u. ASSUME UNCHANGED script PROVE UNCHANGED IntactPackets
  BY <1>u DEF IntactPackets, Count, Kind
<1>1. ASSUME UNCHANGED <<script, begun, received>> PROVE UNCHANGED Link!linkVars
  BY <1>1, <1>u DEF Link!linkVars
<1>2. ASSUME NEW s \in Sides, Begin(s) PROVE Link!LinkNext
  <2>1. Link!Send(s) /\ UNCHANGED <<script, received>>
    BY <1>2 DEF Begin, BeginsFrame, Link!Send
  <2> QED BY <1>u, <2>1 DEF Link!LinkNext, Link!Sides, Sides
<1>3. ASSUME NEW s \in Sides, NEW p \in Nat, NEW n, Takes(s, p, n),
             p \in 0..begun[Peer(s)],
             Len(received[s]) + 1 \in IntactPackets[Peer(s)] => p = Len(received[s]) + 1
      PROVE  Link!LinkNext
  <2>1. Link!Deliver(s)
    BY <1>3 DEF Takes, Link!Deliver, Link!Peer, Peer
  <2>2. Link!Send(s) \/ UNCHANGED begun
    BY <1>3 DEF Takes, AfterPacket, BeginsFrame, Link!Send
  <2> QED BY <1>3, <1>u, <2>1, <2>2 DEF Takes, Link!LinkNext, Link!Sides, Sides
<1>4. ASSUME NEW s \in Sides, TakePacket(s) PROVE Link!LinkNext
  <2>1. PICK k \in 1..Count(Peer(s)) :
          /\ AtHead(s, k) /\ Decodable(s, k)
          /\ Takes(s, k, HEADER + LengthField(Peer(s), k))
    BY <1>4 DEF TakePacket
  <2>2. k \in 1..begun[Peer(s)]
    BY <2>1, DecodesSent DEF Decodable
  <2>3. Len(received[s]) + 1 \in IntactPackets[Peer(s)] => k = Len(received[s]) + 1
    BY <2>1, DecodesNext
  <2>4. begun[Peer(s)] \in Nat
    BY <1>t, PeerIsSide DEF FramingTypeOK
  <2> QED BY <1>3, <2>1, <2>2, <2>3, <2>4
<1>5. ASSUME NEW s \in Sides, TakeGarbage(s) PROVE Link!LinkNext
  <2>1. PICK n : Takes(s, 0, n)
    BY <1>5 DEF TakeGarbage
  <2>2. Len(received[s]) + 1 \notin IntactPackets[Peer(s)]
    BY <1>5, DecodesNext DEF TakeGarbage
  <2>3. begun[Peer(s)] \in Nat
    BY <1>t, PeerIsSide DEF FramingTypeOK
  <2> QED BY <1>3, <2>1, <2>2, <2>3
<1>6. ASSUME NEW s \in Sides, Write(s) \/ Read(s) \/ ClearBuffer(s) \/ AwaitMore(s)
      PROVE  UNCHANGED <<script, begun, received>>
  BY <1>6 DEF Write, Read, MayRead, ClearBuffer, AwaitMore
<1> QED
  BY <1>1, <1>2, <1>4, <1>5, <1>6 DEF FramingNext, Task, Decode, framingVars

\* What the server and the SDK's client take a TCP connection to be is what
\* the framing makes of it.
THEOREM LinkImplemented == FramingSpec => ImplementsLink
<1>1. FramingSpec => Link!LinkInit /\ [][Link!LinkNext]_(Link!linkVars)
  BY FramingInvariant, LinkInitially, LinkSteps, PTL DEF FramingSpec
<1> QED BY <1>1 DEF ImplementsLink, Link!LinkSpec
=============================================================================
