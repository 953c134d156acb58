--------------------------- MODULE BlockRequest_proofs ---------------------------
(***************************************************************************)
(* What holds of the block device's requests for any image, sector size,   *)
(* descriptor lengths and number of requests: what reaches the image, what *)
(* reaches the guest, and what the status byte and the used length say.    *)
(***************************************************************************)
EXTENDS BlockRequest, SequenceTheorems, TLAPS

Addresses == 0 .. U64_MAX

--------------------------------------------------------------------------------
LEMMA CapacityNat == Capacity \in Nat
<1>1. FileLength \div SECTOR_SIZE \in Nat
  BY RequestAssumption DEF RequestAssumption
<1> QED
  BY <1>1, RequestAssumption DEF RequestAssumption, Capacity

LEMMA LengthNat == ASSUME NEW d \in Descriptors PROVE d.len \in Nat /\ d.write \in BOOLEAN
BY RequestAssumption DEF RequestAssumption, Descriptors

LEMMA AppendedLen ==
  ASSUME NEW s \in Seq(Bytes), NEW t \in Seq(Bytes)
  PROVE  s \o t \in Seq(Bytes) /\ Len(s \o t) = Len(s) + Len(t)
OBVIOUS

LEMMA PastEnd ==
  ASSUME NEW s \in Nat, NEW m \in Nat, NEW c \in Nat, NEW a \in Nat, s + m <= c, c <= a
  PROVE  a \notin s .. s + m - 1
OBVIOUS

LEMMA StartNat == ASSUME TypeOK PROVE Start \in Nat
BY RequestAssumption DEF RequestAssumption, TypeOK, Requests, Start

LEMMA StoredType ==
  ASSUME NEW f \in [Addresses -> Bytes], NEW at \in Nat, NEW n \in Nat,
         NEW bytes \in Seq(Bytes), n <= Len(bytes)
  PROVE  Stored(f, at, bytes, n) \in [Addresses -> Bytes]
<1>1. ASSUME NEW a \in Addresses, a \in at .. at + n - 1
      PROVE  bytes[a - at + 1] \in Bytes
  <2>1. a - at + 1 \in 1 .. Len(bytes)
    BY <1>1 DEF Addresses
  <2> QED
    BY <2>1
<1> QED
  BY <1>1 DEF Stored

LEMMA FromGuestType ==
  ASSUME TypeOK, NEW d \in Descriptors
  PROVE  FromGuest(d) \in Seq(Bytes) /\ Len(FromGuest(d)) = d.len
<1>1. d.len \in Nat
  BY RequestAssumption DEF RequestAssumption, Descriptors
<1>2. ASSUME NEW i \in 1 .. d.len PROVE <<count, moved + i>> \in Bytes
  BY <1>1 DEF TypeOK, Bytes
<1> QED
  BY <1>1, <1>2 DEF FromGuest

LEMMA ResizedType ==
  ASSUME NEW n \in Nat
  PROVE  Resized(n) \in Seq(Bytes) /\ Len(Resized(n)) = n
<1>1. Zero \in Bytes
  BY RequestAssumption DEF RequestAssumption, Zero, Bytes
<1> QED
  BY <1>1 DEF Resized

LEMMA WithIdType ==
  ASSUME NEW n \in Nat
  PROVE  /\ WithId(Resized(n)) \in Seq(Bytes) /\ Len(WithId(Resized(n))) = n
         /\ \A i \in 1 .. n : WithId(Resized(n))[i][1] = -1
<1>1. ASSUME NEW i \in 1 .. n
      PROVE  /\ WithId(Resized(n))[i] \in Bytes
             /\ WithId(Resized(n))[i][1] = -1
  BY RequestAssumption DEF RequestAssumption, WithId, Resized, Zero, Bytes
<1>2. WithId(Resized(n)) = [i \in 1 .. n |-> WithId(Resized(n))[i]]
  BY DEF WithId, Resized
<1> HIDE DEF WithId
<1> QED
  BY <1>1, <1>2

LEMMA LoadedType ==
  ASSUME TypeOK, NEW n \in Nat, offset + n <= U64_MAX
  PROVE  Loaded(offset, n) \in Seq(Bytes) /\ Len(Loaded(offset, n)) = n
<1>1. ASSUME NEW i \in 1 .. n PROVE file[offset + i - 1] \in Bytes
  BY RequestAssumption DEF RequestAssumption, TypeOK
<1> QED
  BY <1>1 DEF Loaded

LEMMA CompleteType ==
  ASSUME TypeOK, NEW s \in {"OK", "IOERR", "UNSUPP"}, NEW n \in Nat, Complete(s, n)
  PROVE  /\ phase' = "idle" /\ used' \in Nat
         /\ status' \in {"none", "OK", "IOERR", "UNSUPP"}
         /\ request' = request /\ offset' = offset
BY DEF Complete

--------------------------------------------------------------------------------
(* The bytes a payload step may leave in the image and in the buffers.     *)
LEMMA PayloadType ==
  ASSUME TypeOK, NEW d \in Descriptors, Payload(d)
  PROVE  TypeOK'
<1> USE RequestAssumption DEF RequestAssumption
<1>1. d.len \in Nat /\ d.write \in BOOLEAN
  BY DEF Descriptors
<1>2. /\ payloads' \in 0 .. MaxPayloads /\ room' \in Nat
      /\ UNCHANGED <<readOnly, count, before>> /\ phase = "payload"
  BY <1>1 DEF Payload, TypeOK
<1> DEFINE Typed == /\ file' \in [0 .. U64_MAX -> Bytes]
                    /\ staging' \in Seq(Bytes) /\ guest' \in Seq(Bytes)
                    /\ request' \in Requests /\ phase' \in {"idle", "header", "payload"}
                    /\ offset' \in 0 .. U64_MAX /\ written' \in Nat /\ moved' \in Nat
                    /\ status' \in {"none", "OK", "IOERR", "UNSUPP"} /\ used' \in Nat
<1>3. SUFFICES Typed
  BY <1>2 DEF TypeOK
<1>4. ASSUME Fail("IOERR"), staging' \in Seq(Bytes)
      PROVE  Typed
  <2>1. Complete("IOERR", 0) /\ UNCHANGED <<file, guest, written, moved>>
    BY <1>4 DEF Fail
  <2>2. /\ phase' = "idle" /\ used' \in Nat
        /\ status' \in {"none", "OK", "IOERR", "UNSUPP"}
        /\ request' = request /\ offset' = offset
    BY <2>1, CompleteType
  <2> QED
    BY <1>4, <2>1, <2>2 DEF TypeOK
<1>5. CASE ReadPayload(d)
  <2>1. CASE UNCHANGED staging /\ Fail("IOERR")
    BY <2>1, <1>4 DEF TypeOK
  <2>2. CASE staging' = Resized(d.len) /\ Fail("IOERR")
    BY <2>2, <1>1, <1>4, ResizedType
  <2>3. CASE InBounds(offset, d.len) /\ staging' = Loaded(offset, d.len) /\ Fail("IOERR")
    BY <2>3, <1>1, <1>4, LoadedType DEF InBounds
  <2>4. CASE /\ InBounds(offset, d.len) /\ staging' = Loaded(offset, d.len)
             /\ guest' = guest \o staging' /\ Moved(d, d.len) /\ UNCHANGED file
    <3>1. staging' \in Seq(Bytes) /\ guest' \in Seq(Bytes)
      BY <2>4, <1>1, LoadedType DEF InBounds, TypeOK
    <3>2. offset' \in 0 .. U64_MAX /\ written' \in Nat /\ moved' \in Nat
      <4>1. offset \in Nat /\ written \in Nat /\ moved \in Nat /\ U64_MAX \in Nat
        BY DEF TypeOK
      <4>2. offset + d.len <= U64_MAX /\ offset' = offset + d.len
            /\ written' = written + d.len /\ moved' = moved + d.len
        BY <2>4 DEF InBounds, Moved
      <4> QED
        BY <1>1, <4>1, <4>2
    <3>3. UNCHANGED <<file, phase, request, status, used>>
      BY <2>4 DEF Moved, resultVars
    <3> QED
      BY <3>1, <3>2, <3>3 DEF TypeOK
  <2> QED
    BY <1>5, <2>1, <2>2, <2>3, <2>4 DEF ReadPayload
<1>6. CASE WritePayload(d)
  <2>1. CASE UNCHANGED staging /\ Fail("IOERR")
    BY <2>1, <1>4 DEF TypeOK
  <2>2. CASE staging' = Resized(d.len) /\ Fail("IOERR")
    BY <2>2, <1>1, <1>4, ResizedType
  <2>3. CASE staging' = FromGuest(d) /\ Fail("IOERR")
    BY <2>3, <1>4, FromGuestType
  <2>4. CASE staging' = FromGuest(d) /\ WriteBreaksOff(d)
    <3> PICK n \in 0 .. d.len :
          file' = Stored(file, offset, FromGuest(d), n) /\ moved' = moved + n
      BY <2>4 DEF WriteBreaksOff
    <3>1. file' \in [0 .. U64_MAX -> Bytes]
      <4>1. /\ file \in [Addresses -> Bytes] /\ offset \in Nat /\ n \in Nat
            /\ FromGuest(d) \in Seq(Bytes) /\ n <= Len(FromGuest(d))
        BY <1>1, FromGuestType DEF TypeOK, Addresses
      <4> QED
        BY <4>1, StoredType DEF Addresses
    <3> QED
      BY <2>4, <3>1, <1>1, FromGuestType, CompleteType DEF WriteBreaksOff, TypeOK
  <2>5. CASE /\ staging' = FromGuest(d) /\ Writable(d) /\ file' = Stored(file, offset, staging', d.len)
             /\ Moved(d, 0) /\ UNCHANGED guest
    <3>1. file' \in [0 .. U64_MAX -> Bytes]
      <4>1. /\ file \in [Addresses -> Bytes] /\ offset \in Nat
            /\ FromGuest(d) \in Seq(Bytes) /\ d.len <= Len(FromGuest(d))
        BY <1>1, FromGuestType DEF TypeOK, Addresses
      <4> QED
        BY <2>5, <1>1, <4>1, StoredType DEF Addresses
    <3> QED
      BY <2>5, <3>1, <1>1, FromGuestType, SMTT(30) DEF Writable, InBounds, Moved, resultVars, TypeOK
  <2> QED
    BY <1>6, <2>1, <2>2, <2>3, <2>4, <2>5 DEF WritePayload
<1>7. CASE IdPayload(d)
  <2> DEFINE n == Smaller(d.len, ID_LEN)
  <2>1. n \in Nat
    BY <1>1 DEF Smaller
  <2> HIDE DEF n
  <2>2. CASE UNCHANGED staging /\ Fail("IOERR")
    BY <2>2, <1>4 DEF TypeOK
  <2>3. CASE staging' = WithId(Resized(n)) /\ Fail("IOERR")
    BY <2>1, <2>3, <1>4, WithIdType
  <2>4. CASE /\ staging' = WithId(Resized(n))
             /\ guest' = guest \o staging' /\ written' = written + n
             /\ UNCHANGED <<file, moved, offset, phase, request, resultVars>>
    <3>1. staging' \in Seq(Bytes) /\ guest' \in Seq(Bytes)
      BY <2>1, <2>4, WithIdType DEF TypeOK
    <3>2. written' \in Nat /\ UNCHANGED <<file, moved, offset, phase, request, status, used>>
      BY <2>1, <2>4 DEF TypeOK, resultVars
    <3> QED
      BY <3>1, <3>2 DEF TypeOK
  <2> QED
    BY <1>7, <2>2, <2>3, <2>4 DEF IdPayload, n
<1>8. CASE FlushPayload(d)
  BY <1>8 DEF FlushPayload, dataVars, resultVars, TypeOK
<1> QED
  BY <1>5, <1>6, <1>7, <1>8 DEF Payload

LEMMA TypeStep == TypeOK /\ [Next]_vars => TypeOK'
<1> SUFFICES ASSUME TypeOK, [Next]_vars PROVE TypeOK'
  OBVIOUS
<1> USE RequestAssumption DEF RequestAssumption, dataVars, resultVars, historyVars
<1>1. ASSUME NEW r \in Requests, Take(r) PROVE TypeOK'
  BY <1>1 DEF Take, TypeOK
<1>2. CASE Header
  <2>1. CASE \E s \in {"IOERR", "UNSUPP"} : Complete(s, 0)
    BY <1>2, <2>1, CompleteType DEF Header, TypeOK
  <2>2. CASE /\ SectorInRange /\ offset' = request.sector * SECTOR_SIZE /\ phase' = "payload"
             /\ UNCHANGED <<resultVars, request>>
    <3>1. offset' \in 0 .. U64_MAX
      BY <2>2, StartNat DEF SectorInRange, Start
    <3> QED
      BY <1>2, <2>2, <3>1 DEF Header, TypeOK
  <2> QED
    BY <1>2, <2>1, <2>2 DEF Header
<1>3. CASE Finish
  BY <1>3, CompleteType DEF Finish, TypeOK
<1>4. ASSUME NEW d \in Descriptors, Payload(d) PROVE TypeOK'
  BY <1>4, PayloadType
<1>5. CASE UNCHANGED vars
  BY <1>5 DEF vars, TypeOK
<1> QED
  BY <1>1, <1>2, <1>3, <1>4, <1>5 DEF Next

(* The variables have their types: no address passes 2^64, buffers hold    *)
(* bytes, the outcome is one of virtio's.                                  *)
THEOREM TypeCorrect == Spec => []TypeOK
<1>1. Init => TypeOK
  BY RequestAssumption
     DEF RequestAssumption, Init, TypeOK, Image, Absent, Bytes, Requests, NoRequest, Kinds
<1> QED
  BY <1>1, TypeStep, PTL DEF Spec

--------------------------------------------------------------------------------
(* A descriptor either breaks the request off, with what was written of it *)
(* before, or is moved as its kind says.                                   *)
BytesWritten(d, n) ==
  /\ request.kind = "write" /\ Writable(d)
  /\ file' = Stored(file, offset, FromGuest(d), n) /\ moved' = moved + n

BreaksOff(d) ==
  /\ Complete("IOERR", 0) /\ UNCHANGED <<guest, written>>
  /\ \/ UNCHANGED <<file, moved>>
     \/ \E n \in 0 .. d.len : BytesWritten(d, n)

MovesOn(d) ==
  /\ phase' = "payload" /\ UNCHANGED <<request, status, used>>
  /\ \/ /\ request.kind = "read" /\ d.write /\ InBounds(offset, d.len)
        /\ guest' = guest \o Loaded(offset, d.len) /\ written' = written + d.len
        /\ moved' = moved + d.len /\ offset' = offset + d.len /\ file' = file
     \/ /\ BytesWritten(d, d.len) /\ offset' = offset + d.len /\ UNCHANGED <<guest, written>>
     \/ /\ request.kind = "get_id" /\ d.write /\ UNCHANGED <<file, moved, offset>>
        /\ \E n \in 0 .. d.len : /\ guest' = guest \o WithId(Resized(n))
                                 /\ written' = written + n
     \/ /\ request.kind = "flush" /\ UNCHANGED <<file, guest, written, moved, offset>>

LEMMA PayloadCases ==
  ASSUME TypeOK, NEW d \in Descriptors, Payload(d)
  PROVE  /\ phase = "payload" /\ UNCHANGED <<readOnly, count, before>>
         /\ room' = (IF d.write THEN room + d.len ELSE room)
         /\ BreaksOff(d) \/ MovesOn(d)
<1> USE DEF dataVars, resultVars
<1>1. phase = "payload" /\ UNCHANGED <<readOnly, count, before>>
      /\ room' = (IF d.write THEN room + d.len ELSE room)
  BY DEF Payload
<1>2. Fail("IOERR") => BreaksOff(d)
  BY DEF Fail, BreaksOff
<1>3. CASE ReadPayload(d)
  <2>1. CASE /\ d.write /\ InBounds(offset, d.len) /\ staging' = Loaded(offset, d.len)
             /\ guest' = guest \o staging' /\ Moved(d, d.len) /\ UNCHANGED file
    BY <1>1, <1>3, <2>1 DEF ReadPayload, Moved, MovesOn
  <2> QED
    BY <1>1, <1>2, <1>3, <2>1 DEF ReadPayload
<1>4. CASE WritePayload(d)
  <2>1. CASE Writable(d) /\ WriteBreaksOff(d)
    BY <1>1, <1>4, <2>1 DEF WritePayload, WriteBreaksOff, BreaksOff, BytesWritten
  <2>2. CASE /\ staging' = FromGuest(d) /\ Writable(d)
             /\ file' = Stored(file, offset, staging', d.len)
             /\ Moved(d, 0) /\ UNCHANGED guest
    <3>1. request.kind = "write" /\ written + 0 = written
      BY <1>4 DEF WritePayload, TypeOK
    <3> QED
      BY <1>1, <2>2, <3>1 DEF Moved, MovesOn, BytesWritten
  <2> QED
    BY <1>1, <1>2, <1>4, <2>1, <2>2 DEF WritePayload
<1>5. CASE IdPayload(d)
  <2> DEFINE n == Smaller(d.len, ID_LEN)
  <2>1. n \in 0 .. d.len
    <3>1. d.len \in Nat /\ ID_LEN \in Nat
      BY RequestAssumption DEF RequestAssumption, Descriptors
    <3> QED
      BY <3>1 DEF Smaller
  <2> HIDE DEF n
  <2>2. CASE /\ d.write /\ staging' = WithId(Resized(n))
             /\ guest' = guest \o staging' /\ written' = written + n
             /\ UNCHANGED <<file, moved, offset, phase, request, resultVars>>
    BY <1>1, <1>5, <2>1, <2>2 DEF IdPayload, MovesOn
  <2> QED
    BY <1>1, <1>2, <1>5, <2>2 DEF IdPayload, n
<1>6. CASE FlushPayload(d)
  BY <1>1, <1>6 DEF FlushPayload, MovesOn
<1> QED
  BY <1>1, <1>3, <1>4, <1>5, <1>6 DEF Payload

(* Every step but these leaves image, guest and what they are compared     *)
(* with alone.                                                             *)
LEMMA HeaderCases ==
  ASSUME TypeOK, Header
  PROVE  /\ phase = "header" /\ UNCHANGED <<readOnly, historyVars, dataVars, written, request>>
         /\ \/ \E s \in {"IOERR", "UNSUPP"} : Complete(s, 0)
            \/ /\ request.status # "bad" /\ request.kind # "unsupported"
               /\ phase' = "payload" /\ offset' = Start /\ UNCHANGED resultVars
BY DEF Header, Complete, Start

LEMMA FinishCases ==
  ASSUME Finish
  PROVE  /\ phase = "payload" /\ UNCHANGED <<readOnly, historyVars, dataVars, written, request>>
         /\ Complete("OK", written) \/ Complete("IOERR", 0)
BY DEF Finish, Complete

--------------------------------------------------------------------------------
(* Where a request stands: nothing is moved before its payload, and then   *)
(* the offset is as far from its sector as bytes have been.                *)
PlaceInv ==
  /\ phase = "header" => moved = 0 /\ guest = <<>> /\ written = 0 /\ room = 0
  /\ phase = "payload" => /\ request.status # "bad" /\ offset = Start + moved
                          /\ written = Len(guest)

(* The image differs from what it was before the request only within the   *)
(* sectors of a disk that may be written.                                  *)
ImageInv ==
  /\ WritesExact
  /\ \A a \in Capacity .. U64_MAX : before[a] = Image[a]
  /\ readOnly => before = Image
  /\ request.kind = "write" /\ moved > 0 => ~readOnly /\ Start + moved <= Capacity

GuestInv ==
  /\ GuestSeesOnlyItsOwn
  /\ request.kind = "read" => Len(guest) = moved
  /\ request.kind \notin {"read", "get_id"} => guest = <<>>

CountInv ==
  /\ UsedLengthCounts
  /\ Len(guest) <= room
  /\ request.kind = "read" /\ phase = "payload" => Len(guest) = room

OutcomeInv ==
  /\ OutcomeReported
  /\ request.status = "bad" => moved = 0 /\ guest = <<>>

IInv == TypeOK /\ PlaceInv /\ ImageInv /\ GuestInv /\ CountInv /\ OutcomeInv

--------------------------------------------------------------------------------
(* What an image b becomes when request c has written m bytes from s on.    *)
Over(b, s, c, m) ==
  [a \in Addresses |-> IF a \in s .. s + m - 1 THEN <<c, a - s + 1>> ELSE b[a]]

(* The first conjunct of WritesExact, of any image.                        *)
Exactly(f, b, s, c, m) ==
  f = (IF m > 0 THEN [a \in DOMAIN f |-> IF a \in s .. s + m - 1
                                         THEN <<c, a - s + 1>> ELSE b[a]]
       ELSE b)

LEMMA ExactIsOver ==
  ASSUME NEW f \in [Addresses -> Bytes], NEW b \in [Addresses -> Bytes], NEW c,
         NEW s \in Nat, NEW m \in Nat
  PROVE  Exactly(f, b, s, c, m) <=> f = Over(b, s, c, m)
<1>1. DOMAIN f = Addresses /\ DOMAIN b = Addresses
  OBVIOUS
<1>2. CASE m > 0
  BY <1>1, <1>2 DEF Over, Exactly
<1>3. CASE m = 0
  <2>1. \A a \in Addresses : a \notin s .. s + m - 1
    BY <1>3
  <2>2. Over(b, s, c, m) = [a \in Addresses |-> b[a]]
    BY <2>1 DEF Over
  <2>3. b = [a \in Addresses |-> b[a]]
    OBVIOUS
  <2> QED
    BY <1>3, <2>2, <2>3 DEF Exactly
<1> QED
  BY <1>2, <1>3

LEMMA StoredOver ==
  ASSUME TypeOK, file = Over(before, Start, count, moved), offset = Start + moved,
         NEW d \in Descriptors, NEW n \in 0 .. d.len
  PROVE  Stored(file, offset, FromGuest(d), n) = Over(before, Start, count, moved + n)
<1>0. d.len \in Nat
  BY LengthNat
<1>1. n \in Nat /\ moved \in Nat /\ Start \in Nat /\ offset \in Nat
  BY <1>0, StartNat DEF TypeOK
<1>2. DOMAIN file = Addresses /\ Addresses \subseteq Nat
  BY RequestAssumption DEF RequestAssumption, TypeOK, Addresses
<1>3. ASSUME NEW a \in Addresses
      PROVE  Stored(file, offset, FromGuest(d), n)[a] = Over(before, Start, count, moved + n)[a]
  <2>0. /\ Stored(file, offset, FromGuest(d), n)[a]
             = (IF a \in offset .. offset + n - 1 THEN FromGuest(d)[a - offset + 1] ELSE file[a])
        /\ a \in Nat
    BY <1>2 DEF Stored
  <2>1. CASE a \in offset .. offset + n - 1
    <3>1. a - offset + 1 \in 1 .. d.len
      BY <2>1, <2>0, <1>0, <1>1
    <3>2. FromGuest(d)[a - offset + 1] = <<count, moved + (a - offset + 1)>>
      BY <3>1 DEF FromGuest
    <3>3. moved + (a - offset + 1) = a - Start + 1 /\ a \in Start .. Start + (moved + n) - 1
      BY <2>1, <2>0, <1>1
    <3> QED
      BY <2>0, <2>1, <3>2, <3>3 DEF Over
  <2>2. CASE a \notin offset .. offset + n - 1
    <3>1. a \in Start .. Start + (moved + n) - 1 <=> a \in Start .. Start + moved - 1
      BY <2>2, <2>0, <1>1
    <3>2. file[a] = IF a \in Start .. Start + moved - 1 THEN <<count, a - Start + 1>> ELSE before[a]
      BY DEF Over
    <3> QED
      BY <2>0, <2>2, <3>1, <3>2 DEF Over
  <2> QED
    BY <2>1, <2>2
<1>4. Stored(file, offset, FromGuest(d), n)
        = [a \in Addresses |-> Stored(file, offset, FromGuest(d), n)[a]]
  BY <1>2 DEF Stored
<1>5. Over(before, Start, count, moved + n) = [a \in Addresses |-> Over(before, Start, count, moved + n)[a]]
  BY DEF Over
<1> HIDE DEF Addresses
<1> QED
  BY <1>3, <1>4, <1>5

LEMMA PlaceStep == TypeOK /\ PlaceInv /\ [Next]_vars => PlaceInv'
<1> SUFFICES ASSUME TypeOK, PlaceInv, [Next]_vars PROVE PlaceInv'
  OBVIOUS
<1> USE DEF PlaceInv, dataVars, resultVars, historyVars
<1>1. ASSUME NEW r \in Requests, Take(r) PROVE PlaceInv'
  BY <1>1 DEF Take
<1>2. CASE Header
  <2>1. CASE phase' = "idle"
    BY <2>1
  <2>2. CASE /\ request.status # "bad" /\ phase' = "payload" /\ offset' = Start
    <3>1. moved' = 0 /\ written' = 0 /\ guest' = <<>> /\ request' = request
      BY <1>2, <2>2, HeaderCases
    <3>2. Start' = Start /\ Start = Start + 0
      BY <3>1, StartNat DEF Start
    <3> QED
      BY <2>2, <3>1, <3>2
  <2> QED
    BY <1>2, <2>1, <2>2, HeaderCases DEF Complete
<1>3. CASE Finish
  BY <1>3, FinishCases DEF Complete
<1>4. ASSUME NEW d \in Descriptors, Payload(d) PROVE PlaceInv'
  <2>1. CASE BreaksOff(d)
    BY <2>1 DEF BreaksOff, Complete
  <2>2. CASE MovesOn(d)
    <3>0. d.len \in Nat
      BY LengthNat
    <3>1. moved \in Nat /\ written \in Nat /\ Start \in Nat /\ guest \in Seq(Bytes)
      BY StartNat DEF TypeOK
    <3>2. phase = "payload" /\ phase' = "payload" /\ request' = request /\ Start' = Start
      BY <1>4, <2>2, PayloadCases DEF MovesOn, Start
    <3>3. offset' = Start + moved'
      BY <1>4, <2>2, <3>0, <3>1, <3>2, PayloadCases DEF MovesOn, BytesWritten
    <3>4. written' = Len(guest')
      <4>1. CASE /\ InBounds(offset, d.len) /\ guest' = guest \o Loaded(offset, d.len)
                 /\ written' = written + d.len
        <5>1. Loaded(offset, d.len) \in Seq(Bytes) /\ Len(Loaded(offset, d.len)) = d.len
          BY <3>0, <4>1, LoadedType DEF InBounds
        <5>2. Len(guest \o Loaded(offset, d.len)) = Len(guest) + d.len
          BY <3>1, <5>1, AppendedLen
        <5> QED
          BY <1>4, <4>1, <5>2, PayloadCases
      <4>2. CASE \E n \in 0 .. d.len : guest' = guest \o WithId(Resized(n)) /\ written' = written + n
        <5> PICK n \in 0 .. d.len : guest' = guest \o WithId(Resized(n)) /\ written' = written + n
          BY <4>2
        <5>1. WithId(Resized(n)) \in Seq(Bytes) /\ Len(WithId(Resized(n))) = n
          BY <3>0, WithIdType
        <5>2. Len(guest \o WithId(Resized(n))) = Len(guest) + n
          BY <3>1, <5>1, AppendedLen
        <5> QED
          BY <1>4, <5>2, PayloadCases
      <4>3. CASE UNCHANGED <<guest, written>>
        BY <1>4, <4>3, PayloadCases
      <4> QED
        BY <2>2, <4>1, <4>2, <4>3 DEF MovesOn
    <3> QED
      BY <3>2, <3>3, <3>4
  <2> QED
    BY <1>4, <2>1, <2>2, PayloadCases
<1>5. CASE UNCHANGED vars
  BY <1>5 DEF vars, Start
<1> QED
  BY <1>1, <1>2, <1>3, <1>4, <1>5 DEF Next

FileExact == file = IF request.kind = "write" /\ moved > 0
                    THEN [a \in DOMAIN file |-> IF a \in Start .. Start + moved - 1
                                                THEN <<count, a - Start + 1>> ELSE before[a]]
                    ELSE before

LEMMA BytesWrittenStep ==
  ASSUME TypeOK, TypeOK', PlaceInv, ImageInv, NEW d \in Descriptors, NEW n \in 0 .. d.len,
         phase = "payload", UNCHANGED <<readOnly, count, before, request>>,
         BytesWritten(d, n)
  PROVE  ImageInv'
<1>1. d.len \in Nat
  BY LengthNat
<1>2. moved \in Nat /\ Start \in Nat /\ n \in Nat /\ moved' \in Nat /\ Start' = Start
  BY <1>1, StartNat, SMTT(30) DEF TypeOK, Start
<1>3. /\ file \in [Addresses -> Bytes] /\ before \in [Addresses -> Bytes]
      /\ file' \in [Addresses -> Bytes]
  BY DEF TypeOK, Addresses
<1>4. /\ request.kind = "write" /\ ~readOnly /\ offset = Start + moved
      /\ offset + d.len <= Capacity /\ moved' = moved + n
  BY DEF BytesWritten, Writable, InBounds, PlaceInv
<1>5. file = Over(before, Start, count, moved)
  <2>1. Exactly(file, before, Start, count, moved)
    BY <1>4 DEF ImageInv, WritesExact, Exactly
  <2> QED
    BY <1>2, <1>3, <2>1, ExactIsOver
<1>6. file' = Over(before, Start, count, moved')
  BY <1>4, <1>5, StoredOver DEF BytesWritten
<1>7. FileExact'
  <2>1. Exactly(file', before, Start, count, moved')
    BY <1>2, <1>3, <1>6, ExactIsOver
  <2> QED
    BY <1>2, <1>4, <2>1 DEF FileExact, Exactly
<1>8. Start + moved' <= Capacity
  BY <1>1, <1>2, <1>4, CapacityNat
<1>9. ASSUME NEW a \in Capacity .. U64_MAX PROVE file'[a] = Image[a]
  <2>0. U64_MAX \in Nat
    BY RequestAssumption DEF RequestAssumption
  <2>1. a \in Nat /\ Capacity <= a /\ a \in Addresses
    BY <2>0, CapacityNat DEF Addresses
  <2>2. a \notin Start .. Start + moved' - 1
    <3>1. Start \in Nat /\ moved' \in Nat /\ Start + moved' <= Capacity /\ Capacity \in Nat
      BY <1>2, <1>8, CapacityNat
    <3> QED
      BY <2>1, <3>1, PastEnd
  <2>3. file'[a] = before[a]
    BY <1>6, <2>1, <2>2 DEF Over
  <2> QED
    BY <2>3 DEF ImageInv
<1>10. UNCHANGED <<Capacity, Image>>
  BY DEF Capacity, Image
<1> QED
  BY <1>2, <1>4, <1>7, <1>8, <1>9 DEF ImageInv, WritesExact, FileExact

LEMMA ImageFrame ==
  ASSUME ImageInv, UNCHANGED <<readOnly, count, before, request, file, moved>>
  PROVE  ImageInv'
BY DEF ImageInv, WritesExact, Start

LEMMA ImageStep == TypeOK /\ TypeOK' /\ PlaceInv /\ ImageInv /\ [Next]_vars => ImageInv'
<1> SUFFICES ASSUME TypeOK, TypeOK', PlaceInv, ImageInv, [Next]_vars PROVE ImageInv'
  OBVIOUS
<1> USE DEF dataVars, resultVars, historyVars
<1>1. ASSUME NEW r \in Requests, Take(r) PROVE ImageInv'
  BY <1>1 DEF Take, ImageInv, WritesExact
<1>2. CASE Header
  BY <1>2, HeaderCases, ImageFrame
<1>3. CASE Finish
  BY <1>3, FinishCases, ImageFrame
<1>4. ASSUME NEW d \in Descriptors, Payload(d) PROVE ImageInv'
  <2>1. /\ phase = "payload" /\ UNCHANGED <<readOnly, count, before, request>>
        /\ \/ UNCHANGED <<file, moved>>
           \/ request.kind = "read" /\ UNCHANGED file
           \/ \E n \in 0 .. d.len : BytesWritten(d, n)
    <3>1. d.len \in 0 .. d.len
      BY LengthNat
    <3> QED
      BY <1>4, <3>1, PayloadCases DEF BreaksOff, MovesOn, Complete
  <2>2. CASE request.kind = "read" /\ UNCHANGED file
    BY <2>1, <2>2 DEF ImageInv, WritesExact
  <2> QED
    BY <2>1, <2>2, ImageFrame, BytesWrittenStep
<1>5. CASE UNCHANGED vars
  BY <1>5, ImageFrame DEF vars
<1> QED
  BY <1>1, <1>2, <1>3, <1>4, <1>5 DEF Next

--------------------------------------------------------------------------------
(* What a descriptor adds to what the guest got.                           *)
LEMMA GuestFrame ==
  ASSUME GuestInv, UNCHANGED <<guest, before, request, moved>>
  PROVE  GuestInv'
BY DEF GuestInv, GuestSeesOnlyItsOwn, Start

LEMMA ReadStep ==
  ASSUME TypeOK, PlaceInv, ImageInv, GuestInv, NEW d \in Descriptors,
         phase = "payload", UNCHANGED <<before, request>>, request.kind = "read",
         InBounds(offset, d.len), guest' = guest \o Loaded(offset, d.len),
         moved' = moved + d.len
  PROVE  GuestInv'
<1>1. d.len \in Nat
  BY LengthNat
<1>2. /\ moved \in Nat /\ Start \in Nat /\ Start' = Start /\ guest \in Seq(Bytes)
      /\ offset = Start + moved /\ Len(guest) = moved /\ file = before
  BY StartNat DEF TypeOK, Start, PlaceInv, GuestInv, ImageInv, WritesExact
<1>3. /\ Loaded(offset, d.len) \in Seq(Bytes) /\ Len(Loaded(offset, d.len)) = d.len
      /\ \A j \in 1 .. d.len : Loaded(offset, d.len)[j] = before[offset + j - 1]
  BY <1>1, <1>2, LoadedType DEF InBounds, Loaded
<1>4. Len(guest') = moved' /\ DOMAIN guest' = 1 .. moved' /\ moved' \in Nat
  BY <1>1, <1>2, <1>3
<1>5. ASSUME NEW i \in 1 .. moved' PROVE guest'[i] = before[Start + i - 1]
  <2>1. CASE i <= moved
    <3>1. i \in DOMAIN guest
      BY <1>2, <1>4, <2>1
    <3>2. guest'[i] = guest[i]
      BY <1>2, <1>3, <3>1
    <3> QED
      BY <3>1, <3>2 DEF GuestInv, GuestSeesOnlyItsOwn
  <2>2. CASE ~(i <= moved)
    <3>1. i - moved \in 1 .. d.len /\ offset + (i - moved) - 1 = Start + i - 1
      BY <1>1, <1>2, <1>4, <2>2
    <3>2. guest'[i] = Loaded(offset, d.len)[i - moved]
      BY <1>1, <1>2, <1>3, <2>2, <3>1, SMTT(30)
    <3> QED
      BY <1>3, <3>1, <3>2
  <2> QED
    BY <2>1, <2>2
<1> QED
  BY <1>2, <1>4, <1>5 DEF GuestInv, GuestSeesOnlyItsOwn

LEMMA IdStep ==
  ASSUME TypeOK, GuestInv, UNCHANGED <<before, request>>, request.kind = "get_id",
         NEW n \in Nat, guest' = guest \o WithId(Resized(n))
  PROVE  GuestInv'
<1>1. guest \in Seq(Bytes)
  BY DEF TypeOK
<1>2. /\ WithId(Resized(n)) \in Seq(Bytes) /\ Len(WithId(Resized(n))) = n
      /\ \A j \in 1 .. n : WithId(Resized(n))[j][1] = -1
  BY WithIdType
<1>3. ASSUME NEW i \in DOMAIN guest' PROVE guest'[i][1] = -1
  <2>1. CASE i \in DOMAIN guest
    BY <1>1, <1>2, <2>1 DEF GuestInv, GuestSeesOnlyItsOwn
  <2>2. CASE i \notin DOMAIN guest
    <3>1. i - Len(guest) \in 1 .. n /\ guest'[i] = WithId(Resized(n))[i - Len(guest)]
      BY <1>1, <1>2, <2>2
    <3> QED
      BY <1>2, <3>1
  <2> QED
    BY <2>1, <2>2
<1> QED
  BY <1>3 DEF GuestInv, GuestSeesOnlyItsOwn

LEMMA GuestStep == TypeOK /\ PlaceInv /\ ImageInv /\ GuestInv /\ [Next]_vars => GuestInv'
<1> SUFFICES ASSUME TypeOK, PlaceInv, ImageInv, GuestInv, [Next]_vars PROVE GuestInv'
  OBVIOUS
<1> USE DEF dataVars, resultVars, historyVars
<1>1. ASSUME NEW r \in Requests, Take(r) PROVE GuestInv'
  BY <1>1 DEF Take, GuestInv, GuestSeesOnlyItsOwn
<1>2. CASE Header
  BY <1>2, HeaderCases, GuestFrame
<1>3. CASE Finish
  BY <1>3, FinishCases, GuestFrame
<1>4. ASSUME NEW d \in Descriptors, Payload(d) PROVE GuestInv'
  <2>1. phase = "payload" /\ UNCHANGED <<count, before>> /\ (BreaksOff(d) \/ MovesOn(d))
    BY <1>4, PayloadCases
  <2>2. UNCHANGED request
    BY <2>1 DEF BreaksOff, MovesOn, Complete
  <2>3. CASE request.kind = "write" /\ UNCHANGED guest
    BY <2>1, <2>2, <2>3 DEF GuestInv, GuestSeesOnlyItsOwn
  <2>4. CASE BreaksOff(d)
    BY <2>1, <2>2, <2>3, <2>4, GuestFrame DEF BreaksOff, BytesWritten
  <2>5. CASE MovesOn(d)
    <3>1. CASE /\ request.kind = "read" /\ InBounds(offset, d.len)
               /\ guest' = guest \o Loaded(offset, d.len) /\ moved' = moved + d.len
      BY <2>1, <2>2, <3>1, ReadStep
    <3>2. CASE request.kind = "get_id" /\ \E n \in 0 .. d.len : guest' = guest \o WithId(Resized(n))
      <4> PICK n \in 0 .. d.len : guest' = guest \o WithId(Resized(n))
        BY <3>2
      <4>1. n \in Nat
        BY LengthNat
      <4> QED
        BY <2>1, <2>2, <3>2, <4>1, IdStep
    <3> QED
      BY <2>1, <2>2, <2>3, <2>5, <3>1, <3>2, GuestFrame DEF MovesOn, BytesWritten
  <2> QED
    BY <2>1, <2>4, <2>5
<1>5. CASE UNCHANGED vars
  BY <1>5, GuestFrame DEF vars
<1> QED
  BY <1>1, <1>2, <1>3, <1>4, <1>5 DEF Next

--------------------------------------------------------------------------------
(* What the guest got, against the memory it gave.                         *)
LEMMA CountStep ==
  TypeOK /\ TypeOK' /\ PlaceInv /\ GuestInv /\ CountInv /\ [Next]_vars => CountInv'
<1> SUFFICES ASSUME TypeOK, TypeOK', PlaceInv, GuestInv, CountInv, [Next]_vars PROVE CountInv'
  OBVIOUS
<1> USE DEF dataVars, resultVars, historyVars
<1>0. /\ room \in Nat /\ room' \in Nat /\ guest \in Seq(Bytes) /\ guest' \in Seq(Bytes)
      /\ Len(guest) \in Nat /\ Len(guest') \in Nat /\ written \in Nat
  BY SMTT(30) DEF TypeOK
<1>1. ASSUME NEW r \in Requests, Take(r) PROVE CountInv'
  <2>1. phase' = "header" /\ Len(guest') = 0
    BY <1>1 DEF Take
  <2> QED
    BY <1>0, <2>1 DEF CountInv, UsedLengthCounts, Answered
<1>2. ASSUME Complete("IOERR", 0) \/ Complete("UNSUPP", 0),
             UNCHANGED guest, room <= room'
      PROVE  CountInv'
  BY <1>0, <1>2 DEF Complete, CountInv, UsedLengthCounts
<1>3. CASE Header
  <2>1. UNCHANGED <<guest, room, request>> /\ guest = <<>> /\ room = 0
    BY <1>3, HeaderCases DEF PlaceInv
  <2>2. CASE phase' = "payload"
    <3>1. Len(guest') = 0
      BY <2>1
    <3> QED
      BY <1>0, <2>1, <2>2, <3>1 DEF CountInv, UsedLengthCounts, Answered
  <2> QED
    BY <1>0, <1>2, <1>3, <2>1, <2>2, HeaderCases
<1>4. CASE Finish
  <2>1. UNCHANGED <<guest, room, request>> /\ written = Len(guest) /\ phase = "payload"
    BY <1>4, FinishCases DEF PlaceInv
  <2>2. CASE Complete("OK", written)
    <3>1. /\ request.status = "ok" => status' = "OK" /\ used' = written + 1
          /\ request.status # "ok" => status' = "none" /\ used' = 0
      BY <2>2 DEF Complete
    <3>2. Len(guest) <= room /\ (request.kind = "read" => Len(guest) = room)
      BY <2>1 DEF CountInv
    <3> QED
      BY <1>0, <2>1, <3>1, <3>2 DEF CountInv, UsedLengthCounts
  <2> QED
    BY <1>0, <1>2, <1>4, <2>1, <2>2, FinishCases
<1>5. ASSUME NEW d \in Descriptors, Payload(d) PROVE CountInv'
  <2>0. d.len \in Nat
    BY LengthNat
  <2>1. /\ phase = "payload" /\ room' = (IF d.write THEN room + d.len ELSE room)
        /\ room <= room' /\ (BreaksOff(d) \/ MovesOn(d))
    BY <1>0, <1>5, <2>0, PayloadCases
  <2>2. CASE BreaksOff(d)
    BY <1>2, <2>1, <2>2 DEF BreaksOff
  <2>3. CASE MovesOn(d)
    <3>1. phase' = "payload" /\ UNCHANGED request
      BY <2>3 DEF MovesOn
    <3>2. Len(guest) <= room /\ (request.kind = "read" => Len(guest) = room)
      BY <2>1 DEF CountInv
    <3>3. Len(guest') <= room' /\ (request.kind = "read" => Len(guest') = room')
      <4>1. CASE request.kind = "read" /\ d.write /\ InBounds(offset, d.len)
                 /\ guest' = guest \o Loaded(offset, d.len)
        <5>1. Loaded(offset, d.len) \in Seq(Bytes) /\ Len(Loaded(offset, d.len)) = d.len
          BY <2>0, <4>1, LoadedType DEF InBounds
        <5>2. Len(guest \o Loaded(offset, d.len)) = Len(guest) + d.len
          BY <1>0, <5>1, AppendedLen
        <5> QED
          BY <1>0, <2>0, <2>1, <3>2, <4>1, <5>2
      <4>2. CASE /\ request.kind = "get_id" /\ d.write
                 /\ \E n \in 0 .. d.len : guest' = guest \o WithId(Resized(n))
        <5> PICK n \in 0 .. d.len : guest' = guest \o WithId(Resized(n))
          BY <4>2
        <5>1. WithId(Resized(n)) \in Seq(Bytes) /\ Len(WithId(Resized(n))) = n /\ n \in Nat
          BY <2>0, WithIdType
        <5>2. Len(guest \o WithId(Resized(n))) = Len(guest) + n
          BY <1>0, <5>1, AppendedLen
        <5> QED
          BY <1>0, <2>0, <2>1, <3>2, <4>2, <5>1, <5>2
      <4>3. CASE UNCHANGED guest /\ request.kind # "read"
        BY <1>0, <2>1, <3>2, <4>3
      <4> QED
        BY <2>3, <4>1, <4>2, <4>3 DEF MovesOn, BytesWritten
    <3> QED
      BY <3>1, <3>3 DEF CountInv, UsedLengthCounts, Answered
  <2> QED
    BY <2>1, <2>2, <2>3
<1>6. CASE UNCHANGED vars
  BY <1>6 DEF vars, CountInv, UsedLengthCounts, Answered
<1> QED
  BY <1>1, <1>3, <1>4, <1>5, <1>6 DEF Next

(* A chain without a place for its status goes no further than its header. *)
LEMMA OutcomeStep == TypeOK /\ PlaceInv /\ ImageInv /\ OutcomeInv /\ [Next]_vars => OutcomeInv'
<1> SUFFICES ASSUME TypeOK, PlaceInv, ImageInv, OutcomeInv, [Next]_vars PROVE OutcomeInv'
  OBVIOUS
<1> USE DEF dataVars, resultVars, historyVars
<1>1. ASSUME NEW r \in Requests, Take(r) PROVE OutcomeInv'
  BY <1>1 DEF Take, OutcomeInv, OutcomeReported, Answered
<1>2. CASE Header
  <2>1. /\ UNCHANGED <<file, guest, before, moved, request>>
        /\ file = before /\ guest = <<>> /\ moved = 0
    BY <1>2, HeaderCases DEF PlaceInv, ImageInv, WritesExact
  <2> QED
    BY <1>2, <2>1, HeaderCases DEF Complete, OutcomeInv, OutcomeReported, Answered
<1>3. CASE Finish
  BY <1>3, FinishCases DEF Complete, PlaceInv, OutcomeInv, OutcomeReported
<1>4. ASSUME NEW d \in Descriptors, Payload(d) PROVE OutcomeInv'
  <2>1. request.status # "bad" /\ (BreaksOff(d) \/ MovesOn(d))
    BY <1>4, PayloadCases DEF PlaceInv
  <2> QED
    BY <2>1 DEF BreaksOff, MovesOn, Complete, OutcomeInv, OutcomeReported, Answered
<1>5. CASE UNCHANGED vars
  BY <1>5 DEF vars, OutcomeInv, OutcomeReported, Answered
<1> QED
  BY <1>1, <1>2, <1>3, <1>4, <1>5 DEF Next

LEMMA Invariance == Spec => []IInv
<1>1. Init => IInv
  <2> SUFFICES ASSUME Init PROVE IInv
    OBVIOUS
  <2>1. TypeOK
    BY RequestAssumption
       DEF RequestAssumption, Init, TypeOK, Image, Absent, Bytes, Requests, NoRequest, Kinds
  <2>2. Len(guest) = 0 /\ room = 0 /\ moved = 0 /\ guest = <<>> /\ phase = "idle" /\ count = 0
        /\ file = Image /\ before = Image /\ request.kind = "flush"
    BY DEF Init, NoRequest
  <2> QED
    BY <2>1, <2>2 DEF IInv, PlaceInv, ImageInv, WritesExact, GuestInv, GuestSeesOnlyItsOwn,
                      CountInv, UsedLengthCounts, OutcomeInv, OutcomeReported, Answered
<1>2. IInv /\ [Next]_vars => IInv'
  BY TypeStep, PlaceStep, ImageStep, GuestStep, CountStep, OutcomeStep DEF IInv
<1> QED
  BY <1>1, <1>2, PTL DEF Spec

--------------------------------------------------------------------------------
(* After any number of requests, whatever descriptors they were cut into   *)
(* and wherever they broke off, the image is what the finished and broken  *)
(* off bytes of the write in hand make of it, no byte lands past the last  *)
(* whole sector, and a read-only image is as it was opened.                *)
THEOREM WritesAreExact == Spec => []WritesExact
<1>1. IInv => WritesExact
  BY DEF IInv, ImageInv
<1> QED
  BY <1>1, Invariance, PTL

(* The guest reads the image's bytes at the place it asked for, or the id  *)
(* with its zeros: no byte that the staging buffer kept.                   *)
THEOREM GuestGetsOnlyItsOwn == Spec => []GuestSeesOnlyItsOwn
<1>1. IInv => GuestSeesOnlyItsOwn
  BY DEF IInv, GuestInv
<1> QED
  BY <1>1, Invariance, PTL

(* The used length is what was written, the status byte included: never    *)
(* more than the chain had room for, nothing less for a read that is OK.   *)
THEOREM UsedLengthIsWritten == Spec => []UsedLengthCounts
<1>1. IInv => UsedLengthCounts
  BY DEF IInv, CountInv
<1> QED
  BY <1>1, Invariance, PTL

(* Every chain that can hold a status gets one, and one that cannot leaves *)
(* image and guest memory alone.                                           *)
THEOREM OutcomeIsReported == Spec => []OutcomeReported
<1>1. IInv => OutcomeReported
  BY DEF IInv, OutcomeInv
<1> QED
  BY <1>1, Invariance, PTL
================================================================================
