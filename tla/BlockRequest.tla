------------------------------ MODULE BlockRequest ------------------------------
(***************************************************************************)
(* One request of the block device after another (complete, transfer,      *)
(* payload and Disk in crates/vmm/src/devices/virtio/block.rs): a chain is *)
(* a header descriptor, payload descriptors, and a status descriptor.      *)
(*                                                                         *)
(* Data are bytes with a provenance: <<0, a>> is what the image held at    *)
(* address a, <<r, k>> the k-th byte of request r's payload, <<-1, k>> the *)
(* k-th byte of the device's id, and Zero a zero.  Payload descriptors are *)
(* drawn as the device reaches them.                                       *)
(***************************************************************************)
EXTENDS Integers, Sequences

CONSTANTS
  SECTOR_SIZE,   \* 512
  ID_LEN,        \* 20
  IdLength,      \* the length of the device's id
  FileLength,    \* the length of the image when it was opened
  U64_MAX,       \* 2^64 - 1
  Lengths,       \* the lengths of payload descriptors
  MaxRequests, MaxPayloads  \* bounds: requests, and payload descriptors in one

ASSUME RequestAssumption ==
  /\ SECTOR_SIZE \in Nat \ {0} /\ ID_LEN \in Nat \ {0} /\ IdLength \in Nat
  /\ FileLength \in Nat /\ U64_MAX \in Nat /\ FileLength < U64_MAX
  /\ Lengths \subseteq Nat
  /\ MaxRequests \in Nat /\ MaxPayloads \in Nat

(* Disk::sectors: a last partial sector is not served.                     *)
Capacity == (FileLength \div SECTOR_SIZE) * SECTOR_SIZE

Kinds == {"read", "write", "flush", "get_id", "unsupported"}

(* What the guest may hand over, as far as the code tells it apart.  A     *)
(* status descriptor is "bad" when it is missing, read-only or empty; a    *)
(* header is "bad" when it is write-only, short or in no memory.           *)
Requests == [kind : Kinds, sector : 0 .. U64_MAX,
             header : {"ok", "bad"}, status : {"ok", "unmapped", "bad"}]

NoRequest == [kind |-> "flush", sector |-> 0, header |-> "bad", status |-> "bad"]

Descriptors == [write : BOOLEAN, len : Lengths, mapped : BOOLEAN]

Zero == <<-1, 0>>

VARIABLES
  file,      \* the image: a byte at each address, absent from the end on
  readOnly,  \* Disk::read_only
  staging,   \* BlockDevice::staging
  request,   \* the chain in hand
  phase,     \* "idle", "header" or "payload"
  offset,    \* transfer's offset
  written,   \* transfer's written_to_guest
  status,    \* the status byte of the last chain, "none" if not written
  used,      \* the used length of the last chain
  count,     \* history: requests so far
  payloads,  \* history: payload descriptors of this one so far
  moved,     \* history: bytes of disk payload moved so far
  room,      \* history: bytes of guest memory open to the device so far
  guest,     \* history: the bytes it put there
  before     \* history: the image before this request

dataVars == <<file, staging, guest>>
resultVars == <<status, used>>
historyVars == <<count, payloads, moved, room, before>>
vars == <<readOnly, dataVars, resultVars, historyVars, request, phase, offset, written>>

Absent == <<-2, 0>>

Image == [a \in 0 .. U64_MAX |-> IF a < FileLength THEN <<0, a>> ELSE Absent]

Init ==
  /\ readOnly \in BOOLEAN
  /\ file = Image /\ staging = <<>> /\ before = Image /\ guest = <<>>
  /\ request = NoRequest /\ phase = "idle"
  /\ offset = 0 /\ written = 0 /\ status = "none" /\ used = 0
  /\ count = 0 /\ payloads = 0 /\ moved = 0 /\ room = 0

--------------------------------------------------------------------------------
(* Disk.                                                                   *)

(* MUTANT of InBounds: the last partial sector counts.                     *)
InBoundsOfFile(at, len) == at + len <= U64_MAX /\ at + len <= FileLength

InBounds(at, len) == at + len <= U64_MAX /\ at + len <= Capacity

(* The first n bytes of `bytes`, put into image f at address `at`.         *)
Stored(f, at, bytes, n) ==
  [a \in DOMAIN f |-> IF a \in at .. at + n - 1 THEN bytes[a - at + 1] ELSE f[a]]

Loaded(at, len) == [i \in 1 .. len |-> file[at + i - 1]]

--------------------------------------------------------------------------------
(* A new chain; the last one's record starts afresh.                       *)
Take(r) ==
  /\ phase = "idle" /\ count < MaxRequests
  /\ request' = r /\ phase' = "header" /\ count' = count + 1
  /\ before' = file /\ guest' = <<>>
  /\ payloads' = 0 /\ moved' = 0 /\ room' = 0 /\ written' = 0 /\ offset' = 0
  /\ status' = "none" /\ used' = 0
  /\ UNCHANGED <<file, staging, readOnly>>

(* MUTANT of Complete: the status byte is not counted.                     *)
CompleteShort(s, n) ==
  /\ phase' = "idle"
  /\ IF request.status = "ok" THEN status' = s /\ used' = n
     ELSE status' = "none" /\ used' = 0
  /\ UNCHANGED <<request, offset>>

(* MUTANT of Complete: only success is reported.                           *)
CompleteQuietly(s, n) ==
  /\ phase' = "idle"
  /\ IF request.status = "ok" /\ s = "OK" THEN status' = s /\ used' = n + 1
     ELSE status' = "none" /\ used' = 0
  /\ UNCHANGED <<request, offset>>

(* The end of complete(): status s goes to the status descriptor, if there *)
(* is one and it can be written, and counts as one byte more.              *)
Complete(s, n) ==
  /\ phase' = "idle"
  /\ IF request.status = "ok" THEN status' = s /\ used' = n + 1
     ELSE status' = "none" /\ used' = 0
  /\ UNCHANGED <<request, offset>>

Fail(s) == Complete(s, 0) /\ UNCHANGED <<file, guest, written, moved>>

(* MUTANT of SectorInRange: the multiplication goes unchecked.             *)
SectorUnchecked == TRUE

(* checked_mul.                                                            *)
SectorInRange == request.sector * SECTOR_SIZE <= U64_MAX

(* The checks before any payload, each with its early return.              *)
Header ==
  /\ phase = "header" /\ UNCHANGED <<readOnly, historyVars, dataVars, written>>
  /\ \/ request.status = "bad" /\ Complete("IOERR", 0)
     \/ request.status # "bad" /\ request.header = "bad" /\ Complete("IOERR", 0)
     \/ /\ request.status # "bad" /\ request.header = "ok"
        /\ \/ request.kind = "unsupported" /\ Complete("UNSUPP", 0)
           \/ request.kind # "unsupported" /\ ~SectorInRange /\ Complete("IOERR", 0)
           \/ /\ request.kind # "unsupported" /\ SectorInRange
              /\ offset' = request.sector * SECTOR_SIZE /\ phase' = "payload"
              /\ UNCHANGED <<resultVars, request>>

(* MUTANT of Resized: resize() without clear().                            *)
ResizedOnly(n) == [i \in 1 .. n |-> IF i <= Len(staging) THEN staging[i] ELSE Zero]

(* staging.clear() and resize(n, 0).                                       *)
Resized(n) == [i \in 1 .. n |-> Zero]

(* A descriptor was moved: `n` bytes of it went to the guest.              *)
Moved(d, n) ==
  /\ written' = written + n /\ offset' = offset + d.len /\ moved' = moved + d.len
  /\ UNCHANGED <<phase, request, resultVars>>

(* Read: check, read the image (which may fail), write the guest.          *)
ReadPayload(d) ==
  /\ request.kind = "read"
  /\ \/ ~d.write /\ Fail("IOERR") /\ UNCHANGED staging
     \/ d.write /\ ~InBounds(offset, d.len) /\ Fail("IOERR") /\ UNCHANGED staging
     \/ d.write /\ InBounds(offset, d.len) /\ staging' = Resized(d.len) /\ Fail("IOERR")
     \/ /\ d.write /\ InBounds(offset, d.len)
        /\ staging' = Loaded(offset, d.len)
        /\ IF d.mapped THEN guest' = guest \o staging' /\ Moved(d, d.len) /\ UNCHANGED file
           ELSE Fail("IOERR")

FromGuest(d) == [i \in 1 .. d.len |-> <<count, moved + i>>]

(* write_all_at may fail with some of the bytes written.                   *)
WriteBreaksOff(d) ==
  /\ Complete("IOERR", 0) /\ UNCHANGED <<guest, written>>
  /\ \E n \in 0 .. d.len : file' = Stored(file, offset, FromGuest(d), n) /\ moved' = moved + n

Writable(d) == ~readOnly /\ InBounds(offset, d.len)

(* Write: read the guest, check, write the image.                          *)
WritePayload(d) ==
  /\ request.kind = "write"
  /\ \/ d.write /\ Fail("IOERR") /\ UNCHANGED staging
     \/ ~d.write /\ ~d.mapped /\ staging' = Resized(d.len) /\ Fail("IOERR")
     \/ /\ ~d.write /\ d.mapped /\ staging' = FromGuest(d)
        /\ \/ ~Writable(d) /\ Fail("IOERR")
           \/ Writable(d) /\ WriteBreaksOff(d)
           \/ /\ Writable(d) /\ file' = Stored(file, offset, staging', d.len)
              /\ Moved(d, 0) /\ UNCHANGED guest

Smaller(a, b) == IF a < b THEN a ELSE b

(* The id, over the first bytes of the staging buffer.                     *)
WithId(bytes) ==
  [i \in DOMAIN bytes |-> IF i <= IdLength THEN <<-1, i>> ELSE bytes[i]]

IdPayload(d) ==
  /\ request.kind = "get_id"
  /\ LET n == Smaller(d.len, ID_LEN) IN
       \/ ~d.write /\ Fail("IOERR") /\ UNCHANGED staging
       \/ d.write /\ ~d.mapped /\ staging' = WithId(Resized(n)) /\ Fail("IOERR")
       \/ /\ d.write /\ d.mapped /\ staging' = WithId(Resized(n))
          /\ guest' = guest \o staging' /\ written' = written + n
          /\ UNCHANGED <<file, moved, offset, phase, request, resultVars>>

FlushPayload(d) ==
  request.kind = "flush" /\ UNCHANGED <<dataVars, resultVars, request, phase, offset, written, moved>>

(* One turn of transfer's loop.                                            *)
Payload(d) ==
  /\ phase = "payload" /\ payloads < MaxPayloads
  /\ payloads' = payloads + 1
  /\ room' = IF d.write THEN room + d.len ELSE room
  /\ ReadPayload(d) \/ WritePayload(d) \/ IdPayload(d) \/ FlushPayload(d)
  /\ UNCHANGED <<readOnly, count, before>>

(* The status descriptor is reached; a flush may fail.                     *)
Finish ==
  /\ phase = "payload"
  /\ \/ Complete("OK", written)
     \/ request.kind = "flush" /\ Complete("IOERR", 0)
  /\ UNCHANGED <<readOnly, dataVars, historyVars, written>>

--------------------------------------------------------------------------------
Next ==
  \/ \E r \in Requests : Take(r)
  \/ Header \/ Finish
  \/ \E d \in Descriptors : Payload(d)

Spec == Init /\ [][Next]_vars

--------------------------------------------------------------------------------
Bytes == (-2 .. MaxRequests) \X Nat

TypeOK ==
  /\ file \in [0 .. U64_MAX -> Bytes] /\ before \in [0 .. U64_MAX -> Bytes]
  /\ readOnly \in BOOLEAN
  /\ staging \in Seq(Bytes) /\ guest \in Seq(Bytes)
  /\ request \in Requests /\ phase \in {"idle", "header", "payload"}
  /\ offset \in 0 .. U64_MAX /\ written \in Nat
  /\ status \in {"none", "OK", "IOERR", "UNSUPP"} /\ used \in Nat
  /\ count \in 0 .. MaxRequests /\ payloads \in 0 .. MaxPayloads
  /\ moved \in Nat /\ room \in Nat

Answered == phase = "idle" /\ count > 0

Start == request.sector * SECTOR_SIZE

(* The image holds, over what it held before the request, the bytes the    *)
(* guest sent so far, in order from the request's sector: all of them when *)
(* the answer is OK, some first ones of them when it is not, none unless   *)
(* it was a write.  Nothing ever lands past the last whole sector, and     *)
(* nothing at all in a read-only image.                                    *)
WritesExact ==
  /\ file = IF request.kind = "write" /\ moved > 0
            THEN [a \in DOMAIN file |-> IF a \in Start .. Start + moved - 1
                                        THEN <<count, a - Start + 1>> ELSE before[a]]
            ELSE before
  /\ \A a \in Capacity .. U64_MAX : file[a] = Image[a]
  /\ readOnly => file = Image

(* A read hands out what the image holds from the request's sector on, and *)
(* GET_ID the id, padded with zeros: never bytes of an earlier request     *)
(* that the reused staging buffer still had.                               *)
GuestSeesOnlyItsOwn ==
  \A i \in DOMAIN guest :
    IF request.kind = "read" THEN i <= moved /\ guest[i] = before[Start + i - 1]
    ELSE guest[i][1] = -1

(* The used length never promises the driver more than the device wrote:   *)
(* at most the memory it was given, the status byte included; and it is    *)
(* all of it for an OK read.                                               *)
UsedLengthCounts ==
  Answered =>
    /\ used <= room + 1
    /\ used > 0 <=> status # "none"
    /\ status = "OK" => used = Len(guest) + 1
    /\ status = "OK" /\ request.kind = "read" => used = room + 1

(* Whenever the chain has a status byte to write, the outcome is written   *)
(* there, wherever in the payload the request broke off; and a chain that  *)
(* has none does no I/O at all.                                            *)
OutcomeReported ==
  Answered =>
    /\ request.status = "ok" => status # "none"
    /\ request.status = "bad" => file = before /\ guest = <<>>
================================================================================
