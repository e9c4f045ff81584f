------------------------------ MODULE LinkWire ------------------------------
(***************************************************************************)
(* The bytes of T5-Link between the panel and the gateway's read loop:      *)
(* frames packed with a header, a CRC-16 and COBS stuffing, on a line that  *)
(* loses, changes and adds bytes, read in chunks that know no frames.       *)
(* What the frames mean to the gateway is PanelLink's subject.              *)
(***************************************************************************)
EXTENDS Integers, Sequences

CONSTANTS
    Frames,    \* the frames a panel may send
    MaxFrames, \* bound: frames sent
    MaxBlock,  \* COBS: bytes of a full block, 254 in the code; with fewer,
               \* short frames have full blocks
    Chunks,    \* how many bytes a read may return, 1..256 in the code
    Noise,     \* bytes that disturbances put on the line
    MaxNoise   \* bound: disturbances

VARIABLES
    sent,      \* history: the frames sent so far
    line,      \* bytes not read yet: [byte, frame], the latter the number in
               \* sent of the frame the byte belongs to, which only the
               \* properties look at
    buffer,    \* _read_loop's buffer, of the same bytes
    delivered, \* what _dispatch was given: [frame, of], the latter the number
               \* of the frame that the delimiter belongs to
    damaged,   \* history: numbers of the frames that were disturbed
    noise      \* counts what MaxNoise bounds

vars == <<sent, line, buffer, delivered, damaged, noise>>

Byte == 0..255
Words == {n \in Nat : n < 65536}

\* proto.Frame of the version spoken here.
FrameOf == [flags: Byte, sequence: Words, command: Words, payload: Seq(Byte)]

\* Frame.raw raises an error for more.
MaxPayload == 1024

ASSUME ConstantsAssumption ==
    /\ \A f \in Frames : f \in FrameOf /\ Len(f.payload) <= MaxPayload
    /\ MaxBlock \in 1..254
    /\ Chunks \subseteq Nat \ {0}
    /\ Noise \subseteq Byte
    /\ MaxFrames \in Nat /\ MaxNoise \in Nat

-----------------------------------------------------------------------------
(* codec.py. A loop is a function of the number of its iterations.          *)

\* Exclusive or of bytes.
Xor ==
    [a \in Byte |-> [b \in Byte |->
        LET bit(p) == IF (a \div p) % 2 = (b \div p) % 2 THEN 0 ELSE p
        IN  bit(1) + bit(2) + bit(4) + bit(8) + bit(16) + bit(32) + bit(64) + bit(128)]]

Flip(n, bit) == IF (n \div bit) % 2 = 0 THEN n + bit ELSE n - bit

\* One bit of the division by 0x1021, 4096 + 32 + 1, that crc16_ccitt_false is.
CrcShift ==
    [crc \in Words |->
        IF crc < 32768 THEN crc * 2 ELSE Flip(Flip(((crc * 2) % 65536) + 1, 32), 4096)]

\* Its eight bits for one byte.
CrcTable ==
    [byte \in Byte |->
        CrcShift[CrcShift[CrcShift[CrcShift[
            CrcShift[CrcShift[CrcShift[CrcShift[byte * 256]]]]]]]]]

\* The low half of the remainder moves up meanwhile.
CrcByte(crc, byte) ==
    LET eight == CrcTable[Xor[crc \div 256][byte]]
    IN  256 * Xor[crc % 256][eight \div 256] + (eight % 256)

CrcStart == 65535

Crc16(data) ==
    LET crc[i \in 0..Len(data)] == IF i = 0 THEN CrcStart ELSE CrcByte(crc[i - 1], data[i])
    IN  crc[Len(data)]

LittleEndian(n) == <<n % 256, n \div 256>>

\* A block behind its length byte.
Flush(s) == s.out \o <<Len(s.block) + 1>> \o s.block

\* A zero ends a block, and so does the byte that fills it.
EncodeByte(s, byte) ==
    LET longer == [s EXCEPT !.block = Append(@, byte)] IN
    IF byte = 0 THEN [out |-> Flush(s), block |-> <<>>]
    ELSE IF Len(longer.block) = MaxBlock THEN [out |-> Flush(longer), block |-> <<>>]
    ELSE longer

Encoding(data) ==
    LET enc[i \in 0..Len(data)] ==
            IF i = 0 THEN [out |-> <<>>, block |-> <<>>] ELSE EncodeByte(enc[i - 1], data[i])
    IN  enc

CobsEncode(data) == Flush(Encoding(data)[Len(data)])

\* Mutant: a zero follows a full block, too.
ZeroFollowsAny(data, length, end) == end < Len(data)

\* Inside the frame, every block but a full one stands for a zero at its end.
ZeroFollows(data, length, end) == length < MaxBlock + 1 /\ end < Len(data)

\* The block at idx is taken; on malformed data the loop goes no further.
DecodeBlock(data, s) ==
    LET length == data[s.idx + 1]
        end == s.idx + length
    IN  IF s.idx = Len(data) \/ length = 0 \/ end > Len(data) THEN s
        ELSE [idx |-> end,
              out |-> s.out \o SubSeq(data, s.idx + 2, end)
                            \o (IF ZeroFollows(data, length, end) THEN <<0>> ELSE <<>>)]

Decoding(data) ==
    LET dec[n \in 0..Len(data)] ==
            IF n = 0 THEN [idx |-> 0, out |-> <<>>] ELSE DecodeBlock(data, dec[n - 1])
    IN  dec

\* ValueError, in place of bytes.
Malformed == <<256>>

CobsDecode(data) ==
    LET result == Decoding(data)[Len(data)]
    IN  IF data # <<>> /\ result.idx = Len(data) THEN result.out ELSE Malformed

StuffFrame(raw) == CobsEncode(raw \o LittleEndian(Crc16(raw))) \o <<0>>

\* Mutant: the checksum is not compared.
UnstuffUnchecked(wire) ==
    LET decoded == CobsDecode(SubSeq(wire, 1, Len(wire) - 1))
    IN  IF decoded = Malformed \/ Len(decoded) < 2 THEN Malformed
        ELSE SubSeq(decoded, 1, Len(decoded) - 2)

\* unstuff_frame, of bytes that end with the delimiter.
UnstuffFrame(wire) ==
    LET decoded == CobsDecode(SubSeq(wire, 1, Len(wire) - 1))
        raw == SubSeq(decoded, 1, Len(decoded) - 2)
    IN  IF \/ decoded = Malformed \/ Len(decoded) < 2
           \/ LittleEndian(Crc16(raw)) # SubSeq(decoded, Len(decoded) - 1, Len(decoded))
        THEN Malformed ELSE raw

-----------------------------------------------------------------------------
(* protocol.Frame.                                                          *)

Magic == <<84, 53>>
Version == 1
HeaderLen == 10

Raw(f) ==
    Magic \o <<Version, f.flags>> \o LittleEndian(f.sequence) \o LittleEndian(f.command)
          \o LittleEndian(Len(f.payload)) \o f.payload

\* Mutant: unpacked as a signed number.
WordSigned(raw, i) ==
    raw[i] + 256 * (IF raw[i + 1] < 128 THEN raw[i + 1] ELSE raw[i + 1] - 256)

Word(raw, i) == raw[i] + 256 * raw[i + 1]

\* The frame, alone in a sequence, or none when the parser raises an error.
\* Bytes that follow the payload are left out.
Parse(raw) ==
    IF \/ Len(raw) < HeaderLen
       \/ SubSeq(raw, 1, 2) # Magic
       \/ raw[3] # Version
       \/ Len(raw) < HeaderLen + Word(raw, 9)
    THEN <<>>
    ELSE <<[flags |-> raw[4], sequence |-> Word(raw, 5), command |-> Word(raw, 7),
            payload |-> SubSeq(raw, HeaderLen + 1, HeaderLen + Word(raw, 9))]>>

\* The frame in the bytes up to a delimiter; none when an error is raised.
Received(wire) ==
    LET raw == UnstuffFrame(wire) IN IF raw = Malformed THEN <<>> ELSE Parse(raw)

-----------------------------------------------------------------------------
Init ==
    /\ sent = <<>> /\ line = <<>> /\ buffer = <<>> /\ delivered = <<>>
    /\ damaged = {} /\ noise = 0

NextFrame == Len(sent) + 1

\* The bytes of f, frame number k.
OnLine(f, k) ==
    LET wire == StuffFrame(Raw(f))
    IN  [j \in DOMAIN wire |-> [byte |-> wire[j], frame |-> k]]

\* The panel writes a frame (external).
Send(f) ==
    /\ Len(sent) < MaxFrames
    /\ sent' = Append(sent, f)
    /\ line' = line \o OnLine(f, NextFrame)
    /\ UNCHANGED <<buffer, delivered, damaged, noise>>

\* What the line does to bytes that were not read yet (external).
Disturb ==
    /\ noise < MaxNoise /\ noise' = noise + 1
    /\ UNCHANGED <<sent, delivered>>

\* The frames that suffer when byte i is gone: its own, and without the
\* delimiter of one frame the next has no beginning.
Hit(i) ==
    {line[i].frame} \cup (IF line[i].byte = 0 THEN {line[i].frame + 1} ELSE {})

Lose(i) ==
    /\ Disturb /\ UNCHANGED buffer
    /\ line' = SubSeq(line, 1, i - 1) \o SubSeq(line, i + 1, Len(line))
    /\ damaged' = damaged \cup Hit(i)

Change(i, b) ==
    /\ Disturb /\ UNCHANGED buffer
    /\ line[i].byte # b
    /\ line' = [line EXCEPT ![i].byte = b]
    /\ damaged' = damaged \cup Hit(i)

\* A byte on an idle line hurts the next frame.
Add(i, b) ==
    LET frame == IF i = Len(line) + 1 THEN NextFrame ELSE line[i].frame IN
    /\ Disturb /\ UNCHANGED buffer
    /\ line' = SubSeq(line, 1, i - 1) \o <<[byte |-> b, frame |-> frame]>>
                                   \o SubSeq(line, i, Len(line))
    /\ damaged' = damaged \cup {frame}

\* The port is opened anew: a new _read_loop begins with an empty buffer, and
\* what came in the meantime is gone.
Reopen(n) ==
    /\ Disturb
    /\ n > 0 \/ buffer # <<>>
    /\ buffer' = <<>>
    /\ line' = SubSeq(line, n + 1, Len(line))
    /\ damaged' = damaged \cup {buffer[i].frame : i \in DOMAIN buffer}
                          \cup {line[i].frame : i \in 1..n}

Delimited == \E i \in DOMAIN buffer : buffer[i].byte = 0

\* _read_loop waits for a chunk once it took every whole frame.
Read(n) ==
    LET taken == IF n < Len(line) THEN n ELSE Len(line) IN
    /\ ~Delimited /\ line # <<>>
    /\ buffer' = buffer \o SubSeq(line, 1, taken)
    /\ line' = SubSeq(line, taken + 1, Len(line))
    /\ UNCHANGED <<sent, delivered, damaged, noise>>

BytesOf(s) == [i \in DOMAIN s |-> s[i].byte]

\* One turn of the inner loop, up to the first delimiter: a frame is
\* dispatched, or dropped when it is malformed.
Take(d) ==
    LET frames == Received(BytesOf(SubSeq(buffer, 1, d))) IN
    /\ buffer[d].byte = 0 /\ \A i \in 1..(d - 1) : buffer[i].byte # 0
    /\ buffer' = SubSeq(buffer, d + 1, Len(buffer))
    /\ delivered' = delivered \o
            [i \in DOMAIN frames |-> [frame |-> frames[i], of |-> buffer[d].frame]]
    /\ UNCHANGED <<sent, line, damaged, noise>>

Next ==
    \/ \E f \in Frames : Send(f)
    \/ \E i \in DOMAIN line : Lose(i)
    \/ \E i \in DOMAIN line, b \in Noise : Change(i, b)
    \/ \E i \in 1..(Len(line) + 1), b \in Noise : Add(i, b)
    \/ \E n \in 0..Len(line) : Reopen(n)
    \/ \E n \in Chunks : Read(n)
    \/ \E d \in DOMAIN buffer : Take(d)

Spec == Init /\ [][Next]_vars

-----------------------------------------------------------------------------
(* Properties.                                                              *)

BytesOn(s) == s \in Seq([byte: Byte, frame: 1..NextFrame])

\* Every variable has its type.
TypeOK ==
    /\ sent \in Seq(Frames)
    /\ BytesOn(line) /\ BytesOn(buffer)
    /\ delivered \in Seq([frame: FrameOf, of: 1..NextFrame])
    /\ damaged \subseteq 1..(NextFrame + 1)
    /\ noise \in 0..MaxNoise

\* d is s without the elements at some positions.
KeptFrom(d, s) ==
    \E kept \in [DOMAIN d -> DOMAIN s] :
        /\ \A i, j \in DOMAIN d : i < j => kept[i] < kept[j]
        /\ \A i \in DOMAIN d : d[i] = s[kept[i]]

\* codec.py, unstuff_frame: whatever the line does to the bytes, the gateway
\* dispatches frames that were sent, whole, in their order and once each.
OnlySentFrames == KeptFrom([i \in DOMAIN delivered |-> delivered[i].frame], sent)

Entries(k) == {i \in DOMAIN delivered : delivered[i].of = k}

\* gateway.py 204-213: the read loop finds its way back at the next delimiter.
\* A frame that came through with the delimiter before it is dispatched as it
\* was sent, once and in its turn, whatever happened to the others and however
\* the bytes were read: at any time nothing else is dispatched in its place,
\* and when every byte was read and taken it has been.
IntactFramesArrive ==
    /\ \A i, j \in DOMAIN delivered : i < j => delivered[i].of <= delivered[j].of
    /\ \A k \in DOMAIN sent \ damaged :
        /\ \A i, j \in Entries(k) : i = j
        /\ \A i \in Entries(k) : delivered[i].frame = sent[k]
        /\ line = <<>> /\ ~Delimited => Entries(k) # {}
=============================================================================
