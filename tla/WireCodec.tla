------------------------------ MODULE WireCodec ------------------------------
(***************************************************************************)
(* The wire format (codec.rs): how each frame is laid out as bytes and how *)
(* a receiver reads it back, block by block, around blocks it cannot use.  *)
(*                                                                         *)
(* Frames carry no names and no type tags, so a reader that consumes one   *)
(* byte too many or too few of a block reads every later one as garbage.   *)
(* The model keeps the layouts, every length that is checked and every     *)
(* place the cursor moves, and scales the numbers down: a varint digit     *)
(* holds DigitBits bits instead of 7, a byte one more, and a 64-bit word   *)
(* three bytes.  Property values are packed integers; what a quantiser     *)
(* does to them is in Quantizer.                                           *)
(*                                                                         *)
(* An honest sender writes a frame; the datagram may be cut short.  What   *)
(* the receiver knows (the slots it can name, the bases it holds, whether  *)
(* its schema is the sender's) is chosen with the frame.                   *)
(***************************************************************************)
EXTENDS Integers, Sequences, SequencesExt, FiniteSetsExt

CONSTANTS
    DigitBits,       \* payload bits of a varint byte (7)
    Frames,          \* what the sender may write
    RowAt(_, _),     \* RowAt(slot, tick): the row the sender captured
    Widths,          \* wire width of each property, in schema order
    Receivers        \* what the receiver may know

VARIABLES
    frame,           \* the frame as its sender meant it
    receiver,        \* what the receiver knows
    buf,             \* the datagram's bytes, possibly cut
    cur,             \* the Reader: position, no error yet, fields read
    got,             \* what was made of each block
    wantInterest,    \* OrbitNet::want_interest
    reading          \* how far the handler is

codecVars == <<frame, receiver, buf, cur, got, wantInterest, reading>>

Absent == 0
NoBase == -1

----------------------------------------------------------------------------
(* Writer                                                                  *)

Digit == 2 ^ DigitBits
Byte == 2 * Digit
WordBits == 3 * (DigitBits + 1)
Word == 2 ^ WordBits

Fixed(n) == [as |-> "fixed", width |-> n]
U8 == Fixed(1)
I8 == [as |-> "signed", width |-> 1]
U16 == Fixed(2)
U32 == Fixed(2)
U64 == Fixed(3)
Key == Fixed(4)
Varint == [as |-> "varint", width |-> 0]
Zigzag == [as |-> "zigzag", width |-> 0]

Bytes(v, n) == [i \in 1..n |-> (v \div Byte ^ (i - 1)) % Byte]

\* Seven payload bits to a byte, least first; the top bit says more follow.
WriteVarint(v) ==
    LET n == Min({k \in 1..9 : v < Digit ^ k})
    IN  [i \in 1..n |-> ((v \div Digit ^ (i - 1)) % Digit)
                        + (IF i < n THEN Digit ELSE 0)]

\* The sign goes to the lowest bit, so a small negative stays short.
WriteZigzag(v) == WriteVarint(IF v >= 0 THEN 2 * v ELSE -2 * v - 1)

Write(f, v) ==
    CASE f.as = "fixed"  -> Bytes(v, f.width)
      [] f.as = "signed" -> Bytes(v % Byte ^ f.width, f.width)
      [] f.as = "varint" -> WriteVarint(v)
      [] f.as = "zigzag" -> WriteZigzag(v)

WriteAll(fields, values) ==
    FlattenSeq([i \in DOMAIN fields |-> Write(fields[i], values[i])])

Repeated(fields, n) == FlattenSeq([i \in 1..n |-> fields])

WriteRun(fields, rows) ==
    WriteVarint(Len(rows)) \o WriteAll(Repeated(fields, Len(rows)), FlattenSeq(rows))

MaskBytes(bits) == (bits + DigitBits) \div (DigitBits + 1)

WriteBitmask(mask) ==
    LET Bit(i) == IF i \in DOMAIN mask /\ mask[i] THEN 1 ELSE 0
    IN  [b \in 1..MaskBytes(Len(mask)) |->
            MapThenSumSet(LAMBDA k : Bit((b - 1) * (DigitBits + 1) + k + 1) * 2 ^ k,
                          0..DigitBits)]

----------------------------------------------------------------------------
(* Reader: every read is bounds-checked, and a fixed-width read that fails *)
(* does not move the cursor.                                               *)

Start == [pos |-> 0, ok |-> TRUE, out |-> <<>>]

Remaining(r) == Len(buf) - r.pos

Failed(r) == [r EXCEPT !.ok = FALSE]

Took(r, n, v) == [r EXCEPT !.pos = @ + n, !.out = Append(@, v)]

ValueAt(r, n) == MapThenSumSet(LAMBDA i : buf[r.pos + i] * Byte ^ (i - 1), 1..n)

\* Two's complement in n bytes.
Signed(v, n) == IF 2 * v >= Byte ^ n THEN v - Byte ^ n ELSE v

Take(r, f) ==
    IF Remaining(r) < f.width
    THEN Failed(r)
    ELSE Took(r, f.width, IF f.as = "signed"
                          THEN Signed(ValueAt(r, f.width), f.width)
                          ELSE ValueAt(r, f.width))

DigitsAt(r, n) ==
    MapThenSumSet(LAMBDA i : (buf[r.pos + i] % Digit) * Digit ^ (i - 1), 1..n)

\* A digit past the word is an error, and so is a value past it.
TooLong(n) == DigitBits * (n - 1) >= WordBits

ReadDigits(r, ends) ==
    IF ends = {} \/ TooLong(Min(ends)) \/ DigitsAt(r, Min(ends)) >= Word
    THEN Failed(r)
    ELSE Took(r, Min(ends), DigitsAt(r, Min(ends)))

ReadVarint(r) == ReadDigits(r, {n \in 1..Remaining(r) : buf[r.pos + n] < Digit})

Unzigzag(v) == IF v % 2 = 0 THEN v \div 2 ELSE -((v + 1) \div 2)

UnzigzagLast(r) ==
    IF r.ok THEN [r EXCEPT !.out = Append(Front(@), Unzigzag(Last(@)))] ELSE r

ReadZigzag(r) == UnzigzagLast(ReadVarint(r))

Read(r, f) ==
    CASE ~r.ok                       -> r
      [] r.ok /\ f.as = "varint"     -> ReadVarint(r)
      [] r.ok /\ f.as = "zigzag"     -> ReadZigzag(r)
      [] OTHER                       -> Take(r, f)

ReadAll(r, fields) == FoldLeft(Read, r, fields)

\* A field the decoder takes best-effort: absent where the frame stops early.
OrAbsent(r, next) == IF next.ok \/ ~r.ok THEN next ELSE Took(r, 0, Absent)

ReadOr(r, f) == OrAbsent(r, Read(r, f))

ReadRows(counted, fields) ==
    IF counted.ok THEN ReadAll(counted, Repeated(fields, Last(counted.out))) ELSE counted

\* decode_slot_run, read_manifest_entries: a count, then that many rows.
ReadRun(r, fields) == ReadRows(Read(r, Varint), fields)

----------------------------------------------------------------------------
(* Frame header                                                            *)

HeaderFields == <<U8, Varint, Zigzag, U32, U32, I8, U8, Varint>>

FlagInterestDelta == 2

\* The ack travels as its distance from the tick, which takes both signs.
EncodeHeader(h) ==
    WriteAll(HeaderFields, <<h.kind, h.tick, h.tick - h.ack, h.bits, h.token,
                             h.margin, h.flags, h.count>>)

HeaderOf(o) ==
    [kind |-> o[1], tick |-> o[2], ack |-> Max({0, Min({o[2] - o[3], Byte ^ 2 - 1})}),
     bits |-> o[4], token |-> o[5], margin |-> o[6], flags |-> o[7], count |-> o[8]]

AsHeader(raw) == [raw EXCEPT !.out = IF raw.ok THEN <<HeaderOf(@)>> ELSE <<>>]

DecodeHeader(r) == AsHeader(ReadAll(r, HeaderFields))

----------------------------------------------------------------------------
(* State blocks                                                            *)

StateBlockFull == 1
StateBlockLane == 2

LaneFlag(b) == IF b.lane = "state" THEN StateBlockLane ELSE 0

ChangedMask(base, row) == [i \in DOMAIN row |-> base[i] # row[i]]

Packed(row, mask) ==
    FlattenSeq([i \in DOMAIN row |->
        IF mask[i] THEN Bytes(row[i], Widths[i]) ELSE <<>>])

EveryBit == [i \in DOMAIN Widths |-> TRUE]

\* A delta only against an earlier tick; anything else goes out as a full row.
IsDelta(b) == b.base # NoBase /\ b.base < b.tick

StateBody(b) ==
    LET row  == RowAt(b.slot, b.tick)
        mask == ChangedMask(RowAt(b.slot, b.base), row)
    IN  IF IsDelta(b)
        THEN <<LaneFlag(b)>> \o WriteVarint(b.tick - b.base)
             \o WriteBitmask(mask) \o Packed(row, mask)
        ELSE <<LaneFlag(b) + StateBlockFull>> \o Packed(row, EveryBit)

EncodeStateBlock(b, frameTick) ==
    LET body == StateBody(b)
    IN  Write(U16, b.slot) \o WriteVarint(frameTick - b.tick)
        \o WriteVarint(Len(body)) \o body

SaturatingSub(a, b) == Max({0, a - b})

\* What is left of a body after the flags and the reference in front of it.
\* Mutant: the declared length is taken for what follows the reference.
BodyLeftWhole(declared, consumed) == declared

BodyLeft(declared, consumed) == declared - consumed

\* Flags and reference count against the declared length; a length shorter
\* than what they took is malformed.
StateBlockMeta(last, left, tick) ==
    LET o == last.out
    IN  IF ~last.ok \/ left < 0 THEN Failed(last)
        ELSE [last EXCEPT !.out =
                <<[slot |-> o[1], tick |-> tick,
                   lane |-> IF (o[4] \div StateBlockLane) % 2 = 1
                            THEN "state" ELSE "rollback",
                   base |-> IF o[4] % 2 = StateBlockFull THEN NoBase
                            ELSE SaturatingSub(tick, o[5]),
                   left |-> left]>>]

ReadReference(flagged) ==
    IF flagged.out[4] % 2 = StateBlockFull THEN flagged ELSE Read(flagged, Varint)

WithReference(lead, last, frameTick) ==
    StateBlockMeta(last, BodyLeft(lead.out[3], last.pos - lead.pos),
                   SaturatingSub(frameTick, lead.out[2]))

\* The declared body is there at all, and not empty.
Declares(lead) == lead.out[3] \in 1..Remaining(lead)

StateBlockOf(lead, frameTick) ==
    IF ~lead.ok \/ ~Declares(lead) THEN Failed(lead)
    ELSE WithReference(lead, ReadReference(Read(lead, U8)), frameTick)

DecodeStateBlockMeta(r, frameTick) ==
    StateBlockOf(ReadAll([r EXCEPT !.out = <<>>], <<U16, Varint, Varint>>), frameTick)

Skip(r, n) == IF Remaining(r) < n THEN Failed(r) ELSE [r EXCEPT !.pos = @ + n]

ReadBitmask(r, bits) ==
    [i \in 1..bits |->
        (buf[r.pos + 1 + (i - 1) \div (DigitBits + 1)]
             \div 2 ^ ((i - 1) % (DigitBits + 1))) % 2 = 1]

WireSize(widths, mask) ==
    MapThenSumSet(LAMBDA i : IF mask[i] THEN widths[i] ELSE 0, DOMAIN widths)

\* Where property i starts among the masked ones.
OffsetOf(widths, mask, i) ==
    MapThenSumSet(LAMBDA j : IF mask[j] /\ j < i THEN widths[j] ELSE 0, DOMAIN widths)

ReadMasked(r, widths, mask, base) ==
    [i \in DOMAIN widths |->
        IF mask[i]
        THEN ValueAt([r EXCEPT !.pos = @ + OffsetOf(widths, mask, i)], widths[i])
        ELSE base[i]]

\* The body is consumed whole whether or not the row can be applied: a schema
\* of another size, or a base that is not held, costs the block and no other.
\* A payload that ends before its masked values is an error.
DecodeStateBlock(r, meta, widths, held) ==
    LET every   == [i \in DOMAIN widths |-> TRUE]
        maskLen == MaskBytes(Len(widths))
        mask    == ReadBitmask(r, Len(widths))
        payload == Skip(r, maskLen)
        done    == Skip(r, meta.left)
    IN  IF meta.base = NoBase
        THEN [reader |-> done,
              row |-> IF done.ok /\ meta.left = WireSize(widths, every)
                      THEN ReadMasked(r, widths, every, <<>>) ELSE <<>>]
        ELSE IF maskLen > meta.left \/ ~done.ok
        THEN [reader |-> Failed(r), row |-> <<>>]
        ELSE IF meta.base \notin held
        THEN [reader |-> done, row |-> <<>>]
        ELSE IF WireSize(widths, mask) > meta.left - maskLen
        THEN [reader |-> Failed(r), row |-> <<>>]
        ELSE [reader |-> done,
              row |-> IF WireSize(widths, mask) = meta.left - maskLen
                      THEN ReadMasked(payload, widths, mask, RowAt(meta.slot, meta.base))
                      ELSE <<>>]

----------------------------------------------------------------------------
(* Input blocks: the newest rows first, one tick apart                     *)

Stride(widths) == MapThenSumSet(LAMBDA i : widths[i], DOMAIN widths)

EncodeInputBlock(b, frameTick) ==
    Write(U16, b.slot) \o WriteZigzag(frameTick - b.newest)
    \o WriteVarint(Stride(Widths) * b.count + 1) \o Write(U8, b.count)
    \o FlattenSeq([k \in 1..b.count |->
            Packed(RowAt(b.slot, b.newest - (k - 1)), EveryBit)])

InputBlockMeta(counted, frameTick) ==
    LET o == counted.out
    IN  [counted EXCEPT !.out =
            <<[slot |-> o[1], newest |-> Max({0, frameTick - o[2]}), count |-> o[4],
               left |-> o[3] - 1]>>]

InputBlockOf(lead, frameTick) ==
    IF ~lead.ok \/ ~Declares(lead) THEN Failed(lead)
    ELSE InputBlockMeta(Read(lead, U8), frameTick)

DecodeInputBlockMeta(r, frameTick) ==
    InputBlockOf(ReadAll([r EXCEPT !.out = <<>>], <<U16, Zigzag, Varint>>), frameTick)

\* No row at all where the count, the stride and the length disagree.
InputBlockRow(r, meta, widths, k) ==
    LET every == [i \in DOMAIN widths |-> TRUE]
        at    == [r EXCEPT !.pos = @ + Stride(widths) * k]
    IN  IF Stride(widths) * meta.count # meta.left THEN <<>>
        ELSE ReadMasked(at, widths, every, <<>>)

----------------------------------------------------------------------------
(* The frames that are one list of fields                                  *)

SlotRun == <<U16>>
EntryFields == <<U16, Varint, U32, U32, Varint, U16>>
HandshakeFields == <<Key, U32, U16, U64, Key, U64, Key, U64, Key>>

\* A peer id below zero is nobody.
EntryValues(e) == <<e.slot, e.id, e.state, e.input, Max({e.owner, 0}), e.seat>>

Entries(f) == [i \in DOMAIN f.entries |-> EntryValues(f.entries[i])]

EncodeManifestFull(f) ==
    <<7>> \o WriteVarint(f.generation) \o WriteRun(EntryFields, Entries(f))

DecodeManifestFull(r) == ReadRun(Read(r, Varint), EntryFields)

EncodeManifestDelta(f) ==
    <<0>> \o WriteVarint(f.base) \o WriteVarint(f.generation)
    \o WriteRun(SlotRun, f.removed) \o WriteRun(EntryFields, Entries(f))

DecodeManifestDelta(r) ==
    ReadRun(ReadRun(ReadAll(r, <<Varint, Varint>>), SlotRun), EntryFields)

EncodeInterestTable(f) ==
    <<1>> \o WriteVarint(f.generation) \o WriteRun(SlotRun, f.entries)

DecodeInterestTable(r) == ReadRun(Read(r, Varint), SlotRun)

EncodeInterestDelta(s) ==
    WriteVarint(s.generation) \o WriteRun(SlotRun, s.left) \o WriteRun(SlotRun, s.entered)

DecodeInterestDelta(r) == ReadRun(ReadRun(Read(r, Varint), SlotRun), SlotRun)

PingFields == <<Varint, Varint>>
PongFields == <<Varint, Varint, U64>>
WelcomeFields == <<U32, Varint, U16>>
ChallengeFields == <<Key, Key>>

DecodeWelcome(r) == ReadOr(ReadAll(r, WelcomeFields), U64)

DecodeChallenge(r) == ReadOr(ReadAll(r, ChallengeFields), Key)

\* Magic and version are required, everything after them best-effort.
DecodeHandshake(r) ==
    FoldLeft(ReadOr, ReadAll(r, SubSeq(HandshakeFields, 1, 2)),
             SubSeq(HandshakeFields, 3, Len(HandshakeFields)))

----------------------------------------------------------------------------
(* What a frame is as bytes, and as the list of values it states           *)

EncodeBlocks(f) ==
    FlattenSeq([i \in DOMAIN f.blocks |->
        IF f.kind = "snapshot" THEN EncodeStateBlock(f.blocks[i], f.head.tick)
                               ELSE EncodeInputBlock(f.blocks[i], f.head.tick)])

HasSection(f) == f.head.flags = FlagInterestDelta

Encode(f) ==
    CASE f.kind \in {"snapshot", "input"} ->
            EncodeHeader(f.head) \o EncodeBlocks(f)
            \o (IF HasSection(f) THEN EncodeInterestDelta(f.section) ELSE <<>>)
      [] f.kind = "manifest"  -> EncodeManifestFull(f)
      [] f.kind = "delta"     -> EncodeManifestDelta(f)
      [] f.kind = "table"     -> EncodeInterestTable(f)
      [] f.kind = "ping"      -> <<3>> \o WriteAll(PingFields, f.values)
      [] f.kind = "pong"      -> <<4>> \o WriteAll(PongFields, f.values)
      [] f.kind = "welcome"   -> <<6>> \o WriteAll(Append(WelcomeFields, U64), f.values)
      [] f.kind = "challenge" -> <<5>> \o WriteAll(Append(ChallengeFields, Key), f.values)
      [] f.kind = "hello"     -> WriteAll(HandshakeFields, f.values)

RunValues(rows) == <<Len(rows)>> \o FlattenSeq(rows)

SectionValues(s) == <<s.generation>> \o RunValues(s.left) \o RunValues(s.entered)

Values(f) ==
    CASE f.kind = "table"    -> <<f.generation>> \o RunValues(f.entries)
      [] f.kind = "manifest" -> <<f.generation>> \o RunValues(Entries(f))
      [] f.kind = "delta" -> <<f.base, f.generation>> \o RunValues(f.removed)
                             \o RunValues(Entries(f))
      [] OTHER -> f.values

\* Where an older or shorter build may stop a hello: between two fields.
HelloStops(f) ==
    {MapThenSumSet(LAMBDA i : HandshakeFields[i].width, 1..k) : k \in DOMAIN HandshakeFields}

Cuts(f) ==
    IF f.kind = "hello" THEN HelloStops(f) ELSE 0..Len(Encode(f))

----------------------------------------------------------------------------
(* The receiver                                                            *)

CodecInit ==
    /\ frame \in Frames
    /\ receiver \in Receivers
    /\ \E n \in Cuts(frame) : buf = SubSeq(Encode(frame), 1, n)
    /\ cur = Start
    /\ got = <<>>
    /\ wantInterest = FALSE
    /\ reading = "header"

\* handle_snapshot and handle_client_input: a header that cannot be read ends
\* the frame with nothing touched.
ReadHeader ==
    /\ reading = "header"
    /\ frame.kind \in {"snapshot", "input"}
    /\ cur' = DecodeHeader(cur)
    /\ reading' = IF cur'.ok THEN "blocks" ELSE "broken"
    /\ UNCHANGED <<frame, receiver, buf, got, wantInterest>>

Header == cur.out[1]

\* The slot resolves to an entity of that lane here.
KnownAs(slot, lane) == slot \in DOMAIN receiver.lane /\ receiver.lane[slot] = lane

\* The handler keeps the header it read; a block's own fields are dropped.
Onwards(r) == [r EXCEPT !.out = <<Header>>]

\* Breaking off in front of a section that was announced asks for the whole set.
NoteSnapshotBreak ==
    /\ reading' = "broken"
    /\ wantInterest' = (wantInterest \/ Header.flags = FlagInterestDelta)
    /\ UNCHANGED <<cur, got>>

\* A block of a body that is not known here is stepped over whole.
BlockRead(m, meta) ==
    IF m.ok /\ KnownAs(meta.slot, meta.lane)
    THEN DecodeStateBlock(m, meta, receiver.widths, receiver.held)
    ELSE [reader |-> IF m.ok THEN Skip(m, meta.left) ELSE m, row |-> <<>>]

TakeStateBlock(meta, read) ==
    IF ~read.reader.ok
    THEN NoteSnapshotBreak
    ELSE /\ cur' = Onwards(read.reader)
         /\ got' = Append(got, [slot |-> meta.slot, tick |-> meta.tick,
                                rows |-> IF read.row # <<>> THEN <<read.row>> ELSE <<>>])
         /\ UNCHANGED <<reading, wantInterest>>

\* One turn of handle_snapshot's loop: read the block's name, then apply it,
\* refuse it or step over it.
ReadStateBlock ==
    /\ reading = "blocks" /\ frame.kind = "snapshot"
    /\ Len(got) < Header.count
    /\ \E m \in {DecodeStateBlockMeta(cur, Header.tick)} :
          \E read \in {BlockRead(m, m.out[1])} : TakeStateBlock(m.out[1], read)
    /\ UNCHANGED <<frame, receiver, buf>>

InputRows(m, meta) ==
    IF KnownAs(meta.slot, "rollback")
    THEN SelectSeq([k \in 1..meta.count |-> InputBlockRow(m, meta, receiver.widths, k - 1)],
                   LAMBDA row : row # <<>>)
    ELSE <<>>

ApplyInputBlock(m, meta) ==
    /\ cur' = Onwards(Skip(m, meta.left))
    /\ got' = Append(got, [slot |-> meta.slot, tick |-> meta.newest,
                           rows |-> InputRows(m, meta)])
    /\ UNCHANGED <<reading, wantInterest>>

\* One turn of handle_client_input's loop: a body this peer may not drive is
\* stepped over like one nobody can name.
ReadInputBlock ==
    /\ reading = "blocks" /\ frame.kind = "input"
    /\ Len(got) < Header.count
    /\ \E m \in {DecodeInputBlockMeta(cur, Header.tick)} :
          IF m.ok THEN ApplyInputBlock(m, m.out[1])
          ELSE reading' = "broken" /\ UNCHANGED <<cur, got, wantInterest>>
    /\ UNCHANGED <<frame, receiver, buf>>

\* The section rides after the last block, where the header announced one.
SectionRead ==
    IF frame.kind = "snapshot" /\ Header.flags = FlagInterestDelta
    THEN DecodeInterestDelta([cur EXCEPT !.out = <<>>])
    ELSE [cur EXCEPT !.out = <<>>]

ReadSection ==
    /\ reading = "blocks"
    /\ Len(got) = Header.count
    /\ cur' = SectionRead
    /\ reading' = IF cur'.ok THEN "done" ELSE "broken"
    /\ wantInterest' = (wantInterest \/ ~cur'.ok)
    /\ UNCHANGED <<frame, receiver, buf, got>>

Tagged == IF buf = <<>> THEN Failed(Start) ELSE [Start EXCEPT !.pos = 1]

\* dispatch_frame's other arms; a hello is decoded from its first byte.
DispatchFrame ==
    /\ reading = "header"
    /\ frame.kind \notin {"snapshot", "input"}
    /\ cur' = CASE frame.kind = "ping"      -> ReadAll(Tagged, PingFields)
                [] frame.kind = "pong"      -> ReadAll(Tagged, PongFields)
                [] frame.kind = "welcome"   -> DecodeWelcome(Tagged)
                [] frame.kind = "challenge" -> DecodeChallenge(Tagged)
                [] frame.kind = "manifest"  -> DecodeManifestFull(Tagged)
                [] frame.kind = "delta"     -> DecodeManifestDelta(Tagged)
                [] frame.kind = "table"     -> DecodeInterestTable(Tagged)
                [] frame.kind = "hello"     -> DecodeHandshake(Start)
    /\ reading' = IF cur'.ok THEN "done" ELSE "broken"
    /\ UNCHANGED <<frame, receiver, buf, got, wantInterest>>

CodecNext ==
    \/ ReadHeader
    \/ ReadStateBlock
    \/ ReadInputBlock
    \/ ReadSection
    \/ DispatchFrame

CodecSpec == CodecInit /\ [][CodecNext]_codecVars

----------------------------------------------------------------------------

IsWhole == Len(buf) = Len(Encode(frame))

\* What the receiver should make of block b: every row of it, or none where it
\* cannot name the slot, runs another schema or lacks the base.
Expected(b) ==
    LET count  == IF frame.kind = "input" THEN b.count ELSE 1
        newest == IF frame.kind = "input" THEN b.newest ELSE b.tick
        lane   == IF frame.kind = "input" THEN "rollback" ELSE b.lane
        usable == /\ KnownAs(b.slot, lane)
                  /\ receiver.widths = Widths
                  /\ frame.kind = "snapshot" /\ IsDelta(b) => b.base \in receiver.held
    IN  [slot |-> b.slot, tick |-> newest,
         rows |-> IF usable THEN [k \in 1..count |-> RowAt(b.slot, newest - (k - 1))]
                            ELSE <<>>]

\* Every block read so far came out as it was written, under its own slot and
\* tick, whatever the blocks before it were; a frame that arrived whole is read
\* to its last byte; a frame cut short is never taken for whole, except for the
\* trailing fields of a join, which are then absent; and a section that was
\* announced and not read is asked for again.
FramesAreReadExactly ==
    /\ \A i \in DOMAIN got : got[i] = Expected(frame.blocks[i])
    /\ reading = "broken" => ~IsWhole
    /\ reading = "done" =>
         /\ IsWhole => cur.pos = Len(buf)
         /\ frame.kind \in {"snapshot", "input"} =>
              /\ IsWhole
              /\ Len(got) = Len(frame.blocks)
              /\ cur.out = IF HasSection(frame) THEN SectionValues(frame.section) ELSE <<>>
         /\ frame.kind \notin {"snapshot", "input"} =>
              /\ Len(cur.out) = Len(Values(frame))
              /\ \A i \in DOMAIN cur.out :
                    \/ cur.out[i] = Values(frame)[i]
                    \/ ~IsWhole /\ cur.out[i] = Absent
                       /\ frame.kind \in {"welcome", "challenge", "hello"}
    /\ reading = "broken" /\ cur.out # <<>> /\ frame.kind = "snapshot" =>
         (HasSection(frame) => wantInterest)
=============================================================================
