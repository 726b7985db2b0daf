---------------------------- MODULE MCWireCodec -----------------------------
(* Two slots of a three-property schema, a frame of each kind, numbers on   *)
(* both sides of a varint's digits and of the ack's sign.                   *)
EXTENDS WireCodec

MCWidths == <<1, 2, 1>>

MCRowAt(slot, tick) == <<slot, (9 * tick) % 64, IF tick < 5 THEN 7 ELSE slot>>

Block(slot, tick, base, lane) == [slot |-> slot, tick |-> tick, base |-> base, lane |-> lane]

Head0(tick, ack, flags, count) ==
    [kind |-> 1, tick |-> tick, ack |-> ack, bits |-> 41, token |-> 5,
     margin |-> -2, flags |-> flags, count |-> count]

Section == [generation |-> 5, left |-> <<<<1>>>>, entered |-> <<<<2>>, <<9>>>>]

StateBlocks ==
    {Block(1, 6, NoBase, "rollback"), Block(1, 6, 4, "rollback"),
     Block(2, 5, 5, "state"), Block(2, 6, 2, "state"), Block(9, 6, 4, "state")}

Snapshots ==
    {[kind |-> "snapshot", blocks |-> bs, section |-> Section,
      head |-> Head0(6, ack, flags, Len(bs))] :
        bs \in {<<>>} \cup {<<b>> : b \in StateBlocks} \cup (StateBlocks \X StateBlocks),
        ack \in {4}, flags \in {0, FlagInterestDelta}}
    \cup {[kind |-> "snapshot", blocks |-> <<>>, section |-> Section,
           head |-> Head0(tick, ack, 0, 0)] : tick \in {0, 17}, ack \in {0, 16, 63}}

InputBlocks ==
    {[slot |-> s, newest |-> n, count |-> c] : s \in {1, 9}, n \in {4, 9}, c \in {1, 3}}

Inputs ==
    {[kind |-> "input", blocks |-> bs, section |-> Section,
      head |-> Head0(6, 63, 0, Len(bs))] :
        bs \in {<<b>> : b \in InputBlocks} \cup (InputBlocks \X InputBlocks)}

Bound(slot, id, owner) ==
    [slot |-> slot, id |-> id, state |-> 3, input |-> 8, owner |-> owner, seat |-> 1]

PlainFrames ==
    {[kind |-> "manifest", generation |-> 4, entries |-> <<>>],
     [kind |-> "manifest", generation |-> 4, entries |-> <<Bound(1, 500, -1), Bound(9, 3, 7)>>],
     [kind |-> "delta", base |-> 4, generation |-> 5, removed |-> <<<<3>>>>,
      entries |-> <<Bound(2, 64, 0)>>],
     [kind |-> "table", generation |-> 16, entries |-> <<<<1>>, <<63>>>>],
     [kind |-> "ping", values |-> <<3, 511>>],
     [kind |-> "pong", values |-> <<4, 16, 300>>],
     [kind |-> "welcome", values |-> <<9, 20, 60, 77>>],
     [kind |-> "challenge", values |-> <<1000, 2000, 3000>>],
     [kind |-> "hello", values |-> <<4000, 9, 60, 11, 1000, 77, 2000, 99, 3000>>]}

MCFrames == Snapshots \cup Inputs \cup PlainFrames

Knows(lane, held, widths) ==
    [lane |-> lane, held |-> held, widths |-> widths]

MCReceivers ==
    {Knows(<<"rollback", "state">>, {2, 4}, Widths),
     Knows(<<"none", "state">>, {4}, Widths),
     Knows(<<"rollback", "rollback">>, {}, <<1, 2, 2>>)}
=============================================================================
