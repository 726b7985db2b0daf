------------------------------- MODULE SealedLane -------------------------------
(***************************************************************************)
(* One direction of a sealed session: a sender that numbers its datagrams  *)
(* under the session key, a network that delivers any of them any number   *)
(* of times and in any order, and a receiver whose sliding window refuses  *)
(* what it has already dispatched.  A connection is rekeyed when a client  *)
(* restarts its session, and a hello is retried under the key in force.    *)
(*                                                                         *)
(* Abstractions.  A tag verifies when the two ends hold the same key, and  *)
(* a key is a number: the nonce halves it is folded from are drawn afresh, *)
(* so a key is not seated again once left.  The bitmap is the set of its   *)
(* set bits, counted from 1.  The network never forgets a datagram.        *)
(***************************************************************************)
EXTENDS Naturals

CONSTANTS
    Window,    \* REPLAY_WINDOW
    Width,     \* values of the sequence number: 2^32
    MaxKey     \* bound on the keys of one connection

ASSUME SealAssumption ==
    Window \in Nat \ {0} /\ Width \in Nat \ {0, 1} /\ MaxKey \in Nat

SeqNo == 0..Width - 1

SealKey == 0..MaxKey

NoSealKey == 0          \* no handshake yet

VARIABLES
    sendKey, nextSeq,    \* the sender's key and next_seq, 0 when spent
    recvKey, window,     \* the receiver's key and replay window
    sealed,              \* history: how often each number was sealed, per key
    times                \* history: how often each was dispatched

sealVars == <<sendKey, nextSeq, recvKey, window, sealed, times>>

Counts == [SealKey -> [SeqNo -> Nat]]

ReplayWindow == [newest : SeqNo, bits : SUBSET (1..Window)]

Fresh == [newest |-> 0, bits |-> {}]

(* Keys and sequence numbers stay in range, and so does the bitmap.        *)
SealTypeOK ==
    /\ sendKey \in SealKey /\ nextSeq \in SeqNo
    /\ recvKey \in SealKey /\ window \in ReplayWindow
    /\ sealed \in Counts /\ times \in Counts

SealInit ==
    /\ sendKey = NoSealKey /\ nextSeq = 1
    /\ recvKey = NoSealKey /\ window = Fresh
    /\ sealed = [k \in SealKey |-> [s \in SeqNo |-> 0]]
    /\ times = [k \in SealKey |-> [s \in SeqNo |-> 0]]

-----------------------------------------------------------------------------
(* The window.                                                             *)

\* Mutant: the last bit the window covers is not read.
AcceptsShort(w, s) ==
    /\ s # 0
    /\ \/ s > w.newest
       \/ s < w.newest /\ w.newest - s < Window /\ w.newest - s \notin w.bits

\* ReplayWindow::accept, its answer
Accepts(w, s) ==
    /\ s # 0
    /\ \/ s > w.newest
       \/ s < w.newest /\ w.newest - s <= Window /\ w.newest - s \notin w.bits

\* Mutant: a jump of the whole window clears the map, the old newest with it.
AcceptClearing(w, s) ==
    LET shift == s - w.newest
    IN  IF s > w.newest
        THEN [newest |-> s,
              bits |-> IF shift >= Window THEN {}
                       ELSE {b \in 1..Window : b = shift \/ (b > shift /\ b - shift \in w.bits)}]
        ELSE [w EXCEPT !.bits = @ \cup {w.newest - s}]

\* ReplayWindow::accept, the window after it.  The bit of an empty window's
\* `newest`, which is 0, is set as any other: 0 is never issued.
Accept(w, s) ==
    LET shift == s - w.newest
    IN  IF s > w.newest
        THEN [newest |-> s,
              bits |-> {b \in 1..Window : b = shift \/ (b > shift /\ b - shift \in w.bits)}]
        ELSE [w EXCEPT !.bits = @ \cup {w.newest - s}]

-----------------------------------------------------------------------------
(* The session.                                                            *)

\* next_seq.wrapping_add(1)
WrappingNext(s) == IF s + 1 = Width THEN 0 ELSE s + 1

\* Mutant: the counter wraps.
SealWrapping ==
    /\ sendKey # NoSealKey
    /\ sealed' = [sealed EXCEPT ![sendKey][nextSeq] = @ + 1]
    /\ nextSeq' = WrappingNext(nextSeq)
    /\ UNCHANGED <<sendKey, recvKey, window, times>>

\* SessionAuth::seal: a spent counter seals nothing more.
Seal ==
    /\ sendKey # NoSealKey
    /\ nextSeq # 0
    /\ sealed' = [sealed EXCEPT ![sendKey][nextSeq] = @ + 1]
    /\ nextSeq' = WrappingNext(nextSeq)
    /\ UNCHANGED <<sendKey, recvKey, window, times>>

\* SessionAuth::open on a datagram that verifies and passes the window: it is
\* dispatched.
Open(k, s) ==
    /\ sealed[k][s] # 0
    /\ k = recvKey
    /\ Accepts(window, s)
    /\ window' = Accept(window, s)
    /\ times' = [times EXCEPT ![k][s] = @ + 1]
    /\ UNCHANGED <<sendKey, nextSeq, recvKey, sealed>>

\* BadTag, or Replayed: the datagram is dropped and the window does not move.
Refuse(k, s) ==
    /\ sealed[k][s] # 0
    /\ k # recvKey \/ ~Accepts(window, s)
    /\ UNCHANGED sealVars

\* The sender seats a key: a session starts or starts over, or a retried
\* handshake derives the key in force and keeps the counter.
SeatSender(k) ==
    /\ k # NoSealKey /\ k >= sendKey
    /\ sendKey' = k
    /\ nextSeq' = IF k = sendKey THEN nextSeq ELSE 1
    /\ UNCHANGED <<recvKey, window, sealed, times>>

\* Mutant: every hello seats a fresh window, a retried one too.
SeatReceiverAfresh(k) ==
    /\ k # NoSealKey /\ k >= recvKey
    /\ recvKey' = k
    /\ window' = Fresh
    /\ UNCHANGED <<sendKey, nextSeq, sealed, times>>

\* The receiver does the same: a new key gets a fresh window, a retry keeps
\* the one it has.
SeatReceiver(k) ==
    /\ k # NoSealKey /\ k >= recvKey
    /\ recvKey' = k
    /\ window' = IF k = recvKey THEN window ELSE Fresh
    /\ UNCHANGED <<sendKey, nextSeq, sealed, times>>

SealNext ==
    \/ Seal
    \/ \E k \in SealKey, s \in SeqNo : Open(k, s) \/ Refuse(k, s)
    \/ \E k \in SealKey : SeatSender(k) \/ SeatReceiver(k)

SealSpec == SealInit /\ [][SealNext]_sealVars

-----------------------------------------------------------------------------

(* However the network repeats and reorders, and however often a hello is  *)
(* retried, a sealed datagram is dispatched at most once.                  *)
AtMostOnce == \A k \in SealKey, s \in SeqNo : times[k][s] <= 1

(* A sequence number is sealed once under a key, so a cipher nonce is not  *)
(* repeated: a spent counter stops the session rather than wrapping.       *)
NonceOnce == \A k \in SealKey, s \in SeqNo : sealed[k][s] <= 1

(* The window refuses nothing it need not: a datagram under the key in     *)
(* force that was never dispatched and is at most Window behind passes.    *)
NoFalseRefusal ==
    \A s \in SeqNo :
      sealed[recvKey][s] # 0 /\ times[recvKey][s] = 0 /\ s + Window >= window.newest
        => Accepts(window, s)

-----------------------------------------------------------------------------
(* The inductive strengthening.                                            *)

\* What the window records is exactly what was dispatched.
WindowIsExact ==
    /\ \A s \in SeqNo : s > window.newest => times[recvKey][s] = 0
    /\ window.newest # 0 => times[recvKey][window.newest] = 1
    /\ \A s \in SeqNo : 0 < s /\ s < window.newest /\ window.newest - s <= Window
         => (window.newest - s \in window.bits <=> times[recvKey][s] = 1)

\* A key not seated yet has dispatched nothing, and 0 is never sealed.
FutureIsEmpty ==
    /\ \A k \in SealKey : k > recvKey => \A s \in SeqNo : times[k][s] = 0
    /\ \A k \in SealKey : k > sendKey => \A s \in SeqNo : sealed[k][s] = 0
    /\ \A s \in SeqNo : nextSeq # 0 /\ s >= nextSeq => sealed[sendKey][s] = 0
    /\ \A k \in SealKey : sealed[k][0] = 0

=============================================================================
