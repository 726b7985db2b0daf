---------------------------- MODULE ConnectionProofs ----------------------------
(***************************************************************************)
(* Proofs about one connection: the handshake, the sealed lane and the     *)
(* threads that assemble its snapshots, for any clients, connections and   *)
(* identities, every window and counter width, and every number of peers,  *)
(* threads and flushes.                                                    *)
(***************************************************************************)
EXTENDS Session, SealedLane, AssemblyPool, SequenceTheorems, WellFoundedInduction, TLAPS

-----------------------------------------------------------------------------
(***************************************************************************)
(* The handshake.  The tables keep their shape, no identity has two        *)
(* holders, nothing outlives its connection, an identity is only taken by a*)
(* claim that quotes its token, a synced client and the server are on one  *)
(* key, and the token on record for an identity is kept while it lives.    *)
(***************************************************************************)

\* A seated identity has a token on its row, and a held one in its record: the
\* claim on it is never granted on the identity alone.
TokensAreOnRecord ==
    /\ \A c \in Conn : peers[c].session # 0 => peers[c].token # 0
    /\ \A s \in Identity : Holds(s) => resume[s].token # 0

SessionInv == TypeOK /\ OneHolder /\ NothingOutlives /\ TokensAreOnRecord

-----------------------------------------------------------------------------
(* Shapes of what the actions build.                                       *)

(* A hello built from a client's fields, by send_hello, is a hello.        *)
LEMMA HelloShape ==
    ASSUME NEW cl \in Client PROVE HelloOf(cl) \in Hello
<1>1. NoKey \in Key
  BY DEF NoKey, Key, Draw, Secret
<1>2. cl.key \in Key /\ cl.key.acceptor \in Draw
  BY DEF Client, Key
<1>3. QED
  BY <1>1, <1>2 DEF HelloOf, Hello, Client

(* A started client, as start() leaves it, is a client.                    *)
LEMMA StartedShape ==
    ASSUME TypeOK, NEW p \in Player, NEW c \in Conn,
           NEW s \in Claims[p], NEW pin \in Pins[p]
    PROVE  Started(p, c, s, pin) \in Client
<1>1. NoKey \in Key
  BY DEF NoKey, Key, Draw, Secret
<1>2. s \in Identity \union {0} /\ pin \in Secret
  BY SessionAssumption DEF Secret
<1>3. client[p].token \in Draw /\ joins + 1 \in Draw
  BY DEF TypeOK, Client, Draw
<1>4. QED
  BY <1>1, <1>2, <1>3 DEF Started, Client

(* A stopped client, as stop() leaves it, is a client.                     *)
LEMMA StoppedShape ==
    ASSUME NEW t \in Draw PROVE Stopped(t) \in Client
  BY DEF Stopped, Client, NoKey, Key, Draw, Secret

(* The head of a connection's queue at the server is a hello.              *)
LEMMA HeadIsHello ==
    ASSUME TypeOK, NEW c \in Conn, toServer[c] # <<>>
    PROVE  Head(toServer[c]) \in Hello /\ Tail(toServer[c]) \in Seq(Hello)
  BY DEF TypeOK

(* The key a server derives for a hello is a key.                          *)
LEMMA SessionKeyShape ==
    ASSUME NEW h \in Hello, NEW a \in Draw
    PROVE  SessionKey(h, a) \in Key
  BY SessionAssumption DEF SessionKey, Key, Secret, Hello

(* The half a server answers with is a pending join.                       *)
LEMMA ChallengeHalfShape ==
    ASSUME TypeOK, NEW c \in Conn, NEW h \in Hello
    PROVE  ChallengeHalf(c, h) \in PendingJoin
  BY DEF ChallengeHalf, TypeOK, PendingJoin, Hello, Draw

(* The token a seat carries is a draw, and so is the token on record.      *)
LEMMA TokenShape ==
    ASSUME TypeOK, NEW c \in Conn, NEW h \in Hello
    PROVE  /\ TokenOnRecord(c, h.session) \in Draw
           /\ SeatToken(c, h) \in Draw
<1>1. h.session \in Identity \union {0}
  BY DEF Hello
<1>2. \A d \in Conn : peers[d].token \in Draw
  BY DEF TypeOK, Peer
<1>3. \A s \in Identity : resume[s].token \in Draw
  BY DEF TypeOK, Held
<1>4. Incumbents(c, h.session) # {} =>
          (CHOOSE d \in Incumbents(c, h.session) : TRUE) \in Conn
  <2>1. Incumbents(c, h.session) \subseteq Conn
    BY DEF Incumbents
  <2>2. QED
    BY <2>1
<1>5. TokenOnRecord(c, h.session) \in Draw
  BY <1>1, <1>2, <1>3, <1>4 DEF TokenOnRecord, Holds, Draw
<1>6. tokens + 1 \in Draw
  BY DEF TypeOK, Draw
<1>7. SeatToken(c, h) \in Draw
  BY <1>2, <1>5, <1>6 DEF SeatToken
<1>8. QED
  BY <1>5, <1>7

-----------------------------------------------------------------------------
(* Type correctness, action by action.                                     *)

(* The initial state has the shape.                                        *)
LEMMA InitShape == Init => TypeOK
<1> SUFFICES ASSUME Init PROVE TypeOK
  OBVIOUS
<1>1. 0 \in Draw /\ "none" \in Secret /\ NoKey \in Key
  BY DEF Draw, Secret, NoKey, Key
<1>2. Stopped(0) \in Client
  BY <1>1, StoppedShape
<1>3. NoPeer \in Peer /\ NoJoin \in PendingJoin /\ NotHeld \in Held
  BY <1>1 DEF NoPeer, Peer, NoJoin, PendingJoin, NotHeld, Held
<1>4. toServer \in [Conn -> Seq(Hello)]
  BY DEF Init
<1>5. toClient \in [Conn -> Seq(Challenge \union Welcome)]
  BY DEF Init
<1>6. QED
  BY <1>1, <1>2, <1>3, <1>4, <1>5 DEF Init, TypeOK, Policy

(* A client's own steps keep the shape.                                    *)
LEMMA ClientShape ==
    ASSUME TypeOK,
           \/ \E p \in Player, c \in Conn : Join(p, c)
           \/ \E p \in Player : Restart(p)
           \/ \E p \in Player : RetryHello(p)
           \/ \E p \in Player : Leave(p)
    PROVE  TypeOK'
<1>1. ASSUME NEW p \in Player, NEW c \in Conn, Join(p, c) PROVE TypeOK'
  <2>1. PICK s \in Claims[p], pin \in Pins[p] :
            /\ client' = [client EXCEPT ![p] = Started(p, c, s, pin)]
            /\ toServer' = [toServer EXCEPT ![c] = <<HelloOf(client'[p])>>]
    BY <1>1 DEF Join
  <2>2. Started(p, c, s, pin) \in Client
    BY StartedShape
  <2>3. client' \in [Player -> Client]
    BY <2>1, <2>2 DEF TypeOK
  <2>4. HelloOf(client'[p]) \in Hello
    BY <2>3, HelloShape
  <2>5. toServer' \in [Conn -> Seq(Hello)]
    BY <2>1, <2>4 DEF TypeOK
  <2>6. joins' \in Draw
    BY <1>1 DEF Join, TypeOK, Draw
  <2>7. QED
    BY <1>1, <2>3, <2>5, <2>6 DEF Join, TypeOK
<1>2. ASSUME NEW p \in Player, Restart(p) PROVE TypeOK'
  <2> DEFINE c == client[p].conn
  <2>1. c \in Conn
    BY <1>2 DEF Restart, TypeOK, Client
  <2>2. PICK s \in Claims[p], pin \in Pins[p] :
            /\ client' = [client EXCEPT ![p] = Started(p, c, s, pin)]
            /\ toServer' =
                  IF c \in open
                  THEN [toServer EXCEPT ![c] = Append(@, HelloOf(client'[p]))]
                  ELSE toServer
    BY <1>2 DEF Restart
  <2>3. Started(p, c, s, pin) \in Client
    BY <2>1, StartedShape
  <2>4. client' \in [Player -> Client]
    BY <2>2, <2>3 DEF TypeOK
  <2>5. HelloOf(client'[p]) \in Hello
    BY <2>4, HelloShape
  <2>6. toServer' \in [Conn -> Seq(Hello)]
    <3> HIDE DEF c
    <3> DEFINE h == HelloOf(client'[p])
    <3>1. h \in Hello
      BY <2>5
    <3> HIDE DEF h
    <3>2. Append(toServer[c], h) \in Seq(Hello)
      BY <2>1, <3>1 DEF TypeOK
    <3>3. toServer' \in {toServer,
                         [toServer EXCEPT ![c] = Append(toServer[c], h)]}
      BY <2>2 DEF h
    <3>4. QED
      BY <3>2, <3>3 DEF TypeOK
  <2>7. joins' \in Draw
    BY <1>2 DEF Restart, TypeOK, Draw
  <2>8. QED
    BY <1>2, <2>4, <2>6, <2>7 DEF Restart, TypeOK
<1>3. ASSUME NEW p \in Player, RetryHello(p) PROVE TypeOK'
  <2> DEFINE c == client[p].conn
  <2>1. c \in Conn
    BY <1>3 DEF RetryHello, TypeOK, Client
  <2>2. client[p] \in Client
    BY DEF TypeOK
  <2>3. HelloOf(client[p]) \in Hello
    BY <2>2, HelloShape
  <2>4. toServer' = [toServer EXCEPT
                       ![c] = Append(toServer[c], HelloOf(client[p]))]
    BY <1>3 DEF RetryHello
  <2> HIDE DEF c
  <2>5. toServer' \in [Conn -> Seq(Hello)]
    BY <2>1, <2>3, <2>4 DEF TypeOK
  <2>6. QED
    BY <1>3, <2>5 DEF RetryHello, TypeOK
<1>4. ASSUME NEW p \in Player, Leave(p) PROVE TypeOK'
  <2>1. client[p].token \in Draw
    BY DEF TypeOK, Client
  <2>2. Stopped(client[p].token) \in Client
    BY <2>1, StoppedShape
  <2>3. client' = [client EXCEPT ![p] = Stopped(client[p].token)]
    BY <1>4 DEF Leave
  <2>4. client' \in [Player -> Client]
    BY <2>2, <2>3 DEF TypeOK
  <2>5. toClient' \in [Conn -> Seq(Challenge \union Welcome)]
    <3>1. toClient \in [Conn -> Seq(Challenge \union Welcome)]
      BY DEF TypeOK
    <3>2. PICK c : toClient' = [toClient EXCEPT ![c] = <<>>]
      BY <1>4 DEF Leave
    <3>3. <<>> \in Seq(Challenge \union Welcome)
      OBVIOUS
    <3>4. QED
      BY <3>1, <3>2, <3>3
  <2>6. QED
    BY <1>4, <2>4, <2>5 DEF Leave, TypeOK
<1>5. QED
  BY <1>1, <1>2, <1>3, <1>4

(* Receiving a challenge or a welcome keeps the shape.                     *)
LEMMA ReceiveShape ==
    ASSUME TypeOK, NEW p \in Player,
           HandleChallenge(p) \/ IntegrateWelcome(p)
    PROVE  TypeOK'
<1> DEFINE c == client[p].conn
           m == Head(toClient[c])
<1>1. client[p] \in Client /\ client \in [Player -> Client]
  BY DEF TypeOK
<1>2. c \in Conn /\ toClient[c] # <<>>
  <2>1. c # 0 /\ toClient[c] # <<>>
    BY DEF HandleChallenge, IntegrateWelcome
  <2>2. c \in Conn \union {0}
    BY <1>1 DEF Client
  <2>3. QED
    BY <2>1, <2>2
<1>3. toClient[c] \in Seq(Challenge \union Welcome)
  BY <1>2 DEF TypeOK
<1>4. m \in Challenge \union Welcome
         /\ Tail(toClient[c]) \in Seq(Challenge \union Welcome)
  BY <1>2, <1>3
<1>5. toClient' = [toClient EXCEPT ![c] = Tail(toClient[c])]
  BY DEF HandleChallenge, IntegrateWelcome
<1> HIDE DEF c, m
<1>6. toClient' \in [Conn -> Seq(Challenge \union Welcome)]
  BY <1>2, <1>4, <1>5 DEF TypeOK
<1>7. CASE HandleChallenge(p)
  <2>1. m \in Challenge
    <3>1. m.kind = "challenge"
      BY <1>7 DEF HandleChallenge, m, c
    <3>2. QED
      BY <1>4, <3>1 DEF Challenge, Welcome
  <2> DEFINE k == Adopted(p, m)
             answered == [client[p] EXCEPT !.key = k]
  <2>2. k \in Key
    BY <1>1, <2>1, SessionAssumption
       DEF Adopted, Key, Challenge, Client, Secret
  <2> HIDE DEF k
  <2>3. answered \in Client
    BY <1>1, <2>2 DEF Client
  <2>4. HelloOf(answered) \in Hello
    BY <2>3, HelloShape
  <2>5. /\ client' \in {client, [client EXCEPT ![p] = answered]}
        /\ toServer' \in {toServer, [toServer EXCEPT
              ![c] = Append(toServer[c], HelloOf(answered))]}
    BY <1>7 DEF HandleChallenge, answered, k, m, c
  <2> DEFINE h == HelloOf(answered)
  <2> HIDE DEF answered, h
  <2>6. client' \in [Player -> Client]
    BY <1>1, <2>3, <2>5
  <2>7. toServer' \in [Conn -> Seq(Hello)]
    <3>1. toServer' \in {toServer, [toServer EXCEPT
              ![c] = Append(toServer[c], h)]}
      BY <2>5 DEF h
    <3>2. Append(toServer[c], h) \in Seq(Hello)
      BY <1>2, <2>4 DEF TypeOK, h
    <3>3. QED
      BY <3>1, <3>2 DEF TypeOK
  <2>8. QED
    BY <1>6, <1>7, <2>6, <2>7 DEF HandleChallenge, TypeOK
<1>8. CASE IntegrateWelcome(p)
  <2>1. m \in Welcome
    <3>1. m.kind = "welcome"
      BY <1>8 DEF IntegrateWelcome, m, c
    <3>2. QED
      BY <1>4, <3>1 DEF Challenge, Welcome
  <2> DEFINE t == IF m.token # 0 THEN m.token ELSE client[p].token
             welcomed == [client[p] EXCEPT !.synced = TRUE, !.token = t]
  <2>2. t \in Draw
    BY <1>1, <2>1 DEF Welcome, Client
  <2>3. client' \in {client, [client EXCEPT ![p] = welcomed]}
    BY <1>1, <1>8 DEF IntegrateWelcome, m, c
  <2> HIDE DEF t
  <2>4. welcomed \in Client
    BY <1>1, <2>2 DEF Client
  <2> HIDE DEF welcomed
  <2>5. client' \in [Player -> Client]
    BY <1>1, <2>3, <2>4
  <2>6. QED
    BY <1>6, <1>8, <2>5 DEF IntegrateWelcome, TypeOK
<1>9. QED
  BY <1>7, <1>8

(* Everything a seat writes has its shape.                                 *)
LEMMA SeatShape ==
    ASSUME TypeOK, NEW c \in Conn, NEW h \in Hello, NEW key \in Key,
           SeatHello(c, h, key)
    PROVE  /\ peers' \in [Conn -> Peer]
           /\ resume' \in [Identity -> Held]
           /\ tokens' \in Draw
           /\ toClient' \in [Conn -> Seq(Challenge \union Welcome)]
<1> DEFINE token  == SeatToken(c, h)
           losers == IF ResumeGrant(c, h) THEN Incumbents(c, h.session) ELSE {}
           seat   == [key |-> key, session |-> SeatedIdentity(c, h),
                      token |-> token]
           w      == [kind |-> "welcome", key |-> key, token |-> token]
<1>1. token \in Draw
  BY TokenShape
<1>2. SeatedIdentity(c, h) \in Identity \union {0}
  BY DEF SeatedIdentity, Hello
<1>3. seat \in Peer
  BY <1>1, <1>2 DEF Peer
<1>4. \A d \in Conn : [peers[d] EXCEPT !.session = 0] \in Peer
  BY DEF TypeOK, Peer
<1>6. w \in Welcome
  BY <1>1 DEF Welcome
<1>7. /\ peers' = [d \in Conn |->
            IF d = c THEN seat
            ELSE IF d \in losers THEN [peers[d] EXCEPT !.session = 0]
            ELSE peers[d]]
      /\ resume' \in {resume, [resume EXCEPT ![h.session] = NotHeld]}
      /\ tokens' \in {token, tokens}
      /\ toClient' \in {toClient,
                        [toClient EXCEPT ![c] = Append(toClient[c], w)]}
  BY DEF SeatHello
<1> HIDE DEF seat, losers, token, w
<1>8. peers' \in [Conn -> Peer]
  BY <1>3, <1>4, <1>7 DEF TypeOK
<1>9. resume' \in [Identity -> Held]
  <2>1. NotHeld \in Held
    BY DEF NotHeld, Held, Draw
  <2>2. QED
    BY <1>7, <2>1 DEF TypeOK
<1>10. tokens' \in Draw
  BY <1>1, <1>7 DEF TypeOK
<1>11. toClient' \in [Conn -> Seq(Challenge \union Welcome)]
  <2>1. Append(toClient[c], w) \in Seq(Challenge \union Welcome)
    BY <1>6 DEF TypeOK
  <2>2. QED
    BY <1>7, <2>1 DEF TypeOK
<1>12. QED
  BY <1>8, <1>9, <1>10, <1>11

(* A hello, whatever leg it is and however it is answered, keeps the shape. *)
LEMMA HelloKeepsShape ==
    ASSUME TypeOK, NEW c \in Conn, HandleHello(c)
    PROVE  TypeOK'
<1> DEFINE h       == Head(toServer[c])
           pending == ChallengeHalf(c, h)
           key     == SessionKey(h, pending.acceptor)
           ch      == [kind |-> "challenge", joiner |-> h.joiner,
                       acceptor |-> pending.acceptor,
                       exchange |-> ServerStatic /\ h.offer]
<1>1. h \in Hello /\ Tail(toServer[c]) \in Seq(Hello)
  BY HeadIsHello DEF HandleHello
<1>2. pending \in PendingJoin
  BY <1>1, ChallengeHalfShape
<1>3. key \in Key
  BY <1>1, <1>2, SessionKeyShape DEF PendingJoin
<1>4. ch \in Challenge
  BY <1>1, <1>2, SessionAssumption DEF Challenge, PendingJoin, Hello
<1>5. toServer' = [toServer EXCEPT ![c] = Tail(toServer[c])]
  BY DEF HandleHello
<1>6. toServer' \in [Conn -> Seq(Hello)]
  BY <1>1, <1>5 DEF TypeOK
<1>7. UNCHANGED <<up, policy, client, open, joins>>
  BY DEF HandleHello
<1>8. CASE ~ up
  <2>1. UNCHANGED <<peers, challenges, resume, toClient, minted, tokens>>
    BY <1>8 DEF HandleHello
  <2>2. QED
    BY <1>6, <1>7, <2>1 DEF TypeOK
<1>9. CASE up
  <2>1. /\ challenges' = [challenges EXCEPT ![c] = pending]
        /\ minted' \in {minted, pending.acceptor}
        /\ \/ /\ toClient' \in {toClient, [toClient EXCEPT
                                 ![c] = Append(toClient[c], ch)]}
              /\ UNCHANGED <<peers, resume, tokens>>
           \/ UNCHANGED <<peers, resume, toClient, tokens>>
           \/ SeatHello(c, h, key)
    BY <1>9 DEF HandleHello
  <2> HIDE DEF h, pending, key, ch
  <2>2. challenges' \in [Conn -> PendingJoin] /\ minted' \in Draw
    BY <1>2, <2>1 DEF TypeOK, PendingJoin
  <2>3. /\ peers' \in [Conn -> Peer]
        /\ resume' \in [Identity -> Held]
        /\ tokens' \in Draw
        /\ toClient' \in [Conn -> Seq(Challenge \union Welcome)]
    <3>1. CASE SeatHello(c, h, key)
      BY <1>1, <1>3, <3>1, SeatShape
    <3>2. CASE UNCHANGED <<peers, resume, toClient, tokens>>
      BY <3>2 DEF TypeOK
    <3>3. CASE /\ toClient' \in {toClient, [toClient EXCEPT
                                  ![c] = Append(toClient[c], ch)]}
               /\ UNCHANGED <<peers, resume, tokens>>
      <4>1. Append(toClient[c], ch) \in Seq(Challenge \union Welcome)
        BY <1>4 DEF TypeOK
      <4>2. QED
        BY <3>3, <4>1 DEF TypeOK
    <3>4. QED
      BY <2>1, <3>1, <3>2, <3>3
  <2>4. QED
    BY <1>6, <1>7, <2>2, <2>3 DEF TypeOK
<1>10. QED
  BY <1>8, <1>9

(* The server's other steps keep the shape.                                *)
LEMMA ServerShape ==
    ASSUME TypeOK,
           \/ StartServer
           \/ \E q \in Settings : SetResumePolicy(q)
           \/ \E c \in Conn : PeerDisconnected(c)
           \/ \E s \in Identity : ExpireHeld(s)
    PROVE  TypeOK'
<1>1. NoPeer \in Peer /\ NoJoin \in PendingJoin /\ NotHeld \in Held
  BY DEF NoPeer, Peer, NoJoin, PendingJoin, NotHeld, Held, NoKey, Key, Draw,
         Secret
<1>2. CASE StartServer
  BY <1>2 DEF StartServer, TypeOK
<1>3. ASSUME NEW q \in Settings, SetResumePolicy(q) PROVE TypeOK'
  BY <1>3 DEF SetResumePolicy, TypeOK, ClampPolicy, Policy
<1>4. ASSUME NEW s \in Identity, ExpireHeld(s) PROVE TypeOK'
  BY <1>1, <1>4 DEF ExpireHeld, TypeOK
<1>5. ASSUME NEW c \in Conn, PeerDisconnected(c) PROVE TypeOK'
  <2> DEFINE held == [peer |-> c, token |-> peers[c].token]
  <2>1. held \in Held
    BY DEF TypeOK, Peer, Held
  <2>2. resume' \in {resume, [resume EXCEPT ![peers[c].session] = held]}
    BY <1>5 DEF PeerDisconnected
  <2> HIDE DEF held
  <2>3. resume' \in [Identity -> Held]
    BY <2>1, <2>2 DEF TypeOK
  <2>4. peers' \in [Conn -> Peer] /\ challenges' \in [Conn -> PendingJoin]
    BY <1>1, <1>5 DEF PeerDisconnected, ForgetChallenge, TypeOK
  <2>5. toServer' \in [Conn -> Seq(Hello)]
    <3>1. toServer' = [toServer EXCEPT ![c] = <<>>]
      BY <1>5 DEF PeerDisconnected
    <3>2. <<>> \in Seq(Hello)
      OBVIOUS
    <3>3. QED
      BY <3>1, <3>2 DEF TypeOK
  <2>6. QED
    BY <1>5, <2>3, <2>4, <2>5 DEF PeerDisconnected, TypeOK
<1>6. QED
  BY <1>2, <1>3, <1>4, <1>5

(* A step keeps the shape.                                                 *)
LEMMA StepShape == TypeOK /\ [Next]_vars => TypeOK'
<1> SUFFICES ASSUME TypeOK, [Next]_vars PROVE TypeOK'
  OBVIOUS
<1>1. CASE UNCHANGED vars
  BY <1>1 DEF vars, TypeOK
<1>2. CASE Next
  BY <1>2, ClientShape, ReceiveShape, HelloKeepsShape, ServerShape DEF Next
<1>3. QED
  BY <1>1, <1>2

-----------------------------------------------------------------------------
(* One holder, and nothing left behind.                                    *)

(* What a seat does to the identity it names: everyone else who had it has *)
(* lost it and its window is closed, or the claimant does not get it.      *)
LEMMA SeatIsExclusive ==
    ASSUME TypeOK, OneHolder, NEW c \in Conn, NEW h \in Hello,
           NEW key \in Key, SeatHello(c, h, key)
    PROVE  OneHolder'
<1> DEFINE s == h.session
           losers == IF ResumeGrant(c, h) THEN Incumbents(c, s) ELSE {}
           i == SeatedIdentity(c, h)
<1>1. \A d \in Conn :
         peers'[d].session = IF d = c THEN i
                             ELSE IF d \in losers THEN 0
                             ELSE peers[d].session
  BY DEF SeatHello, TypeOK, Peer
<1>2. i \in {0, s}
  BY DEF SeatedIdentity
<1>3. i # 0 => \A d \in Conn \ {c} : peers'[d].session # s
  <2>1. CASE ResumeGrant(c, h)
    BY <1>1, <1>2, <2>1 DEF Incumbents
  <2>2. CASE ~ ResumeGrant(c, h)
    <3>1. i # 0 => Incumbents(c, s) = {}
      BY <2>2 DEF SeatedIdentity
    <3>2. QED
      BY <1>1, <1>2, <2>2, <3>1 DEF Incumbents
  <2>3. QED
    BY <2>1, <2>2
<1>4. s \in Identity \union {0}
  BY DEF Hello
<1>5. \A x \in Identity : resume'[x] \in {resume[x], NotHeld}
  BY DEF SeatHello, TypeOK
<1>6. i # 0 => resume'[s].peer = 0
  <2> SUFFICES ASSUME i # 0 PROVE resume'[s].peer = 0
    OBVIOUS
  <2>1. s \in Identity
    BY <1>2, <1>4
  <2>2. CASE ~ Holds(s)
    BY <1>5, <2>1, <2>2, SessionAssumption DEF Holds, NotHeld
  <2>3. CASE Holds(s)
    <3>1. ResumeGrant(c, h)
      BY <2>3 DEF SeatedIdentity
    <3>2. resume[s].token # 0 => h.token = resume[s].token
      BY <2>3, <3>1 DEF ResumeGrant, TokenOnRecord
    <3>3. resume' = [resume EXCEPT ![s] = NotHeld]
      BY <2>3, <3>1, <3>2 DEF SeatHello
    <3>4. QED
      BY <2>1, <3>3 DEF TypeOK, NotHeld
  <2>4. QED
    BY <2>2, <2>3
<1>7. ASSUME NEW x \in Identity, NEW a \in Conn, NEW b \in Conn,
             peers'[a].session = x
      PROVE  (peers'[b].session = x => a = b) /\ ~ Holds(x)'
  <2>1. x # 0
    BY SessionAssumption
  <2>2. CASE a = c
    <3>1. i = x /\ x = s
      BY <1>1, <1>2, <1>7, <2>1, <2>2
    <3>2. peers'[b].session = x => a = b
      BY <1>3, <2>1, <2>2, <3>1
    <3>3. ~ Holds(x)'
      BY <1>6, <2>1, <3>1 DEF Holds
    <3>4. QED
      BY <3>2, <3>3
  <2>3. CASE a # c
    <3>1. peers[a].session = x
      BY <1>1, <1>7, <2>1, <2>3
    <3>2. ~ Holds(x) /\ (peers[b].session = x => a = b)
      BY <3>1 DEF OneHolder
    <3>3. ~ Holds(x)'
      BY <1>5, <3>2, <2>1 DEF Holds, NotHeld
    <3>4. peers'[b].session = x => a = b
      <4>1. CASE b = c
        BY <1>1, <1>2, <1>3, <1>7, <2>1, <2>3, <4>1
      <4>2. CASE b # c
        BY <1>1, <2>1, <3>2, <4>2
      <4>3. QED
        BY <4>1, <4>2
    <3>5. QED
      BY <3>3, <3>4
  <2>4. QED
    BY <2>2, <2>3
<1>8. QED
  BY <1>7 DEF OneHolder

(* Steps that move no identity and open no window keep one holder.         *)
LEMMA QuietKeepsHolder ==
    ASSUME OneHolder, UNCHANGED <<peers, resume>> PROVE OneHolder'
  BY DEF OneHolder, Holds

(* A drop takes the identity off its row and opens the window in one step. *)
LEMMA DropKeepsHolder ==
    ASSUME TypeOK, OneHolder, NEW c \in Conn, PeerDisconnected(c)
    PROVE  OneHolder'
<1> DEFINE s == peers[c].session
<1>1. peers' = [peers EXCEPT ![c] = NoPeer]
  BY DEF PeerDisconnected
<1>2. \A x \in Identity : x # s => resume'[x] = resume[x]
  BY DEF PeerDisconnected, TypeOK
<1>3. ASSUME NEW x \in Identity, NEW a \in Conn, NEW b \in Conn,
             peers'[a].session = x
      PROVE  (peers'[b].session = x => a = b) /\ ~ Holds(x)'
  <2>1. x # 0
    BY SessionAssumption
  <2>2. a # c /\ peers[a].session = x
    BY <1>1, <1>3, <2>1 DEF TypeOK, NoPeer
  <2>3. x # s
    BY <2>2 DEF OneHolder
  <2>4. peers'[b].session = x => peers[b].session = x
    BY <1>1, <2>1 DEF TypeOK, NoPeer
  <2>5. QED
    BY <1>2, <2>2, <2>3, <2>4 DEF OneHolder, Holds
<1>4. QED
  BY <1>3 DEF OneHolder

(* A window that closes keeps one holder.                                  *)
LEMMA ExpireKeepsHolder ==
    ASSUME TypeOK, OneHolder, NEW s \in Identity, ExpireHeld(s)
    PROVE  OneHolder'
<1>1. UNCHANGED peers
  BY DEF ExpireHeld
<1>2. \A x \in Identity : resume'[x] \in {resume[x], NotHeld}
  BY DEF ExpireHeld, TypeOK
<1>3. QED
  BY <1>1, <1>2 DEF OneHolder, Holds, NotHeld

(* A hello keeps one holder, on whichever leg.                             *)
LEMMA HelloKeepsHolder ==
    ASSUME TypeOK, OneHolder, NEW c \in Conn, HandleHello(c)
    PROVE  OneHolder'
<1> DEFINE h       == Head(toServer[c])
           pending == ChallengeHalf(c, h)
           key     == SessionKey(h, pending.acceptor)
<1>1. h \in Hello
  BY HeadIsHello DEF HandleHello
<1>2. key \in Key
  <2>1. pending.acceptor \in Draw
    BY <1>1, ChallengeHalfShape DEF PendingJoin
  <2>2. QED
    BY <1>1, <2>1, SessionKeyShape
<1>3. UNCHANGED <<peers, resume>> \/ SeatHello(c, h, key)
  BY DEF HandleHello
<1>4. QED
  BY <1>1, <1>2, <1>3, SeatIsExclusive, QuietKeepsHolder

(* A step keeps one holder.                                                *)
LEMMA StepKeepsHolder == TypeOK /\ OneHolder /\ [Next]_vars => OneHolder'
<1> SUFFICES ASSUME TypeOK, OneHolder, [Next]_vars PROVE OneHolder'
  OBVIOUS
<1>1. ASSUME NEW c \in Conn, HandleHello(c) PROVE OneHolder'
  BY <1>1, HelloKeepsHolder
<1>2. ASSUME NEW c \in Conn, PeerDisconnected(c) PROVE OneHolder'
  BY <1>2, DropKeepsHolder
<1>3. ASSUME NEW s \in Identity, ExpireHeld(s) PROVE OneHolder'
  BY <1>3, ExpireKeepsHolder
<1>4. CASE \/ \E p \in Player, c \in Conn : Join(p, c)
           \/ \E p \in Player : Restart(p)
           \/ \E p \in Player : RetryHello(p)
           \/ \E p \in Player : Leave(p)
           \/ \E p \in Player : HandleChallenge(p)
           \/ \E p \in Player : IntegrateWelcome(p)
           \/ StartServer
           \/ \E q \in Settings : SetResumePolicy(q)
           \/ UNCHANGED vars
  <2>1. UNCHANGED <<peers, resume>>
    BY <1>4 DEF Join, Restart, RetryHello, Leave, HandleChallenge,
                IntegrateWelcome, StartServer, SetResumePolicy, vars
  <2>2. QED
    BY <2>1, QuietKeepsHolder
<1>5. QED
  BY <1>1, <1>2, <1>3, <1>4 DEF Next

(* A step leaves nothing of a connection that is gone.                     *)
LEMMA StepLeavesNothing ==
    TypeOK /\ NothingOutlives /\ [Next]_vars => NothingOutlives'
<1> SUFFICES ASSUME TypeOK, NothingOutlives, [Next]_vars,
                    NEW c \in Conn, c \notin open'
             PROVE  /\ peers'[c] = NoPeer /\ challenges'[c] = NoJoin
                    /\ toServer'[c] = <<>>
  BY DEF NothingOutlives
<1> DEFINE Gone == peers[c] = NoPeer /\ challenges[c] = NoJoin
                     /\ toServer[c] = <<>>
<1>1. c \notin open => Gone
  BY DEF NothingOutlives
<1>2. ASSUME NEW p \in Player, NEW d \in Conn, Join(p, d) PROVE Gone'
  BY <1>1, <1>2 DEF Join, TypeOK
<1>3. ASSUME NEW p \in Player, Restart(p) PROVE Gone'
  <2>1. toServer'[c] = toServer[c]
    <3>1. CASE client[p].conn \in open
      <4>1. client[p].conn # c
        BY <1>3, <3>1 DEF Restart
      <4>2. QED
        BY <1>3, <3>1, <4>1 DEF Restart, TypeOK
    <3>2. CASE client[p].conn \notin open
      BY <1>3, <3>2 DEF Restart
    <3>3. QED
      BY <3>1, <3>2
  <2>2. QED
    BY <1>1, <1>3, <2>1 DEF Restart, TypeOK
<1>4. ASSUME NEW p \in Player, RetryHello(p) PROVE Gone'
  BY <1>1, <1>4 DEF RetryHello, TypeOK
<1>5. ASSUME NEW p \in Player, HandleChallenge(p) PROVE Gone'
  <2>1. toServer'[c] = toServer[c]
    <3>1. CASE client[p].conn \in open
      <4>1. client[p].conn # c
        BY <1>5, <3>1 DEF HandleChallenge
      <4>2. QED
        BY <1>5, <3>1, <4>1 DEF HandleChallenge, TypeOK
    <3>2. CASE client[p].conn \notin open
      BY <1>5, <3>2 DEF HandleChallenge
    <3>3. QED
      BY <3>1, <3>2
  <2>2. QED
    BY <1>1, <1>5, <2>1 DEF HandleChallenge, TypeOK
<1>6. ASSUME NEW d \in Conn, HandleHello(d) PROVE Gone'
  <2>1. d \in open /\ open' = open /\ c # d
    BY <1>6 DEF HandleHello
  <2>2. toServer'[c] = toServer[c]
    BY <1>6, <2>1 DEF HandleHello, TypeOK
  <2>3. challenges'[c] = challenges[c]
    BY <1>6, <2>1 DEF HandleHello, TypeOK
  <2>4. peers'[c] = NoPeer
    <3>1. peers[c] = NoPeer
      BY <1>1, <2>1
    <3>2. CASE UNCHANGED peers
      BY <3>1, <3>2
    <3>3. ASSUME NEW h, NEW key, SeatHello(d, h, key) PROVE peers'[c] = NoPeer
      <4>1. peers'[c] \in {peers[c], [peers[c] EXCEPT !.session = 0]}
        BY <2>1, <3>3 DEF SeatHello
      <4>2. [NoPeer EXCEPT !.session = 0] = NoPeer
        BY DEF NoPeer
      <4>3. QED
        BY <3>1, <4>1, <4>2
    <3>4. QED
      BY <1>6, <3>2, <3>3 DEF HandleHello
  <2>5. QED
    BY <1>1, <2>1, <2>2, <2>3, <2>4
<1>7. ASSUME NEW d \in Conn, PeerDisconnected(d) PROVE Gone'
  BY <1>1, <1>7 DEF PeerDisconnected, ForgetChallenge, TypeOK
<1>8. CASE \/ \E p \in Player : Leave(p)
           \/ \E p \in Player : IntegrateWelcome(p)
           \/ StartServer
           \/ \E q \in Settings : SetResumePolicy(q)
           \/ \E s \in Identity : ExpireHeld(s)
           \/ UNCHANGED vars
  BY <1>1, <1>8 DEF Leave, IntegrateWelcome, StartServer, SetResumePolicy,
                    ExpireHeld, vars
<1>9. QED
  BY <1>2, <1>3, <1>4, <1>5, <1>6, <1>7, <1>8 DEF Next

(* A step leaves a token beside every identity.                            *)
LEMMA StepKeepsTokens ==
    TypeOK /\ TokensAreOnRecord /\ [Next]_vars => TokensAreOnRecord'
<1> SUFFICES ASSUME TypeOK, TokensAreOnRecord, [Next]_vars
             PROVE  TokensAreOnRecord'
  OBVIOUS
<1>1. ASSUME UNCHANGED <<peers, resume>> PROVE TokensAreOnRecord'
  BY <1>1 DEF TokensAreOnRecord, Holds
<1>2. ASSUME NEW c \in Conn, NEW h \in Hello, NEW key \in Key,
             SeatHello(c, h, key)
      PROVE  TokensAreOnRecord'
  <2>1. SeatedIdentity(c, h) # 0 => SeatToken(c, h) # 0
    BY DEF SeatToken, TypeOK, Draw
  <2>2. \A d \in Conn : peers'[d].session # 0 => peers'[d].token # 0
    <3>1. peers'[c].session # 0 => peers'[c].token # 0
      BY <1>2, <2>1 DEF SeatHello
    <3>2. ASSUME NEW d \in Conn, d # c, peers'[d].session # 0
          PROVE  peers'[d].token # 0
      <4>1. peers'[d] \in {peers[d], [peers[d] EXCEPT !.session = 0]}
        BY <1>2, <3>2 DEF SeatHello
      <4>2. peers'[d] = peers[d]
        BY <3>2, <4>1 DEF TypeOK, Peer
      <4>3. QED
        BY <3>2, <4>2 DEF TokensAreOnRecord
    <3>3. QED
      BY <3>1, <3>2
  <2>3. \A s \in Identity : resume'[s] \in {resume[s], NotHeld}
    BY <1>2 DEF SeatHello, TypeOK
  <2>4. QED
    BY <2>2, <2>3 DEF TokensAreOnRecord, Holds, NotHeld
<1>3. ASSUME NEW c \in Conn, HandleHello(c) PROVE TokensAreOnRecord'
  <2> DEFINE h       == Head(toServer[c])
             pending == ChallengeHalf(c, h)
             key     == SessionKey(h, pending.acceptor)
  <2>1. h \in Hello
    BY <1>3, HeadIsHello DEF HandleHello
  <2>2. key \in Key
    BY <2>1, ChallengeHalfShape, SessionKeyShape DEF PendingJoin
  <2>3. UNCHANGED <<peers, resume>> \/ SeatHello(c, h, key)
    BY <1>3 DEF HandleHello
  <2>4. QED
    BY <1>1, <1>2, <2>1, <2>2, <2>3
<1>4. ASSUME NEW c \in Conn, PeerDisconnected(c) PROVE TokensAreOnRecord'
  <2>1. peers' = [peers EXCEPT ![c] = NoPeer]
    BY <1>4 DEF PeerDisconnected
  <2>2. \A s \in Identity :
           \/ resume'[s] = resume[s]
           \/ peers[c].session # 0 /\ resume'[s].token = peers[c].token
    BY <1>4 DEF PeerDisconnected, HoldOnDrop, TypeOK
  <2>3. QED
    BY <2>1, <2>2 DEF TokensAreOnRecord, Holds, NoPeer, TypeOK
<1>5. ASSUME NEW s \in Identity, ExpireHeld(s) PROVE TokensAreOnRecord'
  <2>1. \A x \in Identity : resume'[x] \in {resume[x], NotHeld}
    BY <1>5 DEF ExpireHeld, TypeOK
  <2>2. QED
    BY <1>5, <2>1 DEF ExpireHeld, TokensAreOnRecord, Holds, NotHeld
<1>6. CASE \/ \E p \in Player, c \in Conn : Join(p, c)
           \/ \E p \in Player : Restart(p)
           \/ \E p \in Player : RetryHello(p)
           \/ \E p \in Player : Leave(p)
           \/ \E p \in Player : HandleChallenge(p)
           \/ \E p \in Player : IntegrateWelcome(p)
           \/ StartServer
           \/ \E q \in Settings : SetResumePolicy(q)
           \/ UNCHANGED vars
  <2>1. UNCHANGED <<peers, resume>>
    BY <1>6 DEF Join, Restart, RetryHello, Leave, HandleChallenge,
                IntegrateWelcome, StartServer, SetResumePolicy, vars
  <2>2. QED
    BY <2>1, <1>1
<1>7. QED
  BY <1>3, <1>4, <1>5, <1>6 DEF Next

(* The four parts hold at the start.                                       *)
LEMMA SessionInitHolds == Init => SessionInv
<1> SUFFICES ASSUME Init PROVE SessionInv
  OBVIOUS
<1>1. TypeOK
  BY InitShape
<1>2. OneHolder
  BY SessionAssumption DEF Init, OneHolder, NoPeer
<1>3. NothingOutlives
  BY DEF Init, NothingOutlives
<1>4. TokensAreOnRecord
  BY DEF Init, TokensAreOnRecord, Holds, NoPeer, NotHeld
<1>5. QED
  BY <1>1, <1>2, <1>3, <1>4 DEF SessionInv

(* The inductive invariant of the join handshake and the resume table.     *)
THEOREM SessionInvariance == Spec => []SessionInv
<1>1. SessionInv /\ [Next]_vars => SessionInv'
  BY StepShape, StepKeepsHolder, StepLeavesNothing, StepKeepsTokens
     DEF SessionInv
<1>2. QED
  BY SessionInitHolds, <1>1, PTL DEF Spec

(* Every table of the handshake keeps its shape, for every configuration.  *)
THEOREM SessionTypeCorrectness == Spec => []TypeOK
<1>1. SessionInv => TypeOK
  BY DEF SessionInv
<1>2. QED
  BY SessionInvariance, <1>1, PTL

(* seat_hello, _on_peer_disconnected and the expiry between them never give *)
(* an identity two holders, for any number of clients claiming it.         *)
THEOREM OneHolderAlways == Spec => []OneHolder
<1>1. SessionInv => OneHolder
  BY DEF SessionInv
<1>2. QED
  BY SessionInvariance, <1>1, PTL

(* A connection id handed out again starts with no row, no pending half    *)
(* and no hello of the connection that had it.                             *)
THEOREM NothingOutlivesAConnection == Spec => []NothingOutlives
<1>1. SessionInv => NothingOutlives
  BY DEF SessionInv
<1>2. QED
  BY SessionInvariance, <1>1, PTL

-----------------------------------------------------------------------------
(* An identity is taken only by quoting its token.                         *)

(* A queue that is not empty is not its own tail.                          *)
LEMMA TailIsShorter ==
    ASSUME NEW S, NEW q \in Seq(S), q # <<>> PROVE Tail(q) # q
  OBVIOUS

(* The step of the property: what a seat takes, its claimant quoted.       *)
LEMMA SeatTakesByToken ==
    ASSUME SessionInv, NEW c \in Conn, NEW h \in Hello, NEW key,
           SeatHello(c, h, key)
    PROVE  /\ \A d \in Conn \ {c} : peers[d].session # peers'[d].session
                 => policy = "always" /\ h.token = peers[d].token
           /\ \A s \in Identity : Holds(s) /\ resume'[s] # resume[s]
                 => h.session = s /\ h.token = resume[s].token
<1> USE DEF SessionInv
<1>1. ASSUME NEW d \in Conn \ {c}, peers[d].session # peers'[d].session
      PROVE  policy = "always" /\ h.token = peers[d].token
  <2>1. ResumeGrant(c, h) /\ d \in Incumbents(c, h.session)
    BY <1>1 DEF SeatHello
  <2>2. /\ h.session # 0 /\ peers[d].session = h.session
        /\ h.session \in Identity
    BY <2>1 DEF Incumbents, Hello
  <2>3. ~ Holds(h.session)
    BY <2>2 DEF OneHolder
  <2>4. \A e \in Incumbents(c, h.session) : e = d
    BY <2>2 DEF Incumbents, OneHolder
  <2>5. TokenOnRecord(c, h.session) = peers[d].token
    BY <2>1, <2>3, <2>4 DEF TokenOnRecord
  <2>6. peers[d].token # 0
    BY <2>2 DEF TokensAreOnRecord
  <2>7. QED
    BY <2>1, <2>5, <2>6 DEF ResumeGrant
<1>2. ASSUME NEW s \in Identity, Holds(s), resume'[s] # resume[s]
      PROVE  h.session = s /\ h.token = resume[s].token
  <2>1. /\ h.session = s
        /\ resume[s].token \in {0, h.token}
    BY <1>2 DEF SeatHello, TypeOK
  <2>2. resume[s].token # 0
    BY <1>2 DEF TokensAreOnRecord
  <2>3. QED
    BY <2>1, <2>2
<1>3. QED
  BY <1>1, <1>2

(* What a hello's arrival may take from the connections and the records.   *)
TakesByToken(c, d) ==
    LET h == Head(toServer[c]) IN
    /\ d # c /\ peers[d].session # peers'[d].session
          => policy = "always" /\ h.token = peers[d].token
    /\ \A s \in Identity : Holds(s) /\ resume'[s] # resume[s]
          => h.session = s /\ h.token = resume[s].token

(* Every step that takes the head of a connection's hellos takes by token. *)
LEMMA StepTakesByToken ==
    ASSUME SessionInv, [Next]_vars, NEW c \in Conn, NEW d \in Conn,
           toServer[c] # <<>>, toServer'[c] = Tail(toServer[c]), d \in open'
    PROVE  TakesByToken(c, d)
<1> USE DEF SessionInv
<1>1. toServer[c] \in Seq(Hello) /\ toServer'[c] # toServer[c]
  BY TailIsShorter DEF TypeOK
<1>2. ASSUME UNCHANGED <<peers, resume>> PROVE TakesByToken(c, d)
  BY <1>2 DEF TakesByToken
<1>3. ASSUME NEW e \in Conn, HandleHello(e) PROVE TakesByToken(c, d)
  <2> DEFINE h   == Head(toServer[c])
             key == SessionKey(h, ChallengeHalf(c, h).acceptor)
  <2>1. e = c
    BY <1>1, <1>3 DEF HandleHello, TypeOK
  <2>2. h \in Hello
    BY HeadIsHello
  <2>3. UNCHANGED <<peers, resume>> \/ SeatHello(c, h, key)
    BY <1>3, <2>1 DEF HandleHello
  <2>4. SeatHello(c, h, key) => TakesByToken(c, d)
    BY <2>2, SeatTakesByToken DEF TakesByToken
  <2>5. QED
    BY <1>2, <2>3, <2>4
<1>4. ASSUME NEW e \in Conn, PeerDisconnected(e) PROVE TakesByToken(c, d)
  <2>1. d # e /\ peers'[d] = peers[d]
    BY <1>4 DEF PeerDisconnected, TypeOK
  <2>2. ASSUME NEW s \in Identity, Holds(s) PROVE resume'[s] = resume[s]
    <3>1. peers[e].session # s
      BY <2>2 DEF OneHolder
    <3>2. QED
      BY <1>4, <3>1 DEF PeerDisconnected, TypeOK
  <2>3. QED
    BY <2>1, <2>2 DEF TakesByToken
<1>5. ASSUME NEW s \in Identity, ExpireHeld(s) PROVE TakesByToken(c, d)
  BY <1>1, <1>5 DEF ExpireHeld
<1>6. CASE \/ \E p \in Player, e \in Conn : Join(p, e)
           \/ \E p \in Player : Restart(p)
           \/ \E p \in Player : RetryHello(p)
           \/ \E p \in Player : Leave(p)
           \/ \E p \in Player : HandleChallenge(p)
           \/ \E p \in Player : IntegrateWelcome(p)
           \/ StartServer
           \/ \E q \in Settings : SetResumePolicy(q)
           \/ UNCHANGED vars
  <2>1. UNCHANGED <<peers, resume>>
    BY <1>6 DEF Join, Restart, RetryHello, Leave, HandleChallenge,
                IntegrateWelcome, StartServer, SetResumePolicy, vars
  <2>2. QED
    BY <2>1, <1>2
<1>7. QED
  BY <1>3, <1>4, <1>5, <1>6 DEF Next

(* resume_grant: no live connection loses its identity, and no window is   *)
(* spent, to a claimant that did not quote the token the server minted,    *)
(* whatever else the clients retry, restart or drop.                       *)
THEOREM IdentitiesAreTakenByToken == Spec => TakenByToken
<1>1. SessionInv /\ [Next]_vars =>
         [\A c, d \in Conn :
             toServer[c] # <<>> /\ toServer'[c] = Tail(toServer[c])
               /\ d \in open' => TakesByToken(c, d)]_vars
  BY StepTakesByToken
<1>2. QED
  BY SessionInvariance, <1>1, PTL DEF Spec, TakenByToken, TakesByToken

-----------------------------------------------------------------------------
(* A synced client and the server are on one key.                          *)

\* The key the server derives for a client's join, with the half drawn for it.
KeyFor(cl, acceptor) ==
    SessionKey([joiner |-> cl.joiner, offer |-> cl.pin # "none"], acceptor)

\* The server's row and its pending half are those of the client's own join, and
\* k is what they come to.
Seated(cl, key, half, k) ==
    /\ key = k
    /\ half.joiner = cl.joiner
    /\ k = KeyFor(cl, half.acceptor)

\* Hellos arrive in the order their halves were drawn: from the half the server
\* answered last to the client's newest, which alone says what it offers now.
HellosAscend(cl, half, q) ==
    /\ half.joiner <= cl.joiner
    /\ \A i \in 1 .. Len(q) :
          /\ 1 <= q[i].joiner /\ half.joiner <= q[i].joiner /\ q[i].joiner <= cl.joiner
          /\ q[i].joiner = cl.joiner => q[i].offer = (cl.pin # "none")
    /\ \A i, j \in 1 .. Len(q) : i <= j => q[i].joiner <= q[j].joiner

\* A welcome on its way is of an earlier join, or under the key of the server's row.
WelcomesAreSeated(cl, key, half, r) ==
    \A i \in 1 .. Len(r) : r[i].kind = "welcome" =>
        /\ 1 <= r[i].key.joiner /\ r[i].key.joiner <= cl.joiner
        /\ r[i].key.joiner = cl.joiner => Seated(cl, key, half, r[i].key)

\* A client and the server's row and half for its connection, with what is
\* between them.
Linked(cl, key, half, q, r) ==
    /\ HellosAscend(cl, half, q)
    /\ WelcomesAreSeated(cl, key, half, r)
    /\ cl.synced => Seated(cl, key, half, cl.key)

\* A client's half was drawn, and its key is of that half.
HalfIsDrawn(cl, drawn) ==
    /\ 1 <= cl.joiner /\ cl.joiner <= drawn
    /\ cl.key.joiner \in {0, cl.joiner}

HasJoined(p) ==
    LET c == client[p].conn
    IN  c # 0 =>
          /\ HalfIsDrawn(client[p], joins)
          /\ c \in open =>
                Linked(client[p], peers[c].key, challenges[c], toServer[c], toClient[c])

\* A connection has one client, and nothing waits for a client that has left.
ConnsAreApart ==
    /\ \A p, o \in Player :
          client[p].conn # 0 /\ client[p].conn = client[o].conn => p = o
    /\ \A c \in Conn : ~ Listening(c) => toClient[c] = <<>>

KeyInv == ConnsAreApart /\ \A p \in Player : HasJoined(p)

(* A client that says hello again says it last.                            *)
LEMMA HelloComesLast ==
    ASSUME NEW cl \in Client, NEW half \in PendingJoin, NEW q \in Seq(Hello),
           1 <= cl.joiner, HellosAscend(cl, half, q)
    PROVE  HellosAscend(cl, half, Append(q, HelloOf(cl)))
<1> DEFINE h == HelloOf(cl)
<1>1. h \in Hello /\ h.joiner = cl.joiner /\ h.offer = (cl.pin # "none")
  BY HelloShape DEF HelloOf
<1>2. cl.joiner \in Nat /\ half.joiner \in Nat
  BY DEF Client, PendingJoin, Draw
<1>3. \A i \in 1 .. Len(q) : q[i].joiner \in Nat
  <2>1. \A i \in 1 .. Len(q) : q[i] \in Hello
    OBVIOUS
  <2>2. QED
    BY <2>1 DEF Hello, Draw
<1> HIDE DEF h
<1>4. /\ Len(Append(q, h)) = Len(q) + 1 /\ Len(q) \in Nat
      /\ \A i \in 1 .. Len(q) : Append(q, h)[i] = q[i]
      /\ Append(q, h)[Len(q) + 1] = h
  BY <1>1
<1>5. \A i \in 1 .. Len(q) + 1 : i \in 1 .. Len(q) \/ i = Len(q) + 1
  BY <1>4
<1>6. QED
  BY <1>1, <1>2, <1>3, <1>4, <1>5 DEF HellosAscend, h

(* Everything on its way to or from an earlier join is behind a new one.   *)
LEMMA RestartIsAhead ==
    ASSUME NEW cl \in Client, NEW new \in Client, NEW key, NEW half \in PendingJoin,
           NEW q \in Seq(Hello), NEW r \in Seq(Challenge \union Welcome),
           Linked(cl, key, half, q, r), cl.joiner < new.joiner, ~ new.synced
    PROVE  Linked(new, key, half, q, r)
<1>1. cl.joiner \in Nat /\ new.joiner \in Nat /\ half.joiner \in Nat
  BY DEF Client, PendingJoin, Draw
<1>2. \A i \in 1 .. Len(q) : q[i].joiner \in Nat
  <2>1. \A i \in 1 .. Len(q) : q[i] \in Hello
    OBVIOUS
  <2>2. QED
    BY <2>1 DEF Hello, Draw
<1>3. HellosAscend(new, half, q)
  BY <1>1, <1>2 DEF Linked, HellosAscend
<1>4. ASSUME NEW i \in 1 .. Len(r), r[i].kind = "welcome"
      PROVE  1 <= r[i].key.joiner /\ r[i].key.joiner <= new.joiner
                /\ r[i].key.joiner # new.joiner
  <2>1. r[i] \in Welcome
    BY <1>4 DEF Challenge
  <2>2. r[i].key.joiner \in Nat
    BY <2>1 DEF Welcome, Key, Draw
  <2>3. QED
    BY <1>1, <1>4, <2>2 DEF Linked, WelcomesAreSeated
<1>5. QED
  BY <1>3, <1>4 DEF Linked, WelcomesAreSeated

(* A frame taken off the client's queue leaves the rest as they were.      *)
LEMMA TailStaysSeated ==
    ASSUME NEW cl, NEW key, NEW half, NEW r \in Seq(Challenge \union Welcome),
           r # <<>>, WelcomesAreSeated(cl, key, half, r)
    PROVE  WelcomesAreSeated(cl, key, half, Tail(r))
<1>1. /\ Len(r) \in Nat \ {0} /\ Len(Tail(r)) = Len(r) - 1
      /\ \A i \in 1 .. Len(r) - 1 : i + 1 \in 1 .. Len(r) /\ Tail(r)[i] = r[i + 1]
  OBVIOUS
<1>2. QED
  BY <1>1 DEF WelcomesAreSeated

(* Once the server has taken a hello, the hellos behind it are of the same *)
(* join or a later one.                                                    *)
LEMMA TailAscends ==
    ASSUME NEW cl, NEW half, NEW next, NEW q \in Seq(Hello), q # <<>>,
           HellosAscend(cl, half, q), next.joiner \in {half.joiner, Head(q).joiner}
    PROVE  HellosAscend(cl, next, Tail(q))
<1>1. /\ Len(q) \in Nat \ {0} /\ Len(Tail(q)) = Len(q) - 1
      /\ \A i \in 1 .. Len(q) - 1 : i + 1 \in 1 .. Len(q) /\ Tail(q)[i] = q[i + 1]
      /\ Head(q) = q[1] /\ 1 \in 1 .. Len(q)
  OBVIOUS
<1>2. \A i \in 1 .. Len(q) : q[1].joiner <= q[i].joiner
  BY <1>1 DEF HellosAscend
<1>3. \A i, j \in 1 .. Len(q) - 1 : i <= j => i + 1 <= j + 1
  BY <1>1
<1>4. QED
  BY <1>1, <1>2, <1>3 DEF HellosAscend

(* handle_hello, whichever of its legs a hello takes: what the client is   *)
(* synced on, or about to be, is what the server has or seats again.       *)
LEMMA HelloKeepsTheLink ==
    ASSUME NEW cl \in Client, NEW key, NEW half \in PendingJoin,
           NEW q \in Seq(Hello), q # <<>>, NEW r \in Seq(Challenge \union Welcome),
           Linked(cl, key, half, q, r), NEW next \in PendingJoin,
           next.joiner = Head(q).joiner,
           half.joiner = Head(q).joiner => next = half,
           NEW k, k = SessionKey(Head(q), next.acceptor)
    PROVE  /\ Linked(cl, key, half, Tail(q), r)
           /\ Linked(cl, key, next, Tail(q), r)
           /\ \A m \in Challenge : Linked(cl, key, next, Tail(q), Append(r, m))
           /\ \A m \in Welcome :
                 m.key = k => Linked(cl, k, next, Tail(q), Append(r, m))
<1> DEFINE h == Head(q)
<1>1. h \in Hello /\ h = q[1] /\ 1 \in 1 .. Len(q)
  OBVIOUS
<1>2. /\ 1 <= h.joiner /\ half.joiner <= h.joiner /\ h.joiner <= cl.joiner
      /\ h.joiner = cl.joiner => h.offer = (cl.pin # "none")
  BY <1>1 DEF Linked, HellosAscend
<1>3. h.joiner \in Nat /\ half.joiner \in Nat /\ cl.joiner \in Nat
  BY <1>1 DEF Hello, PendingJoin, Client, Draw
<1>4. k.joiner = h.joiner
  BY DEF SessionKey
<1>5. h.joiner = cl.joiner => k = KeyFor(cl, next.acceptor)
  BY <1>2 DEF SessionKey, KeyFor
<1>6. half.joiner = cl.joiner => h.joiner = cl.joiner /\ next = half
  BY <1>2, <1>3
<1> HIDE DEF h
<1>7. \A x : Seated(cl, key, half, x) =>
                Seated(cl, key, next, x) /\ Seated(cl, k, next, x)
  BY <1>5, <1>6 DEF Seated
<1>8. h.joiner = cl.joiner => Seated(cl, k, next, k)
  BY <1>5 DEF Seated, h
<1>9. HellosAscend(cl, half, Tail(q)) /\ HellosAscend(cl, next, Tail(q))
  BY TailAscends DEF Linked
<1>10. /\ cl.synced => /\ Seated(cl, key, half, cl.key) /\ Seated(cl, key, next, cl.key)
                       /\ Seated(cl, k, next, cl.key)
       /\ WelcomesAreSeated(cl, key, half, r) /\ WelcomesAreSeated(cl, key, next, r)
       /\ WelcomesAreSeated(cl, k, next, r)
  BY <1>7 DEF Linked, WelcomesAreSeated
<1>11. ASSUME NEW m \in Challenge \union Welcome
       PROVE  /\ Len(Append(r, m)) = Len(r) + 1 /\ Len(r) \in Nat
              /\ \A i \in 1 .. Len(r) : Append(r, m)[i] = r[i]
              /\ Append(r, m)[Len(r) + 1] = m
              /\ \A i \in 1 .. Len(r) + 1 : i \in 1 .. Len(r) \/ i = Len(r) + 1
  OBVIOUS
<1>12. ASSUME NEW m \in Challenge
       PROVE  WelcomesAreSeated(cl, key, next, Append(r, m))
  <2>1. m.kind # "welcome"
    BY DEF Challenge
  <2>2. QED
    BY <1>10, <1>11, <2>1 DEF WelcomesAreSeated
<1>13. ASSUME NEW m \in Welcome, m.key = k
       PROVE  WelcomesAreSeated(cl, k, next, Append(r, m))
  <2>1. /\ 1 <= m.key.joiner /\ m.key.joiner <= cl.joiner
        /\ m.key.joiner = cl.joiner => Seated(cl, k, next, m.key)
    BY <1>2, <1>4, <1>8, <1>13
  <2>2. QED
    BY <1>10, <1>11, <2>1 DEF WelcomesAreSeated
<1>14. QED
  BY <1>9, <1>10, <1>12, <1>13 DEF Linked

(* A welcome that opens is of the client's own join, and what it was       *)
(* sealed with is what the server has.                                     *)
LEMMA WelcomeIsSeated ==
    ASSUME NEW cl \in Client, NEW key, NEW half, NEW drawn,
           NEW r \in Seq(Challenge \union Welcome), r # <<>>, Head(r).kind = "welcome",
           HalfIsDrawn(cl, drawn), WelcomesAreSeated(cl, key, half, r),
           Opens(cl, Head(r))
    PROVE  Seated(cl, key, half, cl.key)
<1>1. Head(r) = r[1] /\ 1 \in 1 .. Len(r)
  OBVIOUS
<1>2. 1 <= cl.key.joiner
  BY <1>1 DEF WelcomesAreSeated, Opens
<1>3. cl.key.joiner = cl.joiner
  BY <1>2 DEF HalfIsDrawn
<1>4. QED
  BY <1>1, <1>3 DEF WelcomesAreSeated, Opens

-----------------------------------------------------------------------------
(* The link of each client, action by action.                              *)

(* A step that touches neither a client nor its connection keeps its link. *)
LEMMA QuietKeepsTheLink ==
    ASSUME TypeOK, NEW p \in Player, HasJoined(p),
           client'[p] = client[p], joins' \in Nat, joins <= joins',
           LET c == client[p].conn IN
           c # 0 /\ c \in open' =>
              /\ c \in open /\ peers'[c].key = peers[c].key
              /\ challenges'[c] = challenges[c]
              /\ toServer'[c] = toServer[c] /\ toClient'[c] = toClient[c]
    PROVE  HasJoined(p)'
<1>1. client[p].joiner \in Nat /\ joins \in Nat
  BY DEF TypeOK, Client, Draw
<1>2. HalfIsDrawn(client[p], joins) => HalfIsDrawn(client[p], joins')
  BY <1>1 DEF HalfIsDrawn
<1>3. QED
  BY <1>2 DEF HasJoined

(* start() on a new connection: its one hello, and nothing else in flight. *)
LEMMA JoinLinks ==
    ASSUME TypeOK, NothingOutlives, KeyInv, NEW p \in Player, NEW c \in Conn,
           Join(p, c)
    PROVE  KeyInv'
<1>1. PICK s \in Claims[p], pin \in Pins[p] :
         /\ client' = [client EXCEPT ![p] = Started(p, c, s, pin)]
         /\ toServer' = [toServer EXCEPT ![c] = <<HelloOf(client'[p])>>]
  BY DEF Join
<1> DEFINE new == Started(p, c, s, pin)
<1>2. /\ c \notin open /\ ~ Listening(c) /\ open' = open \union {c}
      /\ joins' = joins + 1 /\ joins \in Nat
      /\ UNCHANGED <<peers, challenges, toClient>> /\ c # 0
  BY SessionAssumption DEF Join, TypeOK, Draw
<1>3. new \in Client
  BY StartedShape
<1>4. /\ client'[p] = new /\ \A o \in Player \ {p} : client'[o] = client[o]
      /\ toServer'[c] = <<HelloOf(new)>>
      /\ \A d \in Conn \ {c} : toServer'[d] = toServer[d]
  BY <1>1, <1>3 DEF TypeOK
<1>5. new.conn = c /\ new.joiner = joins + 1 /\ new.key.joiner = 0 /\ ~ new.synced
  BY DEF Started, NoKey
<1>6. HelloOf(new).joiner = joins + 1 /\ HelloOf(new).offer = (new.pin # "none")
  BY <1>5 DEF HelloOf
<1> HIDE DEF new
<1>7. ConnsAreApart'
  <2>1. \A o \in Player : client[o].conn # c
    BY <1>2 DEF Listening
  <2>2. \A d \in Conn : Listening(d) => Listening(d)'
    <3>1. client[p].conn = 0
      BY DEF Join
    <3>2. QED
      BY <1>4, <3>1, SessionAssumption DEF Listening
  <2>3. QED
    BY <1>2, <1>4, <1>5, <2>1, <2>2 DEF KeyInv, ConnsAreApart
<1>8. HasJoined(p)'
  <2>1. challenges[c].joiner = 0 /\ toClient[c] = <<>>
    BY <1>2 DEF NothingOutlives, NoJoin, KeyInv, ConnsAreApart
  <2>2. HalfIsDrawn(new, joins + 1)
    BY <1>2, <1>5 DEF HalfIsDrawn
  <2>3. HellosAscend(new, challenges[c], <<HelloOf(new)>>)
    BY <1>2, <1>5, <1>6, <2>1 DEF HellosAscend
  <2>4. WelcomesAreSeated(new, peers[c].key, challenges[c], <<>>)
    BY DEF WelcomesAreSeated
  <2>5. QED
    BY <1>2, <1>4, <1>5, <2>1, <2>2, <2>3, <2>4 DEF HasJoined, Linked
<1>9. ASSUME NEW o \in Player \ {p} PROVE HasJoined(o)'
  <2>1. client[o].conn # c /\ client[o].conn \in Conn \union {0}
    BY <1>2 DEF Listening, TypeOK, Client
  <2>2. HasJoined(o)
    BY DEF KeyInv
  <2>3. QED
    BY <1>2, <1>4, <2>1, <2>2, QuietKeepsTheLink
<1>10. QED
  BY <1>7, <1>8, <1>9 DEF KeyInv

(* What the frames of one client's link do to the others: nothing.         *)
LEMMA OthersKeepTheirLink ==
    ASSUME TypeOK, KeyInv, NEW p \in Player, client[p].conn # 0,
           \A o \in Player \ {p} : client'[o] = client[o],
           client'[p].conn = client[p].conn,
           joins' \in Nat, joins <= joins', UNCHANGED <<open, peers, challenges>>,
           \A d \in Conn \ {client[p].conn} :
              toServer'[d] = toServer[d] /\ toClient'[d] = toClient[d]
    PROVE  ConnsAreApart' /\ \A o \in Player \ {p} : HasJoined(o)'
<1>1. \A o \in Player : client'[o].conn = client[o].conn
  OBVIOUS
<1>2. \A d \in Conn : Listening(d)' = Listening(d)
  BY <1>1 DEF Listening
<1>3. ConnsAreApart'
  <2>1. ASSUME NEW d \in Conn, ~ Listening(d)' PROVE toClient'[d] = <<>>
    <3>1. ~ Listening(d) /\ d # client[p].conn
      BY <1>2, <2>1 DEF Listening
    <3>2. QED
      BY <3>1 DEF KeyInv, ConnsAreApart
  <2>2. QED
    BY <1>1, <2>1 DEF KeyInv, ConnsAreApart
<1>4. ASSUME NEW o \in Player \ {p} PROVE HasJoined(o)'
  <2>1. client'[o] = client[o] /\ client[o].conn \in Conn \union {0}
    BY DEF TypeOK, Client
  <2>2. client[o].conn # 0 => client[o].conn # client[p].conn
    BY DEF KeyInv, ConnsAreApart
  <2>3. HasJoined(o)
    BY DEF KeyInv
  <2>4. QED
    BY <2>1, <2>2, <2>3, QuietKeepsTheLink
<1>5. QED
  BY <1>3, <1>4

(* start() on a live connection: the link is that of the new join.         *)
LEMMA RestartLinks ==
    ASSUME TypeOK, KeyInv, NEW p \in Player, Restart(p) PROVE KeyInv'
<1> DEFINE c == client[p].conn
<1>1. PICK s \in Claims[p], pin \in Pins[p] :
         /\ client' = [client EXCEPT ![p] = Started(p, c, s, pin)]
         /\ toServer' = IF c \in open
                        THEN [toServer EXCEPT ![c] = Append(@, HelloOf(client'[p]))]
                        ELSE toServer
  BY DEF Restart
<1> DEFINE new == Started(p, c, s, pin)
<1>2. /\ c \in Conn /\ c # 0 /\ joins' = joins + 1 /\ joins \in Nat
      /\ UNCHANGED <<open, peers, challenges, toClient>>
      /\ client[p] \in Client /\ client'[p] = new
  BY <1>1 DEF Restart, TypeOK, Client, Draw
<1>3. new \in Client
  BY <1>2, StartedShape
<1>4. new.conn = c /\ new.joiner = joins + 1 /\ new.key.joiner = 0 /\ ~ new.synced
  BY DEF Started, NoKey
<1>5. toServer' \in {toServer, [toServer EXCEPT ![c] = Append(toServer[c], HelloOf(new))]}
  BY <1>1, <1>2
<1>6. HalfIsDrawn(client[p], joins)
  BY <1>2 DEF KeyInv, HasJoined
<1>7. client[p].joiner \in Nat /\ client[p].joiner < new.joiner
  BY <1>2, <1>4, <1>6 DEF HalfIsDrawn, Client, Draw
<1>8. c \in open => toServer'[c] = Append(toServer[c], HelloOf(new))
  BY <1>1, <1>2 DEF TypeOK
<1>9. client' = [client EXCEPT ![p] = new]
  BY <1>1
<1> HIDE DEF new
<1>10. ConnsAreApart' /\ \A o \in Player \ {p} : HasJoined(o)'
  <2>1. /\ \A o \in Player \ {p} : client'[o] = client[o]
        /\ client'[p].conn = client[p].conn
    BY <1>2, <1>4, <1>9 DEF TypeOK
  <2>2. \A d \in Conn \ {c} : toServer'[d] = toServer[d] /\ toClient'[d] = toClient[d]
    BY <1>2, <1>5 DEF TypeOK
  <2>3. joins' \in Nat /\ joins <= joins'
    BY <1>2
  <2>4. QED
    BY <1>2, <2>1, <2>2, <2>3, OthersKeepTheirLink
<1>11. HasJoined(p)'
  <2>1. HalfIsDrawn(new, joins + 1)
    BY <1>2, <1>4 DEF HalfIsDrawn
  <2>2. ASSUME c \in open
        PROVE  Linked(new, peers[c].key, challenges[c], toServer'[c], toClient[c])
    <3>1. Linked(client[p], peers[c].key, challenges[c], toServer[c], toClient[c])
      BY <1>2, <2>2 DEF KeyInv, HasJoined
    <3>2. /\ challenges[c] \in PendingJoin /\ toServer[c] \in Seq(Hello)
          /\ toClient[c] \in Seq(Challenge \union Welcome)
      BY <1>2 DEF TypeOK
    <3>3. Linked(new, peers[c].key, challenges[c], toServer[c], toClient[c])
      BY <1>2, <1>3, <1>4, <1>7, <3>1, <3>2, RestartIsAhead
    <3>4. 1 <= new.joiner
      BY <1>2, <1>4
    <3>5. HellosAscend(new, challenges[c], toServer'[c])
      BY <1>3, <1>8, <2>2, <3>2, <3>3, <3>4, HelloComesLast DEF Linked
    <3>6. QED
      BY <3>3, <3>5 DEF Linked
  <2>3. QED
    BY <1>2, <1>4, <2>1, <2>2 DEF HasJoined
<1>12. QED
  BY <1>10, <1>11 DEF KeyInv

(* The retry timer adds one more hello of the same join.                   *)
LEMMA RetryLinks ==
    ASSUME TypeOK, KeyInv, NEW p \in Player, RetryHello(p) PROVE KeyInv'
<1> DEFINE c == client[p].conn
           q == Append(toServer[c], HelloOf(client[p]))
<1>1. /\ c \in Conn /\ c # 0 /\ c \in open /\ joins' = joins /\ joins \in Nat
      /\ UNCHANGED <<client, open, peers, challenges, toClient>>
      /\ client[p] \in Client
  BY DEF RetryHello, TypeOK, Client, Draw
<1>2. toServer' = [toServer EXCEPT ![c] = q]
  BY DEF RetryHello
<1>3. HalfIsDrawn(client[p], joins)
         /\ Linked(client[p], peers[c].key, challenges[c], toServer[c], toClient[c])
  BY <1>1 DEF KeyInv, HasJoined
<1>4. HellosAscend(client[p], challenges[c], q)
  BY <1>1, <1>3, HelloComesLast DEF HalfIsDrawn, Linked, TypeOK
<1>5. toServer'[c] = q
  BY <1>1, <1>2 DEF TypeOK
<1> HIDE DEF q
<1>6. ConnsAreApart' /\ \A o \in Player \ {p} : HasJoined(o)'
  <2>1. \A d \in Conn \ {c} : toServer'[d] = toServer[d] /\ toClient'[d] = toClient[d]
    BY <1>1, <1>2 DEF TypeOK
  <2>2. QED
    BY <1>1, <2>1, OthersKeepTheirLink
<1>7. HasJoined(p)'
  BY <1>1, <1>3, <1>4, <1>5 DEF HasJoined, Linked
<1>8. QED
  BY <1>6, <1>7 DEF KeyInv

(* A client that leaves takes what was on its way to it along.             *)
LEMMA LeaveUnlinks ==
    ASSUME TypeOK, KeyInv, NEW p \in Player, Leave(p) PROVE KeyInv'
<1> DEFINE c == client[p].conn
<1>1. /\ c \in Conn /\ c # 0 /\ joins' = joins /\ joins \in Nat
      /\ UNCHANGED <<open, peers, challenges, toServer>>
      /\ client' = [client EXCEPT ![p] = Stopped(client[p].token)]
      /\ toClient' = [toClient EXCEPT ![c] = <<>>]
  BY DEF Leave, TypeOK, Client, Draw
<1>2. /\ client'[p].conn = 0 /\ \A o \in Player \ {p} : client'[o] = client[o]
      /\ toClient'[c] = <<>> /\ \A d \in Conn \ {c} : toClient'[d] = toClient[d]
  BY <1>1 DEF TypeOK, Stopped
<1>3. \A o \in Player \ {p} : client[o].conn # c
  BY <1>1 DEF KeyInv, ConnsAreApart
<1>4. ConnsAreApart'
  <2>1. ASSUME NEW d \in Conn, ~ Listening(d)' PROVE toClient'[d] = <<>>
    <3>1. CASE d = c
      BY <1>2, <3>1
    <3>2. CASE d # c
      <4>1. ~ Listening(d)
        BY <1>2, <2>1, <3>2 DEF Listening
      <4>2. QED
        BY <1>2, <3>2, <4>1 DEF KeyInv, ConnsAreApart
    <3>3. QED
      BY <3>1, <3>2
  <2>2. ASSUME NEW o \in Player, NEW u \in Player, client'[o].conn # 0,
               client'[o].conn = client'[u].conn
        PROVE  o = u
    <3>1. o # p /\ u # p
      BY <1>2, <2>2
    <3>2. QED
      BY <1>2, <2>2, <3>1 DEF KeyInv, ConnsAreApart
  <2>3. QED
    BY <2>1, <2>2 DEF ConnsAreApart
<1>5. ASSUME NEW o \in Player \ {p} PROVE HasJoined(o)'
  <2>1. client[o].conn \in Conn \union {0} /\ HasJoined(o)
    BY DEF TypeOK, Client, KeyInv
  <2>2. QED
    BY <1>1, <1>2, <1>3, <2>1, QuietKeepsTheLink
<1>6. HasJoined(p)'
  BY <1>2 DEF HasJoined
<1>7. QED
  BY <1>4, <1>5, <1>6 DEF KeyInv

(* challenge_answer: a challenge is ignored, or its key adopted before the *)
(* welcome that would seal the join.                                       *)
LEMMA ChallengeLinks ==
    ASSUME TypeOK, KeyInv, NEW p \in Player, HandleChallenge(p) PROVE KeyInv'
<1> DEFINE c == client[p].conn
           m == Head(toClient[c])
           answered == [client[p] EXCEPT !.key = Adopted(p, m)]
           r == Tail(toClient[c])
<1>1. /\ c \in Conn /\ c # 0 /\ joins' = joins /\ joins \in Nat
      /\ UNCHANGED <<open, peers, challenges>>
      /\ client[p] \in Client
      /\ toClient[c] \in Seq(Challenge \union Welcome) /\ toClient[c] # <<>>
      /\ toServer[c] \in Seq(Hello) /\ challenges[c] \in PendingJoin
  BY DEF HandleChallenge, TypeOK, Client, Draw
<1>2. toClient' = [toClient EXCEPT ![c] = r]
  BY DEF HandleChallenge
<1>3. toClient'[c] = r
  BY <1>1, <1>2 DEF TypeOK
<1>4. /\ HalfIsDrawn(client[p], joins)
      /\ c \in open =>
            Linked(client[p], peers[c].key, challenges[c], toServer[c], toClient[c])
  BY <1>1 DEF KeyInv, HasJoined
<1>5. CASE UNCHANGED <<client, toServer>>
  <2>1. HasJoined(p)'
    BY <1>1, <1>3, <1>4, <1>5, TailStaysSeated DEF HasJoined, Linked
  <2>2. \A d \in Conn \ {c} : toServer'[d] = toServer[d] /\ toClient'[d] = toClient[d]
    BY <1>1, <1>2, <1>5 DEF TypeOK
  <2>3. ConnsAreApart' /\ \A o \in Player \ {p} : HasJoined(o)'
    BY <1>1, <1>5, <2>2, OthersKeepTheirLink
  <2>4. QED
    BY <2>1, <2>3 DEF KeyInv
<1>6. CASE ~ UNCHANGED <<client, toServer>>
  <2>1. /\ ~ Ignored(client[p], m)
        /\ client' = [client EXCEPT ![p] = answered]
        /\ toServer' = IF c \in open
                       THEN [toServer EXCEPT ![c] = Append(@, HelloOf(answered))]
                       ELSE toServer
    BY <1>6 DEF HandleChallenge
  <2>2. m \in Challenge
    <3>1. m \in Challenge \union Welcome /\ m.kind = "challenge"
      BY <1>1 DEF HandleChallenge
    <3>2. QED
      BY <3>1 DEF Welcome
  <2>3. Adopted(p, m) \in Key
    BY <1>1, <2>2, SessionAssumption DEF Adopted, Key, Challenge, Client, Secret
  <2>4. /\ answered \in Client /\ answered.conn = c /\ ~ answered.synced
        /\ answered.joiner = client[p].joiner /\ answered.pin = client[p].pin
        /\ answered.key.joiner = client[p].joiner
    BY <1>1, <2>1, <2>3 DEF Client, Ignored, Adopted
  <2>5. HalfIsDrawn(answered, joins)
    BY <1>4, <2>4 DEF HalfIsDrawn
  <2>6. \A key, half, k : Seated(client[p], key, half, k) => Seated(answered, key, half, k)
    BY <2>4 DEF Seated, KeyFor
  <2> DEFINE q == Append(toServer[c], HelloOf(answered))
  <2>7. c \in open => toServer'[c] = q
    BY <1>1, <2>1 DEF TypeOK
  <2>8. toServer' \in {toServer, [toServer EXCEPT ![c] = q]}
    BY <2>1
  <2> HIDE DEF answered
  <2>9. ASSUME c \in open
        PROVE  Linked(answered, peers[c].key, challenges[c], q, Tail(toClient[c]))
    <3>1. HellosAscend(answered, challenges[c], toServer[c])
      BY <1>4, <2>4, <2>9 DEF Linked, HellosAscend
    <3>2. HellosAscend(answered, challenges[c], q)
      BY <1>1, <2>4, <2>5, <3>1, HelloComesLast DEF HalfIsDrawn
    <3>3. WelcomesAreSeated(client[p], peers[c].key, challenges[c], Tail(toClient[c]))
      BY <1>1, <1>4, <2>9, TailStaysSeated DEF Linked
    <3>4. WelcomesAreSeated(answered, peers[c].key, challenges[c], Tail(toClient[c]))
      BY <2>4, <2>6, <3>3 DEF WelcomesAreSeated
    <3>5. QED
      BY <2>4, <3>2, <3>4 DEF Linked
  <2> HIDE DEF q
  <2>10. client'[p] = answered
    BY <1>1, <2>1 DEF TypeOK
  <2>11. HasJoined(p)'
    BY <1>1, <1>3, <2>4, <2>5, <2>7, <2>9, <2>10 DEF HasJoined
  <2>12. /\ \A o \in Player \ {p} : client'[o] = client[o]
         /\ client'[p].conn = client[p].conn
    BY <2>1, <2>4, <2>10 DEF TypeOK
  <2>13. ConnsAreApart' /\ \A o \in Player \ {p} : HasJoined(o)'
    <3>1. \A d \in Conn \ {c} : toServer'[d] = toServer[d] /\ toClient'[d] = toClient[d]
      BY <1>1, <1>2, <2>8 DEF TypeOK
    <3>2. QED
      BY <1>1, <2>12, <3>1, OthersKeepTheirLink
  <2>14. QED
    BY <2>11, <2>13 DEF KeyInv
<1>7. QED
  BY <1>5, <1>6

(* integrate_welcome: a welcome that opens leaves the client synced on the *)
(* server's key.                                                           *)
LEMMA WelcomeLinks ==
    ASSUME TypeOK, KeyInv, NEW p \in Player, IntegrateWelcome(p) PROVE KeyInv'
<1> DEFINE c == client[p].conn
           m == Head(toClient[c])
           t == IF m.token # 0 THEN m.token ELSE client[p].token
           welcomed == [client[p] EXCEPT !.synced = TRUE, !.token = t]
           cl == client'[p]
           r == Tail(toClient[c])
<1>1. /\ c \in Conn /\ c # 0 /\ joins' = joins /\ joins \in Nat
      /\ UNCHANGED <<open, peers, challenges, toServer>>
      /\ client[p] \in Client
      /\ toClient[c] \in Seq(Challenge \union Welcome) /\ toClient[c] # <<>>
      /\ m.kind = "welcome"
  BY DEF IntegrateWelcome, TypeOK, Client, Draw
<1>2. toClient' = [toClient EXCEPT ![c] = r]
  BY DEF IntegrateWelcome
<1>3. toClient'[c] = r
  BY <1>1, <1>2 DEF TypeOK
<1>4. /\ HalfIsDrawn(client[p], joins)
      /\ c \in open =>
            Linked(client[p], peers[c].key, challenges[c], toServer[c], toClient[c])
  BY <1>1 DEF KeyInv, HasJoined
<1>5. \/ client' = client
      \/ client' = [client EXCEPT ![p] = welcomed] /\ Opens(client[p], m)
  BY DEF IntegrateWelcome, TypeOK, Client
<1>6. /\ cl.conn = c /\ cl.joiner = client[p].joiner /\ cl.pin = client[p].pin
      /\ cl.key = client[p].key
      /\ cl.synced => client[p].synced \/ Opens(client[p], m)
  <2> HIDE DEF t
  <2>1. /\ welcomed.conn = c /\ welcomed.joiner = client[p].joiner
        /\ welcomed.pin = client[p].pin /\ welcomed.key = client[p].key
    BY <1>1 DEF Client
  <2> HIDE DEF welcomed
  <2>2. cl = client[p] \/ (cl = welcomed /\ Opens(client[p], m))
    BY <1>5 DEF TypeOK
  <2>3. QED
    BY <2>1, <2>2
<1>7. client' \in {client, [client EXCEPT ![p] = cl]}
  BY <1>1, <1>5 DEF TypeOK
<1> HIDE DEF cl, m
<1>8. \A key, half, k : Seated(client[p], key, half, k) => Seated(cl, key, half, k)
  BY <1>6 DEF Seated, KeyFor
<1>9. ASSUME c \in open
      PROVE  Linked(cl, peers[c].key, challenges[c], toServer[c], Tail(toClient[c]))
  <2>1. HellosAscend(cl, challenges[c], toServer[c])
    BY <1>4, <1>6, <1>9 DEF Linked, HellosAscend
  <2>2. WelcomesAreSeated(client[p], peers[c].key, challenges[c], Tail(toClient[c]))
    BY <1>1, <1>4, <1>9, TailStaysSeated DEF Linked
  <2>3. WelcomesAreSeated(cl, peers[c].key, challenges[c], Tail(toClient[c]))
    BY <1>6, <1>8, <2>2 DEF WelcomesAreSeated
  <2>4. Opens(client[p], m) => Seated(client[p], peers[c].key, challenges[c], client[p].key)
    BY <1>1, <1>4, <1>9, WelcomeIsSeated DEF Linked, m
  <2>5. cl.synced => Seated(cl, peers[c].key, challenges[c], cl.key)
    BY <1>4, <1>6, <1>8, <1>9, <2>4 DEF Linked
  <2>6. QED
    BY <2>1, <2>3, <2>5 DEF Linked
<1>10. HasJoined(p)'
  <2>1. HalfIsDrawn(cl, joins)
    BY <1>4, <1>6 DEF HalfIsDrawn
  <2>2. QED
    BY <1>1, <1>3, <1>6, <1>9, <2>1 DEF HasJoined, cl
<1>11. /\ \A o \in Player \ {p} : client'[o] = client[o]
       /\ \A d \in Conn \ {c} : toServer'[d] = toServer[d] /\ toClient'[d] = toClient[d]
  BY <1>1, <1>2, <1>7 DEF TypeOK
<1>12. ConnsAreApart' /\ \A o \in Player \ {p} : HasJoined(o)'
  BY <1>1, <1>6, <1>11, OthersKeepTheirLink DEF cl
<1>13. QED
  BY <1>10, <1>12 DEF KeyInv

(* handle_hello keeps the link of the client it is from, and of the others.*)
LEMMA HelloLinks ==
    ASSUME TypeOK, KeyInv, NEW c \in Conn, HandleHello(c) PROVE KeyInv'
<1> DEFINE h       == Head(toServer[c])
           pending == ChallengeHalf(c, h)
           key     == SessionKey(h, pending.acceptor)
           ch      == [kind |-> "challenge", joiner |-> h.joiner,
                       acceptor |-> pending.acceptor,
                       exchange |-> ServerStatic /\ h.offer]
           w       == [kind |-> "welcome", key |-> key, token |-> SeatToken(c, h)]
<1>1. /\ h \in Hello /\ c \in open /\ toServer[c] # <<>> /\ toServer[c] \in Seq(Hello)
      /\ toClient[c] \in Seq(Challenge \union Welcome) /\ challenges[c] \in PendingJoin
  BY HeadIsHello DEF HandleHello, TypeOK
<1>2. pending \in PendingJoin
  BY <1>1, ChallengeHalfShape
<1>3. key \in Key /\ ch \in Challenge /\ w \in Welcome
  <2>1. key \in Key
    BY <1>1, <1>2, SessionKeyShape DEF PendingJoin
  <2>2. ch \in Challenge
    BY <1>1, <1>2, SessionAssumption DEF Challenge, PendingJoin, Hello
  <2>3. SeatToken(c, h) \in Draw
    BY <1>1, TokenShape
  <2> HIDE DEF key
  <2>4. QED
    BY <2>1, <2>2, <2>3 DEF Welcome
<1>4. /\ pending.joiner = h.joiner
      /\ challenges[c].joiner = h.joiner => pending = challenges[c]
      /\ w.key = key
  BY DEF ChallengeHalf
<1>5. /\ UNCHANGED <<client, open, joins>> /\ joins \in Nat
      /\ toServer' = [toServer EXCEPT ![c] = Tail(toServer[c])]
  BY DEF HandleHello, TypeOK, Draw
<1>6. /\ \/ UNCHANGED <<peers, challenges, toClient>>
         \/ /\ challenges' = [challenges EXCEPT ![c] = pending]
            /\ \/ UNCHANGED peers /\ toClient' = toClient
               \/ /\ UNCHANGED peers /\ Listening(c)
                  /\ toClient' = [toClient EXCEPT ![c] = Append(toClient[c], ch)]
               \/ /\ ~ Listening(c) /\ toClient' = toClient
                  /\ SeatHello(c, h, key)
               \/ /\ Listening(c)
                  /\ toClient' = [toClient EXCEPT ![c] = Append(toClient[c], w)]
                  /\ SeatHello(c, h, key)
  BY DEF HandleHello, SeatHello
<1>7. /\ \A d \in Conn \ {c} :
            /\ peers'[d].key = peers[d].key /\ challenges'[d] = challenges[d]
            /\ toServer'[d] = toServer[d] /\ toClient'[d] = toClient[d]
      /\ toServer'[c] = Tail(toServer[c])
      /\ ~ Listening(c) => toClient' = toClient
      /\ \/ /\ challenges'[c] = challenges[c] /\ peers'[c].key = peers[c].key
            /\ toClient'[c] = toClient[c]
         \/ /\ challenges'[c] = pending /\ peers'[c].key = peers[c].key
            /\ toClient'[c] \in {toClient[c], Append(toClient[c], ch)}
         \/ /\ challenges'[c] = pending /\ peers'[c].key = key
            /\ Listening(c) => toClient'[c] = Append(toClient[c], w)
  <2> HIDE DEF h, pending, key, ch, w
  <2>1. toServer'[c] = Tail(toServer[c]) /\ \A d \in Conn \ {c} : toServer'[d] = toServer[d]
    BY <1>5 DEF TypeOK
  <2>2. ASSUME SeatHello(c, h, key)
        PROVE  peers'[c].key = key /\ \A d \in Conn \ {c} : peers'[d].key = peers[d].key
    BY <2>2 DEF SeatHello, TypeOK, Peer
  <2>3. QED
    BY <1>6, <2>1, <2>2 DEF TypeOK
<1> HIDE DEF h, pending, key, ch, w
<1>8. ConnsAreApart'
  <2>1. ASSUME NEW d \in Conn, ~ Listening(d)' PROVE toClient'[d] = <<>>
    <3>1. ~ Listening(d) /\ toClient[d] = <<>>
      BY <1>5, <2>1 DEF Listening, KeyInv, ConnsAreApart
    <3>2. QED
      BY <1>7, <3>1
  <2>2. QED
    BY <1>5, <2>1 DEF KeyInv, ConnsAreApart
<1>9. ASSUME NEW p \in Player PROVE HasJoined(p)'
  <2>1. HasJoined(p) /\ client[p] \in Client /\ client[p].conn \in Conn \union {0}
    BY DEF KeyInv, TypeOK, Client
  <2>2. CASE client[p].conn # c
    <3>1. client[p].conn # 0 => client[p].conn \in Conn \ {c}
      BY <2>1, <2>2
    <3>2. QED
      BY <1>5, <1>7, <2>1, <3>1, QuietKeepsTheLink
  <2>3. CASE client[p].conn = c
    <3>1. Listening(c) /\ c # 0
      BY <2>3, SessionAssumption DEF Listening
    <3>2. /\ HalfIsDrawn(client[p], joins)
          /\ Linked(client[p], peers[c].key, challenges[c], toServer[c], toClient[c])
      BY <1>1, <2>1, <2>3, <3>1 DEF HasJoined
    <3>3. /\ Linked(client[p], peers[c].key, challenges[c], Tail(toServer[c]), toClient[c])
          /\ Linked(client[p], peers[c].key, pending, Tail(toServer[c]), toClient[c])
          /\ \A m \in Challenge : Linked(client[p], peers[c].key, pending,
                                         Tail(toServer[c]), Append(toClient[c], m))
          /\ \A m \in Welcome : m.key = key =>
                Linked(client[p], key, pending, Tail(toServer[c]), Append(toClient[c], m))
      BY <1>1, <1>2, <1>4, <2>1, <3>2, HelloKeepsTheLink DEF h, key
    <3>4. Linked(client[p], peers'[c].key, challenges'[c], toServer'[c], toClient'[c])
      BY <1>3, <1>4, <1>7, <3>1, <3>3
    <3>5. QED
      BY <1>5, <2>3, <3>2, <3>4 DEF HasJoined
  <2>4. QED
    BY <2>2, <2>3
<1>10. QED
  BY <1>8, <1>9 DEF KeyInv

(* A connection the server's transport has dropped owes its client nothing.*)
LEMMA DropUnlinks ==
    ASSUME TypeOK, KeyInv, NEW c \in Conn, PeerDisconnected(c) PROVE KeyInv'
<1>1. /\ open' = open \ {c} /\ UNCHANGED <<client, toClient, joins>> /\ joins \in Nat
      /\ \A d \in Conn \ {c} : /\ peers'[d] = peers[d] /\ challenges'[d] = challenges[d]
                               /\ toServer'[d] = toServer[d]
  BY DEF PeerDisconnected, ForgetChallenge, TypeOK, Draw
<1>2. ConnsAreApart'
  BY <1>1 DEF KeyInv, ConnsAreApart, Listening
<1>3. ASSUME NEW p \in Player PROVE HasJoined(p)'
  <2>1. HasJoined(p) /\ client[p].conn \in Conn \union {0}
    BY DEF KeyInv, TypeOK, Client
  <2>2. QED
    BY <1>1, <2>1, QuietKeepsTheLink
<1>4. QED
  BY <1>2, <1>3 DEF KeyInv

(* A step keeps every client's link.                                       *)
LEMMA StepKeepsTheLink ==
    ASSUME TypeOK, NothingOutlives, KeyInv, [Next]_vars PROVE KeyInv'
<1>1. CASE \/ StartServer
           \/ \E q \in Settings : SetResumePolicy(q)
           \/ \E s \in Identity : ExpireHeld(s)
           \/ UNCHANGED vars
  <2>1. UNCHANGED <<client, open, peers, challenges, toServer, toClient, joins>>
    BY <1>1 DEF StartServer, SetResumePolicy, ExpireHeld, vars
  <2>2. QED
    BY <2>1 DEF KeyInv, ConnsAreApart, HasJoined, Listening
<1>2. QED
  BY <1>1, JoinLinks, RestartLinks, RetryLinks, LeaveUnlinks, ChallengeLinks,
     WelcomeLinks, HelloLinks, DropUnlinks DEF Next

(* A synced client and the server's row for its connection are on the same *)
(* key, for any clients, connections, pins and secrets: a retried hello    *)
(* cannot rekey the row under a welcome that is on its way, because hellos *)
(* arrive in the order their halves were drawn and one half is drawn for   *)
(* each (handle_hello, challenge_answer, integrate_welcome).               *)
THEOREM KeysAlwaysAgree == Spec => []KeysAgree
<1>1. Init => KeyInv
  <2> SUFFICES ASSUME Init PROVE KeyInv
    OBVIOUS
  <2>1. \A p \in Player : client[p].conn = 0
    BY DEF Init, Stopped
  <2>2. QED
    BY <2>1 DEF Init, KeyInv, ConnsAreApart, HasJoined
<1>2. SessionInv /\ KeyInv /\ [Next]_vars => KeyInv'
  BY StepKeepsTheLink DEF SessionInv
<1>3. TypeOK /\ KeyInv => KeysAgree
  <2> SUFFICES ASSUME TypeOK, KeyInv, NEW p \in Player, client[p].synced,
                      client[p].conn \in open
               PROVE  peers[client[p].conn].key = client[p].key
    BY DEF KeysAgree
  <2>1. client[p].conn # 0
    BY SessionAssumption DEF TypeOK
  <2>2. QED
    BY <2>1 DEF KeyInv, HasJoined, Linked, Seated
<1>4. SessionInv => TypeOK
  BY DEF SessionInv
<1>5. QED
  BY <1>1, <1>2, <1>3, <1>4, SessionInvariance, PTL DEF Spec

-----------------------------------------------------------------------------
(* The token on record.                                                    *)

\* A window that is not open keeps no token.
UnheldIsEmpty == \A s \in Identity : ~ Holds(s) => resume[s].token = 0

(* A step leaves no token in a window that is not open.                    *)
LEMMA StepLeavesNoToken ==
    ASSUME TypeOK, UnheldIsEmpty, [Next]_vars PROVE UnheldIsEmpty'
<1>1. SUFFICES ASSUME NEW s \in Identity, s # 0
               PROVE  \/ resume'[s] = resume[s]
                      \/ resume'[s] = NotHeld
                      \/ resume'[s].peer # 0
  BY SessionAssumption DEF UnheldIsEmpty, Holds, NotHeld
<1>2. ASSUME NEW c \in Conn, HandleHello(c)
      PROVE  resume'[s] = resume[s] \/ resume'[s] = NotHeld
  BY <1>2 DEF HandleHello, SeatHello, TypeOK
<1>3. ASSUME NEW c \in Conn, PeerDisconnected(c)
      PROVE  resume'[s] = resume[s] \/ resume'[s].peer # 0
  BY <1>3, SessionAssumption DEF PeerDisconnected, TypeOK
<1>4. ASSUME NEW x \in Identity, ExpireHeld(x)
      PROVE  resume'[s] = resume[s] \/ resume'[s] = NotHeld
  BY <1>4 DEF ExpireHeld, TypeOK
<1>5. CASE \/ \E p \in Player, c \in Conn : Join(p, c)
           \/ \E p \in Player : Restart(p)
           \/ \E p \in Player : RetryHello(p)
           \/ \E p \in Player : Leave(p)
           \/ \E p \in Player : HandleChallenge(p)
           \/ \E p \in Player : IntegrateWelcome(p)
           \/ StartServer
           \/ \E q \in Settings : SetResumePolicy(q)
           \/ UNCHANGED vars
  BY <1>5 DEF Join, Restart, RetryHello, Leave, HandleChallenge,
              IntegrateWelcome, StartServer, SetResumePolicy, vars
<1>6. QED
  BY <1>2, <1>3, <1>4, <1>5 DEF Next

\* What a step may do to the token on record for s.
KeepsRecord(s) ==
    LET before == RecordOf(s) \ {0}
        after  == RecordOf(s)' \ {0}
    IN  before # {} /\ after # {} =>
          \/ before = after
          \/ \E c \in Conn :
                /\ peers'[c].session = s
                /\ peers[c].token \notin before \union {0}
                /\ toServer[c] # <<>> /\ Head(toServer[c]).token \in before

(* What is on record for an identity: the token of the one connection it   *)
(* is seated on, or of its window, or nothing.                             *)
LEMMA TheRecord ==
    ASSUME SessionInv, UnheldIsEmpty, NEW s \in Identity
    PROVE  /\ \A c \in Conn : peers[c].session = s =>
                 RecordOf(s) \ {0} = {peers[c].token}
           /\ Holds(s) => RecordOf(s) \ {0} = {resume[s].token}
           /\ ~ Holds(s) /\ (\A c \in Conn : peers[c].session # s)
                 => RecordOf(s) \ {0} = {}
<1>1. s # 0
  BY SessionAssumption
<1>2. ASSUME NEW c \in Conn, peers[c].session = s
      PROVE  RecordOf(s) \ {0} = {peers[c].token}
  <2>1. peers[c].token # 0 /\ resume[s].token = 0
    BY <1>1, <1>2 DEF SessionInv, OneHolder, TokensAreOnRecord, UnheldIsEmpty
  <2>2. {d \in Conn : peers[d].session = s} = {c}
    BY <1>2 DEF SessionInv, OneHolder
  <2>3. QED
    BY <2>1, <2>2 DEF RecordOf
<1>3. CASE Holds(s)
  <2>1. resume[s].token # 0 /\ {d \in Conn : peers[d].session = s} = {}
    BY <1>3 DEF SessionInv, OneHolder, TokensAreOnRecord
  <2>2. QED
    BY <1>2, <1>3, <2>1 DEF RecordOf
<1>4. CASE ~ Holds(s)
  <2>1. resume[s].token = 0
    BY <1>4 DEF UnheldIsEmpty
  <2>2. QED
    BY <1>2, <1>4, <2>1 DEF RecordOf
<1>5. QED
  BY <1>3, <1>4

(* A seat leaves the record of its identity as it was, or puts the token   *)
(* of a row that had one in its place; and the other records alone.        *)
LEMMA SeatKeepsRecords ==
    ASSUME SessionInv, UnheldIsEmpty, SessionInv', UnheldIsEmpty',
           NEW c \in Conn, NEW key, toServer[c] # <<>>,
           SeatHello(c, Head(toServer[c]), key), NEW s \in Identity
    PROVE  KeepsRecord(s)
<1> DEFINE h == Head(toServer[c])
           i == SeatedIdentity(c, h)
           token == SeatToken(c, h)
           losers == IF ResumeGrant(c, h) THEN Incumbents(c, h.session) ELSE {}
<1>1. /\ h \in Hello /\ s # 0
      /\ peers \in [Conn -> Peer] /\ resume \in [Identity -> Held]
  BY HeadIsHello, SessionAssumption DEF SessionInv, TypeOK
<1>2. /\ peers'[c] = [key |-> key, session |-> i, token |-> token]
      /\ \A d \in Conn \ {c} :
            peers'[d] = IF d \in losers THEN [peers[d] EXCEPT !.session = 0] ELSE peers[d]
      /\ resume' \in {resume, [resume EXCEPT ![h.session] = NotHeld]}
      /\ ResumeGrant(c, h) /\ Holds(h.session) /\ resume[h.session].token \in {0, h.token}
            => resume' = [resume EXCEPT ![h.session] = NotHeld]
  BY DEF SeatHello
<1>3. i \in {0, h.session}
  BY DEF SeatedIdentity
<1>4. CASE s # h.session
  <2>1. /\ \A d \in Conn \ {c} : peers'[d].session = s => peers'[d] = peers[d]
        /\ \A d \in Conn \ {c} : peers[d].session = s => peers'[d] = peers[d]
        /\ peers'[c].session # s
    <3>1. \A d \in losers : peers[d].session = h.session
      BY DEF Incumbents
    <3>2. \A d \in Conn : [peers[d] EXCEPT !.session = 0].session = 0
      BY <1>1 DEF Peer
    <3> HIDE DEF losers, h, i, token
    <3>3. ASSUME NEW d \in Conn \ {c}
          PROVE  /\ peers'[d].session = s => peers'[d] = peers[d]
                 /\ peers[d].session = s => peers'[d] = peers[d]
      BY <1>1, <1>2, <1>4, <3>1, <3>2
    <3>4. peers'[c].session # s
      BY <1>1, <1>2, <1>3, <1>4
    <3>5. QED
      BY <3>3, <3>4
  <2>2. resume'[s] = resume[s]
    BY <1>1, <1>2, <1>4
  <2>3. CASE peers[c].session = s
    <3>1. resume[s].token = 0 /\ \A d \in Conn \ {c} : peers[d].session # s
      BY <1>1, <2>3 DEF SessionInv, OneHolder, UnheldIsEmpty
    <3>2. {d \in Conn : peers'[d].session = s} = {}
      BY <2>1, <3>1
    <3>3. RecordOf(s)' \ {0} = {}
      BY <2>2, <3>1, <3>2 DEF RecordOf
    <3>4. QED
      BY <3>3 DEF KeepsRecord
  <2>4. CASE peers[c].session # s
    <3>1. /\ {d \in Conn : peers'[d].session = s} = {d \in Conn : peers[d].session = s}
          /\ \A d \in Conn : peers[d].session = s => peers'[d].token = peers[d].token
      BY <2>1, <2>4
    <3>2. RecordOf(s)' = RecordOf(s)
      BY <2>2, <3>1 DEF RecordOf
    <3>3. QED
      BY <3>2 DEF KeepsRecord
  <2>5. QED
    BY <2>3, <2>4
<1>5. CASE s = h.session /\ i = 0
  <2>1. ~ ResumeGrant(c, h) /\ (Incumbents(c, s) # {} \/ Holds(s))
    BY <1>1, <1>5 DEF SeatedIdentity
  <2>2. peers[c].session # s
    BY <1>1, <2>1 DEF SessionInv, OneHolder, Incumbents
  <2>3. resume' = resume /\ \A d \in Conn \ {c} : peers'[d] = peers[d]
    BY <1>2, <2>1 DEF SeatHello
  <2>4. /\ {d \in Conn : peers'[d].session = s} = {d \in Conn : peers[d].session = s}
        /\ \A d \in Conn : peers[d].session = s => peers'[d].token = peers[d].token
    BY <1>1, <1>2, <1>5, <2>2, <2>3
  <2>5. RecordOf(s)' = RecordOf(s)
    BY <2>3, <2>4 DEF RecordOf
  <2>6. QED
    BY <2>5 DEF KeepsRecord
<1>6. CASE s = h.session /\ i = s
  <2>1. peers'[c].session = s /\ peers'[c].token = token
    BY <1>2, <1>6
  <2>2. {d \in Conn : peers'[d].session = s} = {c} /\ resume'[s].token = 0
    BY <2>1 DEF SessionInv, OneHolder, UnheldIsEmpty
  <2>3. RecordOf(s)' \ {0} = {token} \ {0}
    BY <2>1, <2>2 DEF RecordOf
  <2>4. peers[c].token # 0 => token = peers[c].token
    BY DEF SeatToken
  <2>5. CASE peers[c].session = s
    <3>1. RecordOf(s) \ {0} = {peers[c].token} /\ peers[c].token # 0
      BY <1>1, <2>5, TheRecord DEF SessionInv, TokensAreOnRecord
    <3>2. QED
      BY <2>3, <2>4, <3>1 DEF KeepsRecord
  <2>6. ASSUME NEW t, RecordOf(s) \ {0} = {t}, t # 0, TokenOnRecord(c, s) = t,
               ResumeGrant(c, h)
        PROVE  KeepsRecord(s)
    <3>1. h.token = t
      BY <1>6, <2>6 DEF ResumeGrant
    <3>2. peers[c].token = 0 => token = t
      BY <1>1, <1>6, <2>6 DEF SeatToken
    <3>3. CASE token = t
      BY <2>3, <2>6, <3>3 DEF KeepsRecord
    <3>4. CASE token # t
      BY <1>6, <2>1, <2>4, <2>6, <3>1, <3>2, <3>4 DEF KeepsRecord
    <3>5. QED
      BY <3>3, <3>4
  <2>7. CASE Holds(s)
    <3>1. RecordOf(s) \ {0} = {resume[s].token} /\ resume[s].token # 0
      BY <2>7, TheRecord DEF SessionInv, TokensAreOnRecord
    <3>2. ResumeGrant(c, h)
      BY <1>1, <1>6, <2>7 DEF SeatedIdentity
    <3>3. TokenOnRecord(c, s) = resume[s].token
      BY <2>7, <3>1 DEF TokenOnRecord
    <3>4. QED
      BY <2>6, <3>1, <3>2, <3>3
  <2>8. ASSUME NEW d \in Incumbents(c, s) PROVE KeepsRecord(s)
    <3>1. d \in Conn \ {c} /\ peers[d].session = s
      BY DEF Incumbents
    <3>2. RecordOf(s) \ {0} = {peers[d].token} /\ peers[d].token # 0 /\ ~ Holds(s)
      BY <1>1, <3>1, TheRecord DEF SessionInv, TokensAreOnRecord, OneHolder
    <3>3. ResumeGrant(c, h)
      BY <1>1, <1>6, <2>8 DEF SeatedIdentity
    <3>4. \A e \in Incumbents(c, s) : e = d
      BY <3>1 DEF Incumbents, SessionInv, OneHolder
    <3>5. TokenOnRecord(c, s) = peers[d].token
      BY <2>8, <3>2, <3>4 DEF TokenOnRecord
    <3>6. QED
      BY <2>6, <3>2, <3>3, <3>5
  <2>9. CASE ~ Holds(s) /\ Incumbents(c, s) = {} /\ peers[c].session # s
    <3>1. \A d \in Conn : peers[d].session # s
      BY <1>1, <2>9 DEF Incumbents
    <3>2. RecordOf(s) \ {0} = {}
      BY <2>9, <3>1, TheRecord
    <3>3. QED
      BY <3>2 DEF KeepsRecord
  <2>10. QED
    BY <2>5, <2>7, <2>8, <2>9
<1>7. QED
  BY <1>3, <1>4, <1>5, <1>6

(* Every step keeps every record.                                          *)
LEMMA StepKeepsRecords ==
    ASSUME SessionInv, UnheldIsEmpty, SessionInv', UnheldIsEmpty', [Next]_vars,
           NEW s \in Identity
    PROVE  KeepsRecord(s)
<1>1. ASSUME UNCHANGED <<peers, resume>> PROVE KeepsRecord(s)
  BY <1>1 DEF KeepsRecord, RecordOf
<1>2. ASSUME NEW c \in Conn, HandleHello(c) PROVE KeepsRecord(s)
  <2> DEFINE key == SessionKey(Head(toServer[c]),
                               ChallengeHalf(c, Head(toServer[c])).acceptor)
  <2>1. toServer[c] # <<>>
           /\ (UNCHANGED <<peers, resume>> \/ SeatHello(c, Head(toServer[c]), key))
    BY <1>2 DEF HandleHello
  <2> HIDE DEF key
  <2>2. QED
    BY <1>1, <2>1, SeatKeepsRecords
<1>3. ASSUME NEW c \in Conn, PeerDisconnected(c) PROVE KeepsRecord(s)
  <2>1. s # 0 /\ peers' = [peers EXCEPT ![c] = NoPeer]
    BY <1>3, SessionAssumption DEF PeerDisconnected
  <2>2. CASE peers[c].session = s
    <3>1. RecordOf(s) \ {0} = {peers[c].token} /\ resume[s].token = 0
      BY <2>2, TheRecord DEF SessionInv, OneHolder, UnheldIsEmpty
    <3>2. {d \in Conn : peers'[d].session = s} = {}
      BY <2>1, <2>2 DEF SessionInv, OneHolder, TypeOK, NoPeer
    <3>3. resume'[s].token \in {peers[c].token, 0}
      BY <1>3, <2>2, <3>1 DEF PeerDisconnected, SessionInv, TypeOK
    <3>4. RecordOf(s)' \ {0} \in {{}, {peers[c].token}}
      BY <3>2, <3>3 DEF RecordOf
    <3>5. QED
      BY <3>1, <3>4 DEF KeepsRecord
  <2>3. CASE peers[c].session # s
    <3>1. /\ {d \in Conn : peers'[d].session = s} = {d \in Conn : peers[d].session = s}
          /\ \A d \in Conn : peers[d].session = s => peers'[d].token = peers[d].token
          /\ resume'[s] = resume[s]
      BY <1>3, <2>1, <2>3 DEF PeerDisconnected, SessionInv, TypeOK, NoPeer
    <3>2. RecordOf(s)' = RecordOf(s)
      BY <3>1 DEF RecordOf
    <3>3. QED
      BY <3>2 DEF KeepsRecord
  <2>4. QED
    BY <2>2, <2>3
<1>4. ASSUME NEW x \in Identity, ExpireHeld(x) PROVE KeepsRecord(s)
  <2>1. UNCHANGED peers /\ resume' = [resume EXCEPT ![x] = NotHeld] /\ Holds(x)
    BY <1>4 DEF ExpireHeld
  <2>2. CASE x = s
    <3>1. resume'[s].token = 0 /\ {d \in Conn : peers'[d].session = s} = {}
      BY <2>1, <2>2 DEF NotHeld, SessionInv, OneHolder, TypeOK
    <3>2. RecordOf(s)' \ {0} = {}
      BY <3>1 DEF RecordOf
    <3>3. QED
      BY <3>2 DEF KeepsRecord
  <2>3. CASE x # s
    BY <2>1, <2>3 DEF KeepsRecord, RecordOf, SessionInv, TypeOK
  <2>4. QED
    BY <2>2, <2>3
<1>5. CASE \/ \E p \in Player, c \in Conn : Join(p, c)
           \/ \E p \in Player : Restart(p)
           \/ \E p \in Player : RetryHello(p)
           \/ \E p \in Player : Leave(p)
           \/ \E p \in Player : HandleChallenge(p)
           \/ \E p \in Player : IntegrateWelcome(p)
           \/ StartServer
           \/ \E q \in Settings : SetResumePolicy(q)
           \/ UNCHANGED vars
  <2>1. UNCHANGED <<peers, resume>>
    BY <1>5 DEF Join, Restart, RetryHello, Leave, HandleChallenge,
                IntegrateWelcome, StartServer, SetResumePolicy, vars
  <2>2. QED
    BY <1>1, <2>1
<1>6. QED
  BY <1>2, <1>3, <1>4, <1>5 DEF Next

(* The token an identity is on record under stays as long as the identity  *)
(* is seated or held, through supersedes, drops and returns (seat_hello,   *)
(* _on_peer_disconnected): a claimant that quoted it may put another in    *)
(* its place, and only one its own row already had.                        *)
THEOREM RecordTokensAreKept == Spec => RecordTokenIsKept
<1>1. Init => UnheldIsEmpty
  BY DEF Init, UnheldIsEmpty, NotHeld
<1>2. SessionInv /\ UnheldIsEmpty /\ [Next]_vars => UnheldIsEmpty'
  BY StepLeavesNoToken DEF SessionInv
<1>3. SessionInv /\ UnheldIsEmpty /\ SessionInv' /\ UnheldIsEmpty' /\ [Next]_vars =>
         [\A s \in Identity : KeepsRecord(s)]_vars
  BY StepKeepsRecords
<1>4. QED
  BY <1>1, <1>2, <1>3, SessionInvariance, PTL
     DEF Spec, RecordTokenIsKept, KeepsRecord

-----------------------------------------------------------------------------
(***************************************************************************)
(* The sealed lane.  AtMostOnce is not inductive: nothing in it says that a*)
(* datagram the window would pass was not dispatched before.  WindowIsExact*)
(* says so for the key in force, and FutureIsEmpty for the keys to come,   *)
(* which start on a fresh window.                                          *)
(***************************************************************************)

SealInv ==
    /\ SealTypeOK
    /\ AtMostOnce
    /\ NonceOnce
    /\ WindowIsExact
    /\ FutureIsEmpty

\* A window moved over an accepted number is a window again.
LEMMA AcceptType ==
    ASSUME NEW w \in ReplayWindow, NEW s \in SeqNo, Accepts(w, s)
    PROVE  Accept(w, s) \in ReplayWindow
<1>1. CASE s > w.newest
  BY <1>1, SealAssumption DEF Accept, ReplayWindow, SeqNo
<1>2. CASE ~(s > w.newest)
  <2>1. w.newest - s \in 1..Window
    BY <1>2, SealAssumption DEF Accepts, ReplayWindow, SeqNo
  <2>2. w.bits \cup {w.newest - s} \in SUBSET (1..Window)
    BY <2>1 DEF ReplayWindow
  <2> QED  BY <1>2, <2>2 DEF Accept, ReplayWindow
<1> QED  BY <1>1, <1>2

\* What Accept does to the two fields.
LEMMA AcceptFields ==
    ASSUME NEW w \in ReplayWindow, NEW s \in SeqNo, Accepts(w, s)
    PROVE  /\ s > w.newest =>
                /\ Accept(w, s).newest = s
                /\ \A b \in 1..Window : b \in Accept(w, s).bits <=>
                     (b = s - w.newest \/ (b > s - w.newest /\ b - (s - w.newest) \in w.bits))
           /\ ~(s > w.newest) =>
                /\ Accept(w, s).newest = w.newest
                /\ Accept(w, s).bits = w.bits \cup {w.newest - s}
BY DEF Accept, ReplayWindow

LEMMA SealInitHolds == SealInit => SealInv
<1> SUFFICES ASSUME SealInit PROVE SealInv
  OBVIOUS
<1>1. SealTypeOK
  BY SealAssumption
     DEF SealInit, SealTypeOK, SealKey, SeqNo, NoSealKey, Fresh, ReplayWindow, Counts
<1>2. AtMostOnce /\ NonceOnce
  BY DEF SealInit, AtMostOnce, NonceOnce
<1>3. WindowIsExact
  BY SealAssumption DEF SealInit, WindowIsExact, Fresh, NoSealKey, SealKey, SeqNo
<1>4. FutureIsEmpty
  BY SealAssumption DEF SealInit, FutureIsEmpty, NoSealKey, SealKey, SeqNo
<1> QED  BY <1>1, <1>2, <1>3, <1>4 DEF SealInv

LEMMA SealKeeps ==
    ASSUME SealInv, Seal PROVE SealInv'
<1> USE DEF SealInv
<1>1. sealed[sendKey][nextSeq] = 0
  <2>1. nextSeq \in SeqNo /\ nextSeq # 0 /\ nextSeq >= nextSeq
    BY DEF Seal, SealTypeOK, SeqNo
  <2> QED  BY <2>1 DEF FutureIsEmpty
<1>2. /\ sealed' \in Counts
      /\ \A k \in SealKey, s \in SeqNo :
           sealed'[k][s] = IF k = sendKey /\ s = nextSeq THEN 1 ELSE sealed[k][s]
  BY <1>1 DEF Seal, SealTypeOK, Counts
<1>3. nextSeq' \in SeqNo /\ (nextSeq' # 0 => nextSeq' = nextSeq + 1)
  BY SealAssumption DEF Seal, SealTypeOK, WrappingNext, SeqNo
<1>4. SealTypeOK'
  BY <1>2, <1>3 DEF Seal, SealTypeOK
<1>5. AtMostOnce' /\ WindowIsExact'
  BY DEF Seal, AtMostOnce, WindowIsExact
<1>6. NonceOnce'
  BY <1>2 DEF Seal, NonceOnce
<1>7. FutureIsEmpty'
  BY <1>2, <1>3, SealAssumption DEF Seal, FutureIsEmpty, SealTypeOK, SealKey, SeqNo, NoSealKey
<1> QED  BY <1>4, <1>5, <1>6, <1>7

LEMMA OpenKeeps ==
    ASSUME SealInv, NEW k \in SealKey, NEW s \in SeqNo, Open(k, s)
    PROVE  SealInv'
<1> USE DEF SealInv
<1>0. k = recvKey /\ Accepts(window, s) /\ window' = Accept(window, s) /\ s # 0
  BY DEF Open, Accepts
<1>w. window \in ReplayWindow /\ window.newest \in Nat /\ s \in Nat /\ Window \in Nat
  BY SealAssumption DEF SealTypeOK, ReplayWindow, SeqNo
<1>1. times[k][s] = 0
  <2>1. CASE s > window.newest
    BY <1>0, <2>1 DEF WindowIsExact
  <2>2. CASE ~(s > window.newest)
    <3>1. s < window.newest /\ window.newest - s <= Window /\ window.newest - s \notin window.bits
      BY <1>0, <2>2 DEF Accepts
    <3>2. times[recvKey][s] # 1
      BY <1>0, <1>w, <3>1 DEF WindowIsExact
    <3>3. times[k][s] \in Nat /\ times[k][s] <= 1
      BY DEF SealTypeOK, Counts, AtMostOnce
    <3> QED  BY <1>0, <3>2, <3>3
  <2> QED  BY <2>1, <2>2
<1>2. /\ times' \in Counts
      /\ \A j \in SealKey, t \in SeqNo :
           times'[j][t] = IF j = k /\ t = s THEN 1 ELSE times[j][t]
  BY <1>1 DEF Open, SealTypeOK, Counts
<1>3. SealTypeOK'
  BY <1>0, <1>2, AcceptType DEF Open, SealTypeOK
<1>4. AtMostOnce'
  BY <1>2 DEF AtMostOnce
<1>5. NonceOnce'
  BY DEF Open, NonceOnce
<1>6. FutureIsEmpty'
  BY <1>0, <1>2 DEF Open, FutureIsEmpty, SealTypeOK, SealKey
<1>7. WindowIsExact'
  <2>0. recvKey' = k /\ recvKey = k
    BY <1>0 DEF Open
  <2>1. CASE s > window.newest
    <3>1. window'.newest = s
      BY <1>0, <1>w, <2>1, AcceptFields
    <3>2. \A t \in SeqNo : t > s => times'[k][t] = 0
      BY <1>2, <1>w, <2>0, <2>1 DEF WindowIsExact, SeqNo
    <3>3. times'[k][s] = 1
      BY <1>2
    <3>4. ASSUME NEW t \in SeqNo, 0 < t, t < s, s - t <= Window
          PROVE  s - t \in window'.bits <=> times'[k][t] = 1
      <4>t. t \in Nat /\ s - t \in 1..Window
        BY <1>w, <3>4 DEF SeqNo
      <4>1. times'[k][t] = times[k][t]
        BY <1>2, <3>4, <1>w DEF SeqNo
      <4>2. s - t \in window'.bits <=>
              (t = window.newest \/ (t < window.newest /\ window.newest - t \in window.bits))
        <5>1. s - t \in window'.bits <=>
                (s - t = s - window.newest
                  \/ (s - t > s - window.newest
                       /\ (s - t) - (s - window.newest) \in window.bits))
          BY <1>0, <1>w, <2>1, <4>t, AcceptFields
        <5>2. /\ s - t = s - window.newest <=> t = window.newest
              /\ s - t > s - window.newest <=> t < window.newest
              /\ (s - t) - (s - window.newest) = window.newest - t
          BY <1>w, <4>t
        <5> QED  BY <5>1, <5>2
      <4>3. CASE t = window.newest
        BY <3>4, <4>1, <4>2, <4>3, <2>0 DEF WindowIsExact
      <4>4. CASE t < window.newest
        <5>1. window.newest - t <= Window
          BY <1>w, <2>1, <4>t, <4>4
        <5>2. window.newest - t \in window.bits <=> times[recvKey][t] = 1
          BY <3>4, <4>4, <5>1 DEF WindowIsExact
        <5>3. t # window.newest
          BY <1>w, <4>t, <4>4
        <5> QED  BY <4>1, <4>2, <4>4, <5>2, <5>3, <2>0
      <4>5. CASE t > window.newest
        <5>1. times[recvKey][t] = 0
          BY <4>5 DEF WindowIsExact
        <5>2. t # window.newest /\ ~(t < window.newest)
          BY <1>w, <4>t, <4>5
        <5> QED  BY <4>1, <4>2, <5>1, <5>2, <2>0
      <4> QED  BY <1>w, <4>t, <4>3, <4>4, <4>5
    <3> QED  BY <2>0, <3>1, <3>2, <3>3, <3>4 DEF WindowIsExact
  <2>2. CASE ~(s > window.newest)
    <3>0. s < window.newest /\ window.newest - s <= Window
      BY <1>0, <2>2 DEF Accepts
    <3>1. window'.newest = window.newest /\ window'.bits = window.bits \cup {window.newest - s}
      BY <1>0, <1>w, <2>2, AcceptFields
    <3>2. \A t \in SeqNo : t > window.newest => times'[k][t] = 0
      BY <1>2, <1>w, <2>0, <3>0 DEF WindowIsExact, SeqNo
    <3>3. window.newest # 0 => times'[k][window.newest] = 1
      <4>1. window.newest \in SeqNo /\ window.newest # s
        BY <1>w, <3>0 DEF ReplayWindow
      <4> QED  BY <1>2, <2>0, <4>1 DEF WindowIsExact
    <3>4. ASSUME NEW t \in SeqNo, 0 < t, t < window.newest, window.newest - t <= Window
          PROVE  window.newest - t \in window'.bits <=> times'[k][t] = 1
      <4>1. window.newest - t \in window.bits <=> times[recvKey][t] = 1
        BY <3>4 DEF WindowIsExact
      <4>2. window.newest - t = window.newest - s <=> t = s
        BY <1>w DEF SeqNo
      <4>3. CASE t = s
        BY <1>2, <3>1, <4>3
      <4>4. CASE t # s
        BY <1>2, <2>0, <3>1, <4>1, <4>2, <4>4
      <4> QED  BY <4>3, <4>4
    <3> QED  BY <2>0, <3>1, <3>2, <3>3, <3>4 DEF WindowIsExact
  <2> QED  BY <2>1, <2>2
<1> QED  BY <1>3, <1>4, <1>5, <1>6, <1>7

LEMMA SeatSenderKeeps ==
    ASSUME SealInv, NEW k \in SealKey, SeatSender(k) PROVE SealInv'
<1> USE DEF SealInv
<1>1. SealTypeOK'
  BY SealAssumption DEF SeatSender, SealTypeOK, SeqNo
<1>2. AtMostOnce' /\ NonceOnce' /\ WindowIsExact'
  BY DEF SeatSender, AtMostOnce, NonceOnce, WindowIsExact
<1>3. FutureIsEmpty'
  BY DEF SeatSender, FutureIsEmpty, SealTypeOK, SealKey, SeqNo
<1> QED  BY <1>1, <1>2, <1>3

LEMMA SeatReceiverKeeps ==
    ASSUME SealInv, NEW k \in SealKey, SeatReceiver(k) PROVE SealInv'
<1> USE DEF SealInv
<1>1. SealTypeOK'
  BY SealAssumption DEF SeatReceiver, SealTypeOK, SeqNo, Fresh, ReplayWindow
<1>2. AtMostOnce' /\ NonceOnce'
  BY DEF SeatReceiver, AtMostOnce, NonceOnce
<1>3. FutureIsEmpty'
  BY DEF SeatReceiver, FutureIsEmpty, SealTypeOK, SealKey
<1>4. WindowIsExact'
  <2>1. CASE k = recvKey
    BY <2>1 DEF SeatReceiver, WindowIsExact
  <2>2. CASE k # recvKey
    <3>1. k > recvKey /\ recvKey' = k /\ window' = Fresh /\ times' = times
      BY <2>2 DEF SeatReceiver, SealTypeOK, SealKey
    <3>2. \A s \in SeqNo : times[k][s] = 0
      BY <3>1 DEF FutureIsEmpty
    <3>3. window'.newest = 0
      BY <3>1 DEF Fresh
    <3> QED  BY <3>1, <3>2, <3>3 DEF WindowIsExact, SeqNo
  <2> QED  BY <2>1, <2>2
<1> QED  BY <1>1, <1>2, <1>3, <1>4

LEMMA SealStepKeeps == SealInv /\ [SealNext]_sealVars => SealInv'
<1> SUFFICES ASSUME SealInv, [SealNext]_sealVars PROVE SealInv'
  OBVIOUS
<1>1. CASE UNCHANGED sealVars
  BY <1>1 DEF SealInv, SealTypeOK, AtMostOnce, NonceOnce, WindowIsExact,
              FutureIsEmpty, sealVars
<1>2. CASE Seal
  BY <1>2, SealKeeps
<1>3. ASSUME NEW k \in SealKey, NEW s \in SeqNo, Open(k, s) PROVE SealInv'
  BY <1>3, OpenKeeps
<1>4. ASSUME NEW k \in SealKey, NEW s \in SeqNo, Refuse(k, s) PROVE SealInv'
  BY <1>1, <1>4 DEF Refuse
<1>5. ASSUME NEW k \in SealKey, SeatSender(k) PROVE SealInv'
  BY <1>5, SeatSenderKeeps
<1>6. ASSUME NEW k \in SealKey, SeatReceiver(k) PROVE SealInv'
  BY <1>6, SeatReceiverKeeps
<1> QED  BY <1>1, <1>2, <1>3, <1>4, <1>5, <1>6 DEF SealNext

THEOREM SealInvariance == SealSpec => []SealInv
BY SealInitHolds, SealStepKeeps, PTL DEF SealSpec

(* The type invariant, the bitmap staying within the window included.      *)
THEOREM SealTypeCorrectness == SealSpec => []SealTypeOK
<1>1. SealInv => SealTypeOK
  BY DEF SealInv
<1> QED  BY <1>1, SealInvariance, PTL

(* No replay: whatever the window's width, a datagram is dispatched at     *)
(* most once, across retried hellos and rekeys.                            *)
THEOREM DispatchedAtMostOnce == SealSpec => []AtMostOnce
<1>1. SealInv => AtMostOnce
  BY DEF SealInv
<1> QED  BY <1>1, SealInvariance, PTL

(* No nonce is used twice under a key.                                     *)
THEOREM NoncesAreUsedOnce == SealSpec => []NonceOnce
<1>1. SealInv => NonceOnce
  BY DEF SealInv
<1> QED  BY <1>1, SealInvariance, PTL

(* The window is as permissive as it can be: it refuses no datagram that   *)
(* is within its reach and was not dispatched.                             *)
THEOREM NothingFreshIsRefused == SealSpec => []NoFalseRefusal
<1>1. SealInv => NoFalseRefusal
  <2> SUFFICES ASSUME SealInv, NEW s \in SeqNo, sealed[recvKey][s] # 0,
                      times[recvKey][s] = 0, s + Window >= window.newest
               PROVE  Accepts(window, s)
    BY DEF NoFalseRefusal
  <2>1. s # 0 /\ s \in Nat /\ window.newest \in Nat /\ Window \in Nat
    BY SealAssumption DEF SealInv, FutureIsEmpty, SealTypeOK, ReplayWindow, SeqNo
  <2>2. s # window.newest
    BY <2>1 DEF SealInv, WindowIsExact
  <2>3. CASE s > window.newest
    BY <2>1, <2>3 DEF Accepts
  <2>4. CASE s < window.newest
    <3>1. window.newest - s <= Window
      BY <2>1, <2>4
    <3>2. window.newest - s \notin window.bits
      BY <2>1, <2>4, <3>1 DEF SealInv, WindowIsExact
    <3> QED  BY <2>1, <2>4, <3>1, <3>2 DEF Accepts
  <2> QED  BY <2>1, <2>2, <2>3, <2>4
<1> QED  BY <1>1, SealInvariance, PTL

-----------------------------------------------------------------------------
(***************************************************************************)
(* The assembly threads.  A scope ends when its jobs are taken, its workers*)
(* are idle and its caller has run the first chunk.  SplitIsInvisible needs*)
(* to know that nothing is then left to assemble: while a scope is open, a *)
(* chunk with peers to go is the caller's, is waiting, or is in a worker's *)
(* hands; and whatever a chunk has in its tally and still to do is the     *)
(* chunk that was cut.  What remains is that the cuts laid end to end are  *)
(* the peers.                                                              *)
(***************************************************************************)

(* Arithmetic of the split.                                                *)

LEMMA GreaterOfPair ==
    ASSUME NEW a \in Int, NEW b \in Int
    PROVE  Max({a, b}) = IF a >= b THEN a ELSE b
<1>1. CASE a >= b
  <2>1. \A x \in {a, b} : (\A y \in {a, b} : x >= y) <=> x = a
    BY <1>1
  <2> QED  BY <1>1, <2>1 DEF Max
<1>2. CASE ~(a >= b)
  <2>1. \A x \in {a, b} : (\A y \in {a, b} : x >= y) <=> x = b
    BY <1>2
  <2> QED  BY <1>2, <2>1 DEF Max
<1> QED  BY <1>1, <1>2

LEMMA LesserOfPair ==
    ASSUME NEW a \in Int, NEW b \in Int
    PROVE  Min({a, b}) = IF a <= b THEN a ELSE b
<1>1. CASE a <= b
  <2>1. \A x \in {a, b} : (\A y \in {a, b} : x <= y) <=> x = a
    BY <1>1
  <2> QED  BY <1>1, <2>1 DEF Min
<1>2. CASE ~(a <= b)
  <2>1. \A x \in {a, b} : (\A y \in {a, b} : x <= y) <=> x = b
    BY <1>2
  <2> QED  BY <1>2, <2>1 DEF Min
<1> QED  BY <1>1, <1>2

\* A figure clipped from below is at least that.
LEMMA ClipIsAbove ==
    ASSUME NEW n \in Int, NEW low \in Int, NEW high \in Int
    PROVE  Clip(n, low, high) \in Int /\ Clip(n, low, high) >= low
<1>1. Min({n, high}) \in Int
  BY LesserOfPair
<1> QED  BY <1>1, GreaterOfPair DEF Clip

\* The caller is always one of the threads.
LEMMA OneThreadAtLeast ==
    ASSUME NEW n \in Nat
    PROVE  AssemblyThreads(n) \in Nat \ {0}
<1>1. n \div MinPerThread \in Int
  BY PoolAssumption
<1>2. Clip(Parallelism, 1, MaxThreads) \in Int
  BY ClipIsAbove, PoolAssumption
<1>3. LET t == Clip(n \div MinPerThread, 1, Clip(Parallelism, 1, MaxThreads))
      IN  t \in Int /\ t >= 1
  BY <1>1, <1>2, ClipIsAbove
<1> QED  BY <1>3 DEF AssemblyThreads

\* Rounded up, the length times the threads covers the peers.
LEMMA ChunksCover ==
    ASSUME NEW n \in Nat, NEW k \in Nat \ {0}
    PROVE  ChunkLen(n, k) \in Nat /\ k * ChunkLen(n, k) >= n
<1> DEFINE m == n + k - 1
           q == m \div k
<1>1. m \in Nat /\ k \in Int /\ k > 0
  OBVIOUS
<1>2. q \in Int /\ m = k * q + (m % k) /\ 0 <= m % k /\ m % k < k
  BY <1>1
<1>3. q >= 0
  <2> HIDE DEF m, q
  <2>1. SUFFICES ASSUME q <= -1 PROVE FALSE
    BY <1>2
  <2>2. k * q <= k * (-1)
    BY <2>1, <1>1, <1>2
  <2> QED  BY <2>2, <1>1, <1>2
<1>4. k * q >= n
  BY <1>1, <1>2
<1> QED  BY <1>2, <1>3, <1>4 DEF ChunkLen

\* Where the first i chunks end.
CutAt(p, k, i) ==
    IF i * ChunkLen(Len(p), k) <= Len(p) THEN i * ChunkLen(Len(p), k) ELSE Len(p)

LEMMA CutsGrow ==
    ASSUME NEW S, NEW p \in Seq(S), NEW k \in Nat \ {0}
    PROVE  /\ CutAt(p, k, 0) = 0
           /\ CutAt(p, k, k) = Len(p)
           /\ \A i \in 1 .. k : /\ CutAt(p, k, i - 1) \in 0 .. CutAt(p, k, i)
                               /\ CutAt(p, k, i) \in 0 .. Len(p)
<1> DEFINE len == ChunkLen(Len(p), k)
<1>0. Len(p) \in Nat
  OBVIOUS
<1>1. Len(p) \in Nat /\ len \in Nat /\ k * len >= Len(p)
  BY <1>0, ChunksCover
<1> HIDE DEF len
<1>2. 0 * len = 0 /\ k * len \in Nat
  BY <1>1
<1>3. CutAt(p, k, 0) = 0 /\ CutAt(p, k, k) = Len(p)
  BY <1>1, <1>2 DEF CutAt, len
<1>4. ASSUME NEW i \in 1 .. k
      PROVE  CutAt(p, k, i - 1) \in 0 .. CutAt(p, k, i) /\ CutAt(p, k, i) \in 0 .. Len(p)
  <2>1. i - 1 \in Nat /\ (i - 1) * len \in Nat /\ i * len = (i - 1) * len + len
    BY <1>1
  <2> QED  BY <1>1, <2>1 DEF CutAt, len
<1> QED  BY <1>3, <1>4

\* A chunk is what lies between two cuts.
LEMMA ChunkIsASlice ==
    ASSUME NEW S, NEW p \in Seq(S), NEW k \in Nat \ {0}, NEW i \in 1 .. k
    PROVE  Chunks(p, k)[i] = SubSeq(p, CutAt(p, k, i - 1) + 1, CutAt(p, k, i))
<1> DEFINE len == ChunkLen(Len(p), k)
<1>0. Len(p) \in Nat
  OBVIOUS
<1>1. Len(p) \in Nat /\ len \in Nat
  BY <1>0, ChunksCover
<1> HIDE DEF len
<1>2. /\ i - 1 \in Nat /\ (i - 1) * len \in Nat /\ i * len = (i - 1) * len + len
      /\ i * len \in Nat
  BY <1>1
<1>3. Chunks(p, k)[i] = SubSeq(p, (i - 1) * len + 1, Min({i * len, Len(p)}))
  BY DEF Chunks, len
<1>4. Min({i * len, Len(p)}) = CutAt(p, k, i) /\ CutAt(p, k, i) \in 0 .. Len(p)
  <2>1. Min({i * len, Len(p)}) = IF i * len <= Len(p) THEN i * len ELSE Len(p)
    BY <1>1, <1>2, LesserOfPair
  <2> QED  BY <1>1, <1>2, <2>1 DEF CutAt, len
<1>5. CASE (i - 1) * len <= Len(p)
  BY <1>3, <1>4, <1>5 DEF CutAt, len
<1>6. CASE (i - 1) * len > Len(p)
  <2>1. CutAt(p, k, i - 1) = Len(p) /\ CutAt(p, k, i) = Len(p)
    BY <1>1, <1>2, <1>6 DEF CutAt, len
  <2>2. SubSeq(p, (i - 1) * len + 1, CutAt(p, k, i)) = << >>
    BY <1>1, <1>2, <1>4, <1>6, SubSeqEmpty
  <2>3. SubSeq(p, Len(p) + 1, Len(p)) = << >>
    BY <1>1, SubSeqEmpty
  <2> QED  BY <1>3, <1>4, <2>1, <2>2, <2>3
<1> QED  BY <1>1, <1>2, <1>5, <1>6

\* A set of positions that has the first and the next of each of its members
\* has them all.
LEMMA AllPositions ==
    ASSUME NEW k \in Nat, NEW A, k >= 1 => 1 \in A,
           \A i \in 1 .. k : i < k /\ i \in A => i + 1 \in A
    PROVE  \A i \in 1 .. k : i \in A
<1> DEFINE Bad == {i \in 1 .. k : i \notin A}
<1>1. SUFFICES ASSUME Bad # {} PROVE FALSE
  OBVIOUS
<1>2. Bad \in SUBSET Nat
  OBVIOUS
<1>3. PICK m \in Bad : \A y \in Bad : m <= y
  <2>1. PICK x \in Bad : \A y \in Bad : ~(<<y, x>> \in OpToRel(<, Nat))
    BY <1>1, <1>2, NatLessThanWellFounded, WFMin
  <2>2. \A y \in Bad : ~(y < x)
    BY <1>2, <2>1 DEF OpToRel
  <2> QED  BY <1>2, <2>2
<1>4. m \in 1 .. k /\ m \notin A /\ m # 1
  BY <1>3
<1>5. m - 1 \in 1 .. k /\ m - 1 < k /\ (m - 1) + 1 = m /\ ~(m <= m - 1)
  BY <1>4
<1>6. m - 1 \in A
  BY <1>3, <1>5
<1> QED  BY <1>4, <1>5, <1>6

LEMMA CutsJoin ==
    ASSUME NEW S, NEW p \in Seq(S), NEW a \in 0 .. Len(p), NEW b \in a .. Len(p)
    PROVE  SubSeq(p, 1, a) \o SubSeq(p, a + 1, b) = SubSeq(p, 1, b)
<1>1. Len(p) \in Nat
  OBVIOUS
<1>2. 1 \in 1 .. Len(p) + 1 /\ a \in 1 - 1 .. Len(p) /\ b \in a .. Len(p)
  BY <1>1
<1> QED  BY <1>2, ConcatAdjacentSubSeq

\* The chunks laid end to end are the peers.
LEMMA ChunksAreThePeers ==
    ASSUME NEW S, NEW p \in Seq(S), NEW k \in Nat \ {0}
    PROVE  FlattenSeq(Chunks(p, k)) = p
<1> DEFINE c == Chunks(p, k)
           Solves(f) == f = [i \in 1 .. Len(c) |-> IF i = 1 THEN c[i] ELSE f[i - 1] \o c[i]]
           Upto(i) == SubSeq(p, 1, CutAt(p, k, i))
           g == [i \in 1 .. k |-> Upto(i)]
<1>1. Len(c) = k
  BY DEF Chunks
<1>2. FlattenSeq(c) = (CHOOSE f : Solves(f))[k]
  BY <1>1 DEF FlattenSeq
<1>3. ASSUME NEW i \in 1 .. k, i # 1 PROVE Upto(i) = Upto(i - 1) \o c[i]
  <2>1. /\ i - 1 \in 1 .. k /\ Len(p) \in Nat
        /\ CutAt(p, k, i - 1) \in 0 .. CutAt(p, k, i) /\ CutAt(p, k, i) \in 0 .. Len(p)
        /\ CutAt(p, k, i - 1) \in 0 .. Len(p)
        /\ CutAt(p, k, i) \in CutAt(p, k, i - 1) .. Len(p)
    <3>1. i - 1 \in 1 .. k /\ i - 1 \in 0 .. k /\ i \in 0 .. k /\ Len(p) \in Nat
      BY <1>3
    <3>2. /\ CutAt(p, k, i - 1) \in 0 .. CutAt(p, k, i)
          /\ CutAt(p, k, i) \in 0 .. Len(p)
      BY <1>3, <3>1, CutsGrow
    <3> QED  BY <3>1, <3>2
  <2>2. SubSeq(p, 1, CutAt(p, k, i - 1)) \o SubSeq(p, CutAt(p, k, i - 1) + 1, CutAt(p, k, i))
           = SubSeq(p, 1, CutAt(p, k, i))
    BY <2>1, CutsJoin
  <2> QED  BY <2>2, ChunkIsASlice
<1>4. Upto(1) = c[1]
  <2>1. 1 \in 1 .. k /\ 1 - 1 = 0
    OBVIOUS
  <2>2. CutAt(p, k, 0) = 0
    BY CutsGrow
  <2> QED  BY <2>1, <2>2, ChunkIsASlice
<1>5. Upto(k) = p
  <2>1. CutAt(p, k, k) = Len(p)
    BY CutsGrow
  <2> QED  BY <2>1, SubSeqFull
<1> HIDE DEF c, Upto
<1>6. Solves(g)
  <2>1. ASSUME NEW i \in 1 .. k PROVE g[i] = IF i = 1 THEN c[i] ELSE g[i - 1] \o c[i]
    <3>1. CASE i = 1
      BY <3>1, <1>4
    <3>2. CASE i # 1
      <4>1. i - 1 \in 1 .. k
        BY <3>2
      <4> QED  BY <3>2, <4>1, <1>3
    <3> QED  BY <3>1, <3>2
  <2> QED  BY <1>1, <2>1
<1>7. ASSUME NEW f, Solves(f) PROVE f[k] = p
  <2> DEFINE A == {i \in 1 .. k : f[i] = Upto(i)}
  <2>1. \A i \in 1 .. k : f[i] = IF i = 1 THEN c[i] ELSE f[i - 1] \o c[i]
    BY <1>1, <1>7
  <2>2. 1 \in A
    BY <2>1, <1>4
  <2>3. ASSUME NEW i \in 1 .. k, i < k, i \in A PROVE i + 1 \in A
    <3>1. i + 1 \in 1 .. k /\ i + 1 # 1 /\ (i + 1) - 1 = i
      BY <2>3
    <3>2. f[i + 1] = f[i] \o c[i + 1]
      BY <2>1, <3>1
    <3>3. Upto(i + 1) = Upto(i) \o c[i + 1]
      BY <1>3, <3>1
    <3> QED  BY <2>3, <3>1, <3>2, <3>3
  <2> HIDE DEF A
  <2>4. \A i \in 1 .. k : i \in A
    BY <2>2, <2>3, AllPositions
  <2>5. k \in A
    BY <2>4
  <2> QED  BY <2>5, <1>5 DEF A
<1> HIDE DEF Solves, g
<1>8. Solves(CHOOSE f : Solves(f))
  BY <1>6
<1> QED  BY <1>2, <1>7, <1>8 DEF c

-----------------------------------------------------------------------------
(* The invariant.                                                          *)

\* Every table of the pool is well formed.
PoolTypeOK ==
    /\ thread \in [Workers -> {"none", "idle", "busy", "exiting", "reported", "left"}]
    /\ chunk \in [Workers -> Nat]
    /\ caller \in {"idle", "scope", "dropping", "joining", "unloaded"}
    /\ timedOut \in BOOLEAN
    /\ flushes \in Nat
    /\ targets \in Seq(Nat)
    /\ todo \in Seq(Seq(Nat)) /\ tallies \in Seq(Seq(Nat)) /\ Len(tallies) = Len(todo)
    /\ jobs \subseteq 2 .. Len(todo)

\* A chunk's tally and what it still has to do are the chunk that was cut.
ChunksAreWhole ==
    flushes > 0 => /\ Len(todo) # 0
                   /\ \A i \in 1 .. Len(todo) :
                        tallies[i] \o todo[i] = Chunks(targets, Len(todo))[i]

\* A busy worker runs a chunk of the open scope, and a chunk with peers to go is
\* the caller's, is waiting to be taken, or is in a worker's hands.
InHand ==
    caller = "scope" =>
        /\ flushes > 0
        /\ \A w \in Workers : thread[w] = "busy" => chunk[w] \in 1 .. Len(todo)
        /\ \A i \in 2 .. Len(todo) :
             todo[i] # << >> => \/ i \in jobs
                              \/ \E w \in Workers : thread[w] = "busy" /\ chunk[w] = i

\* Outside a scope nothing waits and nobody works.
NothingOutsideAScope == caller # "scope" => jobs = {} /\ \A w \in Workers : thread[w] # "busy"

PoolInv ==
    /\ PoolTypeOK
    /\ ChunksAreWhole
    /\ InHand
    /\ NothingOutsideAScope
    /\ SplitIsInvisible
    /\ UnloadedAfterTheLast

LEMMA InitPool == PoolInit => PoolInv
<1> SUFFICES ASSUME PoolInit PROVE PoolInv
  OBVIOUS
<1> USE DEF PoolInit
<1>1. PoolTypeOK
  <2>1. << >> \in Seq(Nat) /\ << >> \in Seq(Seq(Nat)) /\ Len(<< >>) = 0
    OBVIOUS
  <2> QED  BY <2>1 DEF PoolTypeOK
<1> QED
  BY <1>1 DEF PoolInv, ChunksAreWhole, InHand, NothingOutsideAScope, SplitIsInvisible,
              UnloadedAfterTheLast

\* The chunks of a flush are sequences of peers, one for each thread.
LEMMA ChunksAreSequences ==
    ASSUME NEW p \in Seq(Nat), NEW k \in Nat \ {0}
    PROVE  Chunks(p, k) \in Seq(Seq(Nat)) /\ Len(Chunks(p, k)) = k
<1>1. ASSUME NEW i \in 1 .. k PROVE Chunks(p, k)[i] \in Seq(Nat)
  <2>1. /\ Len(p) \in Nat /\ CutAt(p, k, i - 1) \in 0 .. CutAt(p, k, i)
        /\ CutAt(p, k, i) \in 0 .. Len(p)
    BY CutsGrow
  <2>2. \A j \in CutAt(p, k, i - 1) + 1 .. CutAt(p, k, i) : p[j] \in Nat
    BY <2>1
  <2>3. SubSeq(p, CutAt(p, k, i - 1) + 1, CutAt(p, k, i)) \in Seq(Nat)
    BY <2>1, <2>2, SubSeqProperties
  <2> QED  BY <2>3, ChunkIsASlice
<1>2. Chunks(p, k) \in [1 .. k -> Seq(Nat)]
  BY <1>1 DEF Chunks
<1> QED  BY <1>2

LEMMA SendKeepsPool ==
    ASSUME PoolInv, NEW n \in 0 .. MaxTargets, SendSnapshots([i \in 1 .. n |-> i])
    PROVE  PoolInv'
<1> DEFINE served == [i \in 1 .. n |-> i]
           wanted == AssemblyThreads(Len(served))
           k == IF wanted > 1 /\ CanBuild THEN wanted ELSE 1
           builds == k > 1 /\ \A w \in Workers : thread[w] = "none"
<1>0. n \in Nat
  BY PoolAssumption
<1>1. served \in Seq(Nat) /\ Len(served) \in Nat
  BY <1>0
<1>2. k \in Nat \ {0}
  BY <1>1, OneThreadAtLeast
<1>3. /\ caller = "idle"
      /\ thread' = IF builds THEN [w \in Workers |-> "idle"] ELSE thread
      /\ targets' = served
      /\ todo' = Chunks(served, k)
      /\ tallies' = [i \in 1 .. k |-> << >>]
      /\ jobs' = {i \in 2 .. k : Chunks(served, k)[i] # << >>}
      /\ caller' = "scope"
      /\ flushes' = flushes + 1
      /\ UNCHANGED <<chunk, timedOut, sends>>
  BY DEF SendSnapshots
<1> HIDE DEF served, k, builds
<1>4. todo' \in Seq(Seq(Nat)) /\ Len(todo') = k
  BY <1>1, <1>2, <1>3, ChunksAreSequences
<1>5. tallies' \in Seq(Seq(Nat)) /\ Len(tallies') = k /\ \A i \in 1 .. k : tallies'[i] = << >>
  <2>1. << >> \in Seq(Nat)
    OBVIOUS
  <2>2. tallies' = [i \in 1 .. k |-> << >>]
    BY <1>3
  <2> QED  BY <1>2, <2>1, <2>2
<1>6. PoolTypeOK'
  BY <1>1, <1>2, <1>3, <1>4, <1>5 DEF PoolInv, PoolTypeOK
<1>7. ChunksAreWhole'
  <2>1. ASSUME NEW i \in 1 .. k PROVE tallies'[i] \o todo'[i] = Chunks(served, k)[i]
    <3>1. todo'[i] \in Seq(Nat)
      BY <1>4
    <3> QED  BY <3>1, <1>3, <1>5, ConcatEmptySeq
  <2> QED  BY <1>2, <1>3, <1>4, <2>1 DEF ChunksAreWhole
<1>8. InHand'
  <2>1. \A w \in Workers : thread'[w] # "busy"
    BY <1>3 DEF PoolInv, NothingOutsideAScope
  <2>2. flushes' > 0
    BY <1>3 DEF PoolInv, PoolTypeOK
  <2> QED  BY <1>3, <1>4, <2>1, <2>2 DEF InHand
<1> QED
  BY <1>3, <1>6, <1>7, <1>8
     DEF PoolInv, NothingOutsideAScope, SplitIsInvisible, UnloadedAfterTheLast

LEMMA TakeJobKeepsPool ==
    ASSUME PoolInv, NEW w \in Workers, TakeJob(w)
    PROVE  PoolInv'
<1>1. PICK j \in jobs : /\ thread[w] = "idle"
                        /\ thread' = [thread EXCEPT ![w] = "busy"]
                        /\ chunk' = [chunk EXCEPT ![w] = j]
                        /\ jobs' = jobs \ {j}
                        /\ UNCHANGED <<live, caller, timedOut, targets, todo, tallies, sends, flushes>>
  BY DEF TakeJob
<1>2. PoolTypeOK
  BY DEF PoolInv
<1>3. /\ \A v \in Workers : thread'[v] = IF v = w THEN "busy" ELSE thread[v]
      /\ \A v \in Workers : chunk'[v] = IF v = w THEN j ELSE chunk[v]
  BY <1>1, <1>2 DEF PoolTypeOK
<1>4. caller = "scope" /\ j \in 2 .. Len(todo)
  BY <1>1, <1>2 DEF PoolInv, NothingOutsideAScope, PoolTypeOK
<1>5. PoolTypeOK'
  <2>1. j \in Nat
    BY <1>4
  <2> QED  BY <1>1, <1>2, <2>1 DEF PoolTypeOK
<1>6. InHand'
  <2>1. InHand
    BY DEF PoolInv
  <2>2. flushes' > 0 /\ \A v \in Workers : thread'[v] = "busy" => chunk'[v] \in 1 .. Len(todo)'
    BY <1>1, <1>3, <1>4, <2>1 DEF InHand
  <2>3. ASSUME NEW i \in 2 .. Len(todo)', todo'[i] # << >>
        PROVE  i \in jobs' \/ \E v \in Workers : thread'[v] = "busy" /\ chunk'[v] = i
    <3>1. i \in jobs \/ \E v \in Workers : thread[v] = "busy" /\ chunk[v] = i
      BY <1>1, <1>4, <2>1, <2>3 DEF InHand
    <3>2. CASE i = j
      BY <1>3, <3>2
    <3>3. CASE i \in jobs /\ i # j
      BY <1>1, <3>3
    <3>4. ASSUME NEW v \in Workers, thread[v] = "busy", chunk[v] = i
          PROVE  thread'[v] = "busy" /\ chunk'[v] = i
      BY <1>1, <1>3, <3>4
    <3> QED  BY <3>1, <3>2, <3>3, <3>4
  <2> QED  BY <2>2, <2>3 DEF InHand
<1> QED
  BY <1>1, <1>4, <1>5, <1>6
     DEF PoolInv, ChunksAreWhole, NothingOutsideAScope, SplitIsInvisible, UnloadedAfterTheLast

\* Moving the head of what is to do to the end of what is done.
LEMMA HeadMoves ==
    ASSUME NEW S, NEW a \in Seq(S), NEW b \in Seq(S), b # << >>
    PROVE  /\ Append(a, Head(b)) \in Seq(S) /\ Tail(b) \in Seq(S)
           /\ Append(a, Head(b)) \o Tail(b) = a \o b
<1>1. Head(b) \in S /\ Tail(b) \in Seq(S)
  BY HeadTailProperties
<1>2. Append(a, Head(b)) \in Seq(S)
  BY <1>1
<1>3. Append(a, Head(b)) \o Tail(b) \in Seq(S) /\ a \o b \in Seq(S)
  BY <1>1, <1>2
<1>4. Len(Append(a, Head(b)) \o Tail(b)) = Len(a \o b)
  BY <1>1, <1>2, HeadTailProperties, ConcatProperties, AppendProperties
<1>5. ASSUME NEW i \in 1 .. Len(a \o b)
      PROVE  (Append(a, Head(b)) \o Tail(b))[i] = (a \o b)[i]
  <2>1. /\ Len(a) \in Nat /\ Len(b) \in Nat /\ Len(b) > 0 /\ i \in 1 .. Len(a) + Len(b)
        /\ Len(Tail(b)) = Len(b) - 1
    BY HeadTailProperties, ConcatProperties, EmptySeq
  <2>2. (a \o b)[i] = IF i <= Len(a) THEN a[i] ELSE b[i - Len(a)]
    BY <2>1, ConcatProperties
  <2>3. (Append(a, Head(b)) \o Tail(b))[i]
          = IF i <= Len(a) + 1 THEN Append(a, Head(b))[i] ELSE Tail(b)[i - (Len(a) + 1)]
    BY <2>1, <1>1, <1>2, ConcatProperties, AppendProperties
  <2>4. CASE i <= Len(a)
    BY <1>1, <2>1, <2>2, <2>3, <2>4, AppendProperties
  <2>5. CASE i = Len(a) + 1
    BY <1>1, <2>1, <2>2, <2>3, <2>5, AppendProperties
  <2>6. CASE i > Len(a) + 1
    <3>1. i - (Len(a) + 1) \in 1 .. Len(Tail(b)) /\ (i - (Len(a) + 1)) + 1 = i - Len(a)
      BY <2>1, <2>6
    <3> QED  BY <2>1, <2>2, <2>3, <2>6, <3>1, HeadTailProperties
  <2> QED  BY <2>1, <2>4, <2>5, <2>6
<1> QED  BY <1>1, <1>2, <1>3, <1>4, <1>5, SeqEqual

LEMMA AssembleKeepsChunks ==
    ASSUME PoolTypeOK, ChunksAreWhole, NEW c \in 1 .. Len(todo), AssembleNext(c),
           UNCHANGED <<targets, flushes, jobs>>
    PROVE  /\ todo' \in Seq(Seq(Nat)) /\ tallies' \in Seq(Seq(Nat))
           /\ Len(todo') = Len(todo) /\ Len(tallies') = Len(todo)
           /\ \A i \in 1 .. Len(todo) : i # c => todo'[i] = todo[i]
           /\ todo[c] # << >>
           /\ ChunksAreWhole'
<1>1. /\ todo[c] # << >>
      /\ todo' = [todo EXCEPT ![c] = Tail(todo[c])]
      /\ tallies' = [tallies EXCEPT ![c] = Append(tallies[c], Head(todo[c]))]
  BY DEF AssembleNext
<1>2. /\ todo \in Seq(Seq(Nat)) /\ tallies \in Seq(Seq(Nat)) /\ Len(tallies) = Len(todo)
      /\ todo[c] \in Seq(Nat) /\ tallies[c] \in Seq(Nat)
  BY DEF PoolTypeOK
<1>3. /\ Append(tallies[c], Head(todo[c])) \in Seq(Nat) /\ Tail(todo[c]) \in Seq(Nat)
      /\ Append(tallies[c], Head(todo[c])) \o Tail(todo[c]) = tallies[c] \o todo[c]
  BY <1>1, <1>2, HeadMoves
<1>4. /\ todo' \in Seq(Seq(Nat)) /\ Len(todo') = Len(todo)
      /\ \A i \in 1 .. Len(todo) : todo'[i] = IF i = c THEN Tail(todo[c]) ELSE todo[i]
  <2>1. PICK rest \in Seq(Nat) : rest = Tail(todo[c])
    BY <1>3
  <2>2. todo' = [todo EXCEPT ![c] = rest]
    BY <1>1, <2>1
  <2>3. /\ [todo EXCEPT ![c] = rest] \in Seq(Seq(Nat))
        /\ Len([todo EXCEPT ![c] = rest]) = Len(todo)
        /\ \A i \in 1 .. Len(todo) :
             [todo EXCEPT ![c] = rest][i] = IF i = c THEN rest ELSE todo[i]
    BY <1>2, ExceptSeq
  <2> QED  BY <2>1, <2>2, <2>3
<1>5. /\ tallies' \in Seq(Seq(Nat)) /\ Len(tallies') = Len(todo)
      /\ \A i \in 1 .. Len(todo) :
           tallies'[i] = IF i = c THEN Append(tallies[c], Head(todo[c])) ELSE tallies[i]
  <2>1. PICK more \in Seq(Nat) : more = Append(tallies[c], Head(todo[c]))
    BY <1>3
  <2>2. tallies' = [tallies EXCEPT ![c] = more]
    BY <1>1, <2>1
  <2>3. /\ [tallies EXCEPT ![c] = more] \in Seq(Seq(Nat))
        /\ Len([tallies EXCEPT ![c] = more]) = Len(tallies)
        /\ \A i \in 1 .. Len(tallies) :
             [tallies EXCEPT ![c] = more][i] = IF i = c THEN more ELSE tallies[i]
    BY <1>2, ExceptSeq
  <2> QED  BY <1>2, <2>1, <2>2, <2>3
<1>6. \A i \in 1 .. Len(todo) : tallies'[i] \o todo'[i] = tallies[i] \o todo[i]
  BY <1>3, <1>4, <1>5
<1>7. ChunksAreWhole'
  BY <1>4, <1>6 DEF ChunksAreWhole
<1> QED  BY <1>1, <1>4, <1>5, <1>7

LEMMA WorkerStepKeepsPool ==
    ASSUME PoolInv, NEW w \in Workers, WorkerStep(w)
    PROVE  PoolInv'
<1>1. /\ thread[w] = "busy"
      /\ UNCHANGED <<live, caller, timedOut, targets, jobs, sends, flushes>>
  BY DEF WorkerStep
<1>2. PoolTypeOK /\ ChunksAreWhole /\ InHand
  BY DEF PoolInv
<1>3. caller = "scope" /\ flushes > 0 /\ chunk[w] \in 1 .. Len(todo)
  BY <1>1, <1>2 DEF PoolInv, NothingOutsideAScope, InHand
<1>4. CASE AssembleNext(chunk[w]) /\ UNCHANGED <<thread, chunk>>
  <2>1. /\ todo' \in Seq(Seq(Nat)) /\ tallies' \in Seq(Seq(Nat))
        /\ Len(todo') = Len(todo) /\ Len(tallies') = Len(todo)
        /\ \A i \in 1 .. Len(todo) : i # chunk[w] => todo'[i] = todo[i]
        /\ todo[chunk[w]] # << >>
        /\ ChunksAreWhole'
    BY <1>1, <1>2, <1>3, <1>4, AssembleKeepsChunks
  <2>2. PoolTypeOK'
    BY <1>1, <1>2, <1>4, <2>1 DEF PoolTypeOK
  <2>3. InHand'
    BY <1>1, <1>2, <1>3, <1>4, <2>1 DEF InHand
  <2> QED
    BY <1>1, <1>3, <2>1, <2>2, <2>3
       DEF PoolInv, NothingOutsideAScope, SplitIsInvisible, UnloadedAfterTheLast
<1>5. CASE /\ todo[chunk[w]] = << >>
           /\ thread' = [thread EXCEPT ![w] = "idle"]
           /\ chunk' = [chunk EXCEPT ![w] = 0]
           /\ UNCHANGED <<todo, tallies>>
  <2>1. /\ \A v \in Workers : thread'[v] = IF v = w THEN "idle" ELSE thread[v]
        /\ \A v \in Workers : chunk'[v] = IF v = w THEN 0 ELSE chunk[v]
    BY <1>2, <1>5 DEF PoolTypeOK
  <2>2. PoolTypeOK'
    BY <1>1, <1>2, <1>5 DEF PoolTypeOK
  <2>3. ASSUME NEW i \in 2 .. Len(todo), todo[i] # << >>
        PROVE  i \in jobs \/ \E v \in Workers : thread'[v] = "busy" /\ chunk'[v] = i
    <3>1. i \in jobs \/ \E v \in Workers : thread[v] = "busy" /\ chunk[v] = i
      BY <1>2, <1>3, <2>3 DEF InHand
    <3>2. ASSUME NEW v \in Workers, thread[v] = "busy", chunk[v] = i
          PROVE  thread'[v] = "busy" /\ chunk'[v] = i
      BY <1>5, <2>1, <2>3, <3>2
    <3> QED  BY <3>1, <3>2
  <2>4. InHand'
    BY <1>1, <1>2, <1>3, <1>5, <2>1, <2>3 DEF InHand
  <2> QED
    BY <1>1, <1>2, <1>3, <1>5, <2>2, <2>4
       DEF PoolInv, ChunksAreWhole, NothingOutsideAScope, SplitIsInvisible, UnloadedAfterTheLast
<1> QED  BY <1>4, <1>5 DEF WorkerStep

LEMMA CallerStepKeepsPool ==
    ASSUME PoolInv, CallerStep
    PROVE  PoolInv'
<1>1. /\ caller = "scope" /\ AssembleNext(1)
      /\ UNCHANGED <<thread, chunk, live, caller, timedOut, targets, jobs, sends, flushes>>
  BY DEF CallerStep
<1>2. PoolTypeOK /\ ChunksAreWhole /\ InHand
  BY DEF PoolInv
<1>3. flushes > 0 /\ 1 \in 1 .. Len(todo)
  BY <1>1, <1>2 DEF InHand, ChunksAreWhole, PoolTypeOK
<1>4. /\ todo' \in Seq(Seq(Nat)) /\ tallies' \in Seq(Seq(Nat))
      /\ Len(todo') = Len(todo) /\ Len(tallies') = Len(todo)
      /\ \A i \in 1 .. Len(todo) : i # 1 => todo'[i] = todo[i]
      /\ ChunksAreWhole'
  BY <1>1, <1>2, <1>3, AssembleKeepsChunks
<1>5. PoolTypeOK'
  BY <1>1, <1>2, <1>4 DEF PoolTypeOK
<1>6. InHand'
  BY <1>1, <1>2, <1>3, <1>4 DEF InHand
<1> QED
  BY <1>1, <1>4, <1>5, <1>6
     DEF PoolInv, NothingOutsideAScope, SplitIsInvisible, UnloadedAfterTheLast

\* When a scope ends nothing is left to assemble, so the tallies are the chunks.
LEMMA EndScopeKeepsPool ==
    ASSUME PoolInv, EndScope
    PROVE  PoolInv'
<1>1. /\ caller = "scope" /\ todo[1] = << >> /\ jobs = {}
      /\ \A w \in Workers : thread[w] \in {"none", "idle"}
      /\ sends' = FlattenSeq(tallies) /\ caller' = "idle"
      /\ UNCHANGED <<thread, chunk, live, timedOut, targets, jobs, todo, tallies, flushes>>
  BY DEF EndScope
<1>2. PoolTypeOK /\ ChunksAreWhole /\ InHand
  BY DEF PoolInv
<1>3. flushes > 0 /\ Len(todo) \in Nat \ {0}
  BY <1>1, <1>2 DEF InHand, ChunksAreWhole, PoolTypeOK
<1>4. \A w \in Workers : thread[w] # "busy"
  BY <1>1
<1>5. ASSUME NEW i \in 1 .. Len(todo) PROVE tallies[i] = Chunks(targets, Len(todo))[i]
  <2>1. todo[i] = << >>
    BY <1>1, <1>2, <1>3, <1>4 DEF InHand
  <2>2. tallies[i] \o todo[i] = Chunks(targets, Len(todo))[i]
    BY <1>2, <1>3 DEF ChunksAreWhole
  <2>3. tallies[i] \in Seq(Nat)
    BY <1>2 DEF PoolTypeOK
  <2> QED  BY <2>1, <2>2, <2>3, ConcatEmptySeq
<1>6. /\ targets \in Seq(Nat) /\ tallies \in Seq(Seq(Nat)) /\ Len(tallies) = Len(todo)
      /\ Chunks(targets, Len(todo)) \in Seq(Seq(Nat))
      /\ Len(Chunks(targets, Len(todo))) = Len(todo)
  BY <1>2, <1>3, ChunksAreSequences DEF PoolTypeOK
<1>7. tallies = Chunks(targets, Len(todo))
  BY <1>5, <1>6, SeqEqual
<1>8. sends' = targets'
  BY <1>1, <1>3, <1>6, <1>7, ChunksAreThePeers
<1> QED
  BY <1>1, <1>2, <1>4, <1>8
     DEF PoolInv, PoolTypeOK, ChunksAreWhole, InHand, NothingOutsideAScope, SplitIsInvisible,
         UnloadedAfterTheLast

\* The pool is let go, its workers leave, and the caller waits for them.
LEMMA LeavingKeepsPool ==
    ASSUME PoolInv,
           \/ DropPool \/ AllReported \/ WaitTimesOut \/ JoinAll
           \/ \E w \in Workers : WorkerExits(w) \/ ExitHandler(w) \/ ThreadReturns(w)
    PROVE  PoolInv'
<1>0. PoolTypeOK
  BY DEF PoolInv
<1>1. /\ UNCHANGED <<chunk, targets, jobs, todo, tallies, sends, flushes>>
      /\ (caller' # "scope" /\ caller' # "idle") \/ caller' = caller
  BY DEF DropPool, AllReported, WaitTimesOut, JoinAll, WorkerExits, ExitHandler, ThreadReturns
<1>2. /\ caller' \in {"idle", "scope", "dropping", "joining", "unloaded"}
      /\ timedOut' \in BOOLEAN
      /\ caller' # "scope" => caller # "scope"
      /\ caller' = "scope" => caller = "scope"
  BY <1>0 DEF PoolTypeOK, DropPool, AllReported, WaitTimesOut, JoinAll, WorkerExits,
              ExitHandler, ThreadReturns
<1>3. /\ thread' \in [Workers -> {"none", "idle", "busy", "exiting", "reported", "left"}]
      /\ \A w \in Workers : thread[w] = "busy" <=> thread'[w] = "busy"
  <2>1. CASE UNCHANGED thread
    BY <1>0, <2>1 DEF PoolTypeOK
  <2>2. ASSUME NEW w \in Workers, WorkerExits(w) \/ ExitHandler(w) \/ ThreadReturns(w)
        PROVE  <1>3!1 /\ <1>3!2
    <3>1. PICK to \in {"exiting", "reported", "left"} :
            thread[w] # "busy" /\ thread' = [thread EXCEPT ![w] = to]
      BY <2>2 DEF WorkerExits, ExitHandler, ThreadReturns
    <3> QED  BY <1>0, <3>1 DEF PoolTypeOK
  <2> QED  BY <2>1, <2>2 DEF DropPool, AllReported, WaitTimesOut, JoinAll
<1>4. PoolTypeOK'
  BY <1>0, <1>1, <1>2, <1>3 DEF PoolTypeOK
<1>5. InHand'
  <2> SUFFICES ASSUME caller' = "scope" PROVE InHand'
    BY DEF InHand
  <2>1. InHand /\ caller = "scope"
    BY <1>2 DEF PoolInv
  <2> QED  BY <1>1, <1>3, <2>1 DEF InHand
<1>6. NothingOutsideAScope' /\ ChunksAreWhole' /\ SplitIsInvisible'
  BY <1>1, <1>2, <1>3 DEF PoolInv, NothingOutsideAScope, ChunksAreWhole, SplitIsInvisible
<1>7. UnloadedAfterTheLast'
  <2>1. CASE DropPool
    BY <2>1 DEF DropPool, UnloadedAfterTheLast
  <2>2. CASE AllReported \/ WaitTimesOut
    BY <2>2 DEF AllReported, WaitTimesOut, UnloadedAfterTheLast
  <2>3. CASE JoinAll
    BY <2>3 DEF JoinAll, Joined, UnloadedAfterTheLast
  <2>4. ASSUME NEW w \in Workers, WorkerExits(w) \/ ExitHandler(w) \/ ThreadReturns(w)
        PROVE  UnloadedAfterTheLast'
    <3>1. thread[w] \notin {"none", "left"} /\ UNCHANGED <<caller, timedOut>>
      BY <2>4 DEF WorkerExits, ExitHandler, ThreadReturns
    <3>2. ~(caller = "unloaded" /\ ~timedOut)
      BY <3>1 DEF PoolInv, UnloadedAfterTheLast
    <3> QED  BY <3>1, <3>2 DEF UnloadedAfterTheLast
  <2> QED  BY <2>1, <2>2, <2>3, <2>4
<1> QED  BY <1>4, <1>5, <1>6, <1>7 DEF PoolInv

LEMMA StepKeepsPool == PoolInv /\ [PoolNext]_poolVars => PoolInv'
<1> SUFFICES ASSUME PoolInv, [PoolNext]_poolVars PROVE PoolInv'
  OBVIOUS
<1>1. CASE \E n \in 0 .. MaxTargets : SendSnapshots([i \in 1 .. n |-> i])
  BY <1>1, SendKeepsPool
<1>2. CASE CallerStep
  BY <1>2, CallerStepKeepsPool
<1>3. CASE EndScope
  BY <1>3, EndScopeKeepsPool
<1>4. CASE \E w \in Workers : TakeJob(w)
  BY <1>4, TakeJobKeepsPool
<1>5. CASE \E w \in Workers : WorkerStep(w)
  BY <1>5, WorkerStepKeepsPool
<1>6. CASE \/ DropPool \/ AllReported \/ WaitTimesOut \/ JoinAll
           \/ \E w \in Workers : WorkerExits(w) \/ ExitHandler(w) \/ ThreadReturns(w)
  BY <1>6, LeavingKeepsPool
<1>7. CASE UNCHANGED poolVars
  BY <1>7 DEF poolVars, PoolInv, PoolTypeOK, ChunksAreWhole, InHand, NothingOutsideAScope,
              SplitIsInvisible, UnloadedAfterTheLast
<1> QED  BY <1>1, <1>2, <1>3, <1>4, <1>5, <1>6, <1>7 DEF PoolNext

-----------------------------------------------------------------------------
(* The theorems.                                                           *)

(* Chunks that are whole, each in somebody's hands while a scope is open,  *)
(* sends in peer order and a library that is let go last are inductive     *)
(* together, for any number of peers, hardware threads and flushes.        *)
THEOREM PoolInvariance == PoolSpec => []PoolInv
  BY InitPool, StepKeepsPool, PTL DEF PoolSpec

(* Whatever number of threads send_snapshots splits a flush across and     *)
(* however their steps interleave, the transport is handed every synced    *)
(* peer once and in peer order.                                            *)
THEOREM TheSplitIsInvisible == PoolSpec => []SplitIsInvisible
<1>1. PoolInv => SplitIsInvisible
  BY DEF PoolInv
<1> QED  BY <1>1, PoolInvariance, PTL

(* The pool's Drop returns only when every thread it started has returned, *)
(* or when its bounded wait has given up.                                  *)
THEOREM UnloadedAfterEveryThread == PoolSpec => []UnloadedAfterTheLast
<1>1. PoolInv => UnloadedAfterTheLast
  BY DEF PoolInv
<1> QED  BY <1>1, PoolInvariance, PTL

=============================================================================
