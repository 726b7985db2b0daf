-------------------------------- MODULE Session --------------------------------
(***************************************************************************)
(* The join handshake and the identity a connection is seated under.       *)
(*                                                                         *)
(* A client opens with its half of the session nonce, is challenged with   *)
(* the acceptor's half, seats the key of the pair and confirms; the server *)
(* seats the connection and answers with a welcome sealed under that key.  *)
(* The hello is retried until the welcome lands.  A connection carries an  *)
(* identity; when it drops, the identity is held for a grace window, and a *)
(* claim that quotes the token the server minted for it takes it back.     *)
(*                                                                         *)
(* Abstractions.  The three frames are RELIABLE, so each connection is one *)
(* queue per direction, lost only with its connection or by a server whose *)
(* mode is not yet set.  A draw is a fresh number and a key is the values  *)
(* it is derived from.  A client of another protocol major is never heard. *)
(* Wall time is left out: a retry, a drop and the end of a window come at  *)
(* any moment.  Signals to the game are outputs and are not kept.          *)
(***************************************************************************)
EXTENDS Naturals, Sequences, FiniteSets

CONSTANTS
    Player,         \* client processes
    Conn,           \* transport peer ids of clients, handed out again
    Identity,       \* session ids other than 0
    Claims,         \* Claims[p]: the session ids p may present, 0 included
    Secrets,        \* Secrets[p]: p's session secret, "none", "good" or "bad"
    Pins,           \* Pins[p]: the server keys p may pin, "none", "good", "bad"
    ServerSecret,   \* the server's own session secret
    ServerStatic,   \* whether the server holds a static exchange key
    Settings,       \* resume policies the game may ask for
    Graces,         \* whether a grace window is configured when a drop lands
    MaxJoins,       \* bound on start() calls, over all clients
    MaxQueue        \* bound on a connection's frames in flight at a hello

ASSUME SessionAssumption ==
    /\ 0 \notin Conn /\ 0 \notin Identity
    /\ Claims \in [Player -> SUBSET (Identity \union {0})]
    /\ Secrets \in [Player -> {"none", "good", "bad"}]
    /\ Pins \in [Player -> SUBSET {"none", "good", "bad"}]
    /\ ServerSecret \in {"none", "good"} /\ ServerStatic \in BOOLEAN
    /\ Graces \subseteq BOOLEAN
    /\ MaxJoins \in Nat /\ MaxQueue \in Nat

VARIABLES
    up,          \* the server's mode has been set
    policy,      \* resume_policy
    client,      \* each client's join fields
    open,        \* connections the server's transport still has
    peers,       \* the server's PeerState, by connection
    challenges,  \* the server's PendingJoin, by connection
    resume,      \* ResumeTable, by identity
    toServer,    \* hellos in flight, by connection
    toClient,    \* challenges and welcomes in flight, by connection
    joins,       \* joiner halves drawn
    minted,      \* acceptor halves drawn
    tokens       \* resume tokens drawn

vars == <<up, policy, client, open, peers, challenges, resume, toServer,
          toClient, joins, minted, tokens>>

Draw == Nat                  \* 0: not drawn

Policy == {"always", "only_if_dropped", "never"}

Secret == {"none", "good", "bad"}

Key == [joiner : Draw, acceptor : Draw, secret : Secret, exchange : Secret]

NoKey == [joiner |-> 0, acceptor |-> 0, secret |-> "none", exchange |-> "none"]

Client ==
    [conn : Conn \union {0}, joiner : Draw, pin : Secret, key : Key,
     session : Identity \union {0}, token : Draw, synced : BOOLEAN]

Stopped(token) ==
    [conn |-> 0, joiner |-> 0, pin |-> "none", key |-> NoKey,
     session |-> 0, token |-> token, synced |-> FALSE]

Peer == [key : Key, session : Identity \union {0}, token : Draw]

NoPeer == [key |-> NoKey, session |-> 0, token |-> 0]

PendingJoin == [joiner : Draw, acceptor : Draw]

NoJoin == [joiner |-> 0, acceptor |-> 0]

Held == [peer : Conn \union {0}, token : Draw]

NotHeld == [peer |-> 0, token |-> 0]

Hello ==
    [joiner : Draw, acceptor : Draw, session : Identity \union {0},
     token : Draw, offer : BOOLEAN, confirm : Key]

Challenge ==
    [kind : {"challenge"}, joiner : Draw, acceptor : Draw, exchange : BOOLEAN]

Welcome == [kind : {"welcome"}, key : Key, token : Draw]

(* Every table has its shape, and the policy is one this build knows.      *)
TypeOK ==
    /\ up \in BOOLEAN /\ policy \in Policy
    /\ client \in [Player -> Client]
    /\ open \subseteq Conn
    /\ peers \in [Conn -> Peer] /\ challenges \in [Conn -> PendingJoin]
    /\ resume \in [Identity -> Held]
    /\ toServer \in [Conn -> Seq(Hello)]
    /\ toClient \in [Conn -> Seq(Challenge \union Welcome)]
    /\ joins \in Draw /\ minted \in Draw /\ tokens \in Draw

Init ==
    /\ up = FALSE /\ policy = "always"
    /\ client = [p \in Player |-> Stopped(0)]
    /\ open = {}
    /\ peers = [c \in Conn |-> NoPeer]
    /\ challenges = [c \in Conn |-> NoJoin]
    /\ resume = [s \in Identity |-> NotHeld]
    /\ toServer = [c \in Conn |-> <<>>]
    /\ toClient = [c \in Conn |-> <<>>]
    /\ joins = 0 /\ minted = 0 /\ tokens = 0

Listening(c) == \E p \in Player : client[p].conn = c

InFlight(c) == Len(toServer[c]) + Len(toClient[c])

-----------------------------------------------------------------------------
(* The client.                                                             *)

\* Whichever leg this client is on: the confirmation once it holds a key.  The
\* tag is taken over the key, and only under a secret of either kind.
HelloOf(cl) ==
    [joiner |-> cl.joiner, acceptor |-> cl.key.acceptor,
     session |-> cl.session, token |-> cl.token, offer |-> cl.pin # "none",
     confirm |-> IF cl.key.secret = "none" /\ cl.key.exchange = "none"
                 THEN NoKey ELSE cl.key]

\* A fresh half, no key and no session; the identity and the token quoted are
\* the game's, set before the handshake.
Started(p, c, s, pin) ==
    [conn |-> c, joiner |-> joins + 1, pin |-> pin, key |-> NoKey,
     session |-> s, token |-> client[p].token, synced |-> FALSE]

\* The transport connects and the client starts on it: the opening hello goes.
Join(p, c) ==
    /\ client[p].conn = 0 /\ c \notin open /\ ~ Listening(c)
    /\ joins < MaxJoins
    /\ \E s \in Claims[p], pin \in Pins[p] :
          /\ client' = [client EXCEPT ![p] = Started(p, c, s, pin)]
          /\ toServer' = [toServer EXCEPT ![c] = <<HelloOf(client'[p])>>]
    /\ open' = open \union {c}
    /\ joins' = joins + 1
    /\ UNCHANGED <<up, policy, peers, challenges, resume, toClient, minted,
                   tokens>>

\* stop() and start() on a live connection.
Restart(p) ==
    LET c == client[p].conn
    IN  /\ c # 0 /\ joins < MaxJoins
        /\ InFlight(c) < MaxQueue
        /\ \E s \in Claims[p], pin \in Pins[p] :
              /\ client' = [client EXCEPT ![p] = Started(p, c, s, pin)]
              /\ toServer' =
                    IF c \in open
                    THEN [toServer EXCEPT ![c] = Append(@, HelloOf(client'[p]))]
                    ELSE toServer
        /\ joins' = joins + 1
        /\ UNCHANGED <<up, policy, open, peers, challenges, resume, toClient,
                       minted, tokens>>

\* The retry timer, until the welcome lands.
RetryHello(p) ==
    LET c == client[p].conn
    IN  /\ c # 0 /\ ~ client[p].synced
        /\ c \in open /\ InFlight(c) < MaxQueue
        /\ toServer' = [toServer EXCEPT ![c] = Append(@, HelloOf(client[p]))]
        /\ UNCHANGED <<up, policy, client, open, peers, challenges, resume,
                       toClient, joins, minted, tokens>>

\* The client goes: its process ends, its game leaves, or it has seen the
\* server's end close.  The server keeps a ghost until its transport notices;
\* what this client sent is still on its way.
Leave(p) ==
    LET c == client[p].conn
    IN  /\ c # 0
        /\ client' = [client EXCEPT ![p] = Stopped(@.token)]
        /\ toClient' = [toClient EXCEPT ![c] = <<>>]
        /\ UNCHANGED <<up, policy, open, peers, challenges, resume, toServer,
                       joins, minted, tokens>>

\* challenge_answer: ignore another join's challenge, refuse one without the
\* exchange a pin asks for, confirm again under the half held, adopt a new one.
Ignored(cl, m) ==
    \/ cl.synced
    \/ m.joiner # cl.joiner
    \/ cl.pin # "none" /\ ~ m.exchange

Adopted(p, m) ==
    [joiner |-> m.joiner, acceptor |-> m.acceptor, secret |-> Secrets[p],
     exchange |-> client[p].pin]

HandleChallenge(p) ==
    LET cl == client[p]
        c  == cl.conn
        m  == Head(toClient[c])
        answered == [cl EXCEPT !.key = Adopted(p, m)]
    IN  /\ c # 0 /\ toClient[c] # <<>> /\ m.kind = "challenge"
        /\ toClient' = [toClient EXCEPT ![c] = Tail(@)]
        /\ \/ /\ Ignored(cl, m)
              /\ UNCHANGED <<client, toServer>>
           \/ /\ ~ Ignored(cl, m)
              /\ client' = [client EXCEPT ![p] = answered]
              /\ toServer' = IF c \in open
                             THEN [toServer EXCEPT ![c] =
                                     Append(@, HelloOf(answered))]
                             ELSE toServer
        /\ UNCHANGED <<up, policy, open, peers, challenges, resume, joins,
                       minted, tokens>>

\* Mutant: a client with no key yet opens anything.
OpensUnkeyed(cl, m) == cl.key = NoKey \/ m.key = cl.key

\* A sealed frame opens under the key it was sealed with, and with none nothing.
Opens(cl, m) == m.key = cl.key

\* A welcome under another key is refused, and a second one changes nothing.
\* A token of 0 does not clear the one stored.
IntegrateWelcome(p) ==
    LET cl == client[p]
        c  == cl.conn
        m  == Head(toClient[c])
    IN  /\ c # 0 /\ toClient[c] # <<>> /\ m.kind = "welcome"
        /\ toClient' = [toClient EXCEPT ![c] = Tail(@)]
        /\ client' =
              IF Opens(cl, m) /\ ~ cl.synced
              THEN [client EXCEPT
                      ![p].synced = TRUE,
                      ![p].token = IF m.token # 0 THEN m.token ELSE @]
              ELSE client
        /\ UNCHANGED <<up, policy, open, peers, challenges, resume, toServer,
                       joins, minted, tokens>>

-----------------------------------------------------------------------------
(* The server.                                                             *)

StartServer ==
    /\ ~ up /\ up' = TRUE
    /\ UNCHANGED <<policy, client, open, peers, challenges, resume, toServer,
                   toClient, joins, minted, tokens>>

\* clamp_resume_policy: an unknown value falls onto ALWAYS.
ClampPolicy(q) == IF q \in Policy THEN q ELSE "always"

SetResumePolicy(q) ==
    /\ policy' = ClampPolicy(q)
    /\ UNCHANGED <<up, client, open, peers, challenges, resume, toServer,
                   toClient, joins, minted, tokens>>

\* One half per (connection, joiner half).
ChallengeHalf(c, h) ==
    IF challenges[c].joiner = h.joiner THEN challenges[c]
    ELSE [joiner |-> h.joiner, acceptor |-> minted + 1]

\* Mutant: the exchange is compared and not seated.
SessionKeyBare(h, a) ==
    [joiner |-> h.joiner, acceptor |-> a, secret |-> ServerSecret,
     exchange |-> "none"]

\* The exchange runs when both ends offer one.
SessionKey(h, a) ==
    [joiner |-> h.joiner, acceptor |-> a, secret |-> ServerSecret,
     exchange |-> IF ServerStatic /\ h.offer THEN "good" ELSE "none"]

\* exchange_downgraded, then check_compatibility.
Refused(c, h, key) ==
    \/ peers[c].key.exchange # "none" /\ key.exchange = "none"
    \/ /\ key.secret # "none" \/ key.exchange # "none"
       /\ h.confirm # key

Incumbents(c, s) == {d \in Conn \ {c} : s # 0 /\ peers[d].session = s}

Holds(s) == s # 0 /\ resume[s].peer # 0

\* The held record wins as the source of the token.
TokenOnRecord(c, s) ==
    IF Holds(s) /\ resume[s].token # 0 THEN resume[s].token
    ELSE IF Incumbents(c, s) # {}
         THEN peers[CHOOSE d \in Incumbents(c, s) : TRUE].token
         ELSE 0

\* Mutant: only a held session is guarded by its token.
ResumeGrantUnguarded(c, h) ==
    /\ policy # "never"
    /\ Holds(h.session) => resume[h.session].token = h.token
    /\ Incumbents(c, h.session) # {} => policy = "always"

ResumeGrant(c, h) ==
    LET record == TokenOnRecord(c, h.session)
    IN  /\ policy # "never"
        /\ record # 0 => h.token = record
        /\ Incumbents(c, h.session) # {} => policy = "always"

\* Mutant: a refused claim keeps the identity it named.
SeatedIdentityKept(c, h) == h.session

\* A refused claim is anonymous while anything else holds the identity.
SeatedIdentity(c, h) ==
    IF \/ ResumeGrant(c, h)
       \/ Incumbents(c, h.session) = {} /\ ~ Holds(h.session)
    THEN h.session ELSE 0

\* Mutant: a granted resume draws a new token.
SeatTokenAnew(c, h) ==
    IF SeatedIdentity(c, h) = 0 \/ peers[c].token # 0 THEN peers[c].token
    ELSE tokens + 1

\* Drawn once per connection, carried forward by a granted resume, and never
\* given to an anonymous seat.
SeatToken(c, h) ==
    LET record == TokenOnRecord(c, h.session)
    IN  IF SeatedIdentity(c, h) = 0 \/ peers[c].token # 0 THEN peers[c].token
        ELSE IF ResumeGrant(c, h) /\ record # 0 THEN record
        ELSE tokens + 1

\* The confirmation: supersede, spend the window, seat, and answer.
SeatHello(c, h, key) ==
    LET s      == h.session
        losers == IF ResumeGrant(c, h) THEN Incumbents(c, s) ELSE {}
        spent  == ResumeGrant(c, h) /\ Holds(s)
                    /\ resume[s].token \in {0, h.token}
        token  == SeatToken(c, h)
    IN  /\ peers' = [d \in Conn |->
              IF d = c THEN [key |-> key, session |-> SeatedIdentity(c, h),
                             token |-> token]
              ELSE IF d \in losers THEN [peers[d] EXCEPT !.session = 0]
              ELSE peers[d]]
        /\ resume' = IF spent THEN [resume EXCEPT ![s] = NotHeld] ELSE resume
        /\ tokens' = IF token = tokens + 1 THEN token ELSE tokens
        /\ toClient' =
              IF Listening(c)
              THEN [toClient EXCEPT ![c] =
                      Append(@, [kind |-> "welcome", key |-> key,
                                 token |-> token])]
              ELSE toClient

HandleHello(c) ==
    LET h       == Head(toServer[c])
        pending == ChallengeHalf(c, h)
        key     == SessionKey(h, pending.acceptor)
    IN  /\ c \in open /\ toServer[c] # <<>>
        /\ toServer' = [toServer EXCEPT ![c] = Tail(@)]
        /\ UNCHANGED <<up, policy, client, open, joins>>
        /\ \/ /\ ~ up
              /\ UNCHANGED <<peers, challenges, resume, toClient, minted,
                             tokens>>
           \/ /\ up
              /\ challenges' = [challenges EXCEPT ![c] = pending]
              /\ minted' = IF pending = challenges[c] THEN minted
                           ELSE pending.acceptor
              /\ \/ /\ h.acceptor # pending.acceptor
                    /\ toClient' =
                          IF Listening(c)
                          THEN [toClient EXCEPT ![c] = Append(@,
                                 [kind |-> "challenge", joiner |-> h.joiner,
                                  acceptor |-> pending.acceptor,
                                  exchange |-> ServerStatic /\ h.offer])]
                          ELSE toClient
                    /\ UNCHANGED <<peers, resume, tokens>>
                 \/ /\ h.acceptor = pending.acceptor /\ Refused(c, h, key)
                    /\ UNCHANGED <<peers, resume, toClient, tokens>>
                 \/ /\ h.acceptor = pending.acceptor /\ ~ Refused(c, h, key)
                    /\ SeatHello(c, h, key)

HoldOnDrop(c, grace) == grace /\ peers[c].session # 0

\* Mutant: the pending halves outlive the connection they were drawn for.
ForgetChallengeNever(c) == challenges

ForgetChallenge(c) == [challenges EXCEPT ![c] = NoJoin]

\* The transport reports the connection gone; its row and its pending halves
\* go with it, and its identity is held.
PeerDisconnected(c) ==
    /\ c \in open
    /\ open' = open \ {c}
    /\ \E grace \in Graces :
          resume' = IF HoldOnDrop(c, grace)
                    THEN [resume EXCEPT ![peers[c].session] =
                            [peer |-> c, token |-> peers[c].token]]
                    ELSE resume
    /\ peers' = [peers EXCEPT ![c] = NoPeer]
    /\ challenges' = ForgetChallenge(c)
    /\ toServer' = [toServer EXCEPT ![c] = <<>>]
    /\ UNCHANGED <<up, policy, client, toClient, joins, minted, tokens>>

\* A grace window closes.
ExpireHeld(s) ==
    /\ Holds(s)
    /\ resume' = [resume EXCEPT ![s] = NotHeld]
    /\ UNCHANGED <<up, policy, client, open, peers, challenges, toServer,
                   toClient, joins, minted, tokens>>

-----------------------------------------------------------------------------
Next ==
    \/ \E p \in Player, c \in Conn : Join(p, c)
    \/ \E p \in Player : Restart(p)
    \/ \E p \in Player : RetryHello(p)
    \/ \E p \in Player : Leave(p)
    \/ \E p \in Player : HandleChallenge(p)
    \/ \E p \in Player : IntegrateWelcome(p)
    \/ StartServer
    \/ \E q \in Settings : SetResumePolicy(q)
    \/ \E c \in Conn : HandleHello(c)
    \/ \E c \in Conn : PeerDisconnected(c)
    \/ \E s \in Identity : ExpireHeld(s)

Spec == Init /\ [][Next]_vars

(* Fairness: the server's mode is set in the end, the transport delivers   *)
(* what it accepted while both ends stay, and the retry timer keeps        *)
(* firing.  Nothing makes a client leave or a window close.                *)
Fairness ==
    /\ WF_vars(StartServer)
    /\ \A p \in Player : /\ WF_vars(RetryHello(p))
                         /\ WF_vars(HandleChallenge(p) \/ IntegrateWelcome(p))
    /\ \A c \in Conn : WF_vars(HandleHello(c))

FairSpec == Spec /\ Fairness

-----------------------------------------------------------------------------
(* The properties.                                                         *)

(* No identity is seated on two connections, nor on one while a window is  *)
(* open on it: peer_session_id and is_session_held tell the truth.         *)
OneHolder ==
    \A s \in Identity, c, d \in Conn :
        peers[c].session = s =>
            /\ peers[d].session = s => c = d
            /\ ~ Holds(s)

(* Nothing of a connection outlives it: whoever is handed its id next is   *)
(* challenged afresh and seated afresh.                                    *)
NothingOutlives ==
    \A c \in Conn \ open :
        peers[c] = NoPeer /\ challenges[c] = NoJoin /\ toServer[c] = <<>>

(* A synced client and the server's row for its connection are on the same *)
(* key, whatever was retried, restarted or rekeyed on the way: neither end *)
(* refuses the other's datagrams.                                          *)
KeysAgree ==
    \A p \in Player :
        client[p].synced /\ client[p].conn \in open
            => peers[client[p].conn].key = client[p].key

(* A hello that takes an identity from a live connection, or ends its held *)
(* window, quoted the token on record for it; and only under the ALWAYS    *)
(* policy does a live connection lose its identity to another.             *)
TakenByToken ==
    [][\A c, d \in Conn :
          toServer[c] # <<>> /\ toServer'[c] = Tail(toServer[c])
            /\ d \in open' =>
             LET h == Head(toServer[c]) IN
             /\ d # c /\ peers[d].session # peers'[d].session
                   => policy = "always" /\ h.token = peers[d].token
             /\ \A s \in Identity : Holds(s) /\ resume'[s] # resume[s]
                   => h.session = s /\ h.token = resume[s].token]_vars

\* The token on record for s: held, or on the connection it is seated on.
RecordOf(s) ==
    {resume[s].token} \union {peers[c].token : c \in {d \in Conn :
                                               peers[d].session = s}}

(* The token on record for an identity does not change while the identity  *)
(* lives, seated or held: the value its client stored stays good.  Only a  *)
(* claim that quotes it may replace it, on a connection that was given a   *)
(* token of its own before, for another identity or another life of this.  *)
RecordTokenIsKept ==
    [][\A s \in Identity :
          LET before == RecordOf(s) \ {0}
              after  == RecordOf(s)' \ {0}
          IN  before # {} /\ after # {} =>
                \/ before = after
                \/ \E c \in Conn :
                      /\ peers'[c].session = s
                      /\ peers[c].token \notin before \union {0}
                      /\ toServer[c] # <<>> /\ Head(toServer[c]).token \in before]_vars

\* A client whose regime matches the server's, and does not give up an exchange
\* its connection was seated through.
Matched(p) ==
    /\ Secrets[p] = ServerSecret
    /\ \/ client[p].pin = "good" /\ ServerStatic
       \/ client[p].pin = "none" /\ peers[client[p].conn].key.exchange = "none"

(* A join whose connection stays up and whose secrets match ends synced.   *)
JoinConverges ==
    \A p \in Player :
        ~ <>[](client[p].conn \in open /\ Matched(p) /\ ~ client[p].synced)

=============================================================================
