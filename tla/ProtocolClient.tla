---------------------------- MODULE ProtocolClient ----------------------------
(***************************************************************************)
(* The connection pipeline of protocol/client.rs: one task that reads a    *)
(* TCP stream, decrypts what it read, splits it into packets, queues the   *)
(* packets undecoded, and decodes, decompresses and answers them one at a  *)
(* time while the login sequence changes the cipher, the compression and   *)
(* the protocol state under which the rest of the stream is to be read.    *)
(*                                                                         *)
(* Both directions of the socket are logs with read offsets: `sent' is     *)
(* everything the server has written, of which the splitter has completed  *)
(* `extracted' packets and the login loop (later the bot) has taken        *)
(* `handled' (raw_queue is what lies between); `replies' is everything the *)
(* client has written, of which the server has read `served'.  A packet in *)
(* a log carries how it was encoded: in which protocol state, compressed   *)
(* or not, encrypted or not.                                               *)
(* The server is not part of the repository: it is modelled from the       *)
(* packets the client knows how to answer, and waits for an answer where   *)
(* the protocol has one.                                                   *)
(***************************************************************************)
EXTENDS Integers, Sequences, FiniteSets

CONSTANTS
  Thresholds,   \* the values a login_compression packet may carry
  Legacy,       \* TRUE: protocol_version < 764, login_finished is not acknowledged
  MaxOther      \* bound on the packets the server sends beside the login sequence

ASSUME ThresholdsAssumption == Thresholds \subseteq Int
ASSUME LegacyAssumption == Legacy \in BOOLEAN
ASSUME MaxOtherAssumption == MaxOther \in Nat

VARIABLES
  \* the client (struct Client; `encrypted' is decryptor/encryptor being Some)
  status, state, compression_threshold, encrypted,
  extracted,    \* packets the splitter has completed since the connection began
  partial,      \* splitter.buffer holds the beginning of one more packet
  garbled,      \* the splitter has lost the packet boundaries of the stream
  handled,      \* packets popped from raw_queue
  \* the socket, one log per direction
  sent, replies,
  \* the server
  served, sState, sThreshold, sCipher, sWaiting, closed

clientVars == <<status, state, compression_threshold, encrypted,
                extracted, partial, garbled, handled>>
serverVars == <<served, sState, sThreshold, sCipher, sWaiting, closed>>
vars == <<clientVars, sent, replies, serverVars>>

ProtocolState == {"Handshaking", "Login", "Configuration", "Play"}
Status == {"connecting", "login", "play", "failed", "disconnected"}
Live == {"login", "play"}

ToClient == {"hello", "login_compression", "login_finished", "login_disconnect",
             "select_known_packs", "finish_configuration", "keep_alive", "ping",
             "disconnect", "opaque"}
ToServer == {"intention", "hello", "key", "login_acknowledged",
             "select_known_packs", "finish_configuration", "keep_alive", "pong"}

\* The packets after which the server says nothing until the client replied.
Gates == {"intention", "hello", "key", "login_acknowledged", "finish_configuration"}

SentPacket == [name : ToClient, state : ProtocolState, comp : BOOLEAN,
               cipher : BOOLEAN, threshold : Thresholds \cup {-1}]
Reply == [name : ToServer, state : ProtocolState, comp : BOOLEAN,
          cipher : BOOLEAN, ref : Nat]

Init ==
  /\ status = "connecting"
  /\ state = "Handshaking"
  /\ compression_threshold = -1
  /\ encrypted = FALSE
  /\ extracted = 0
  /\ partial = FALSE
  /\ garbled = FALSE
  /\ handled = 0
  /\ sent = <<>>
  /\ replies = <<>>
  /\ served = 0
  /\ sState = "Handshaking"
  /\ sThreshold = -1
  /\ sCipher = FALSE
  /\ sWaiting = "intention"
  /\ closed = FALSE

-----------------------------------------------------------------------------
(* Client::write, set_state and next_packet.                               *)

\* A packet as Client::write puts it on the wire in protocol state s.
Encoded(name, s, ref) ==
  [name |-> name, state |-> s, comp |-> compression_threshold >= 0,
   cipher |-> encrypted, ref |-> ref]

\* Writing to a socket the server has closed may or may not report an error.
WriteResults == IF closed THEN BOOLEAN ELSE {TRUE}

Write(name, ref, ok) ==
  replies' = IF ok THEN Append(replies, Encoded(name, state, ref)) ELSE replies

\* Rebuilds the codecs and resets the splitter: a packet of which it had
\* only the beginning is cut, and the rest of it is taken for a frame.
SetState(s) ==
  /\ state' = s
  /\ partial' = FALSE
  /\ garbled' = (garbled \/ partial)

UnchangedPipeline == UNCHANGED <<state, compression_threshold, encrypted, partial, garbled>>

\* Client::connect and the opening of Client::login.
Connect ==
  /\ status = "connecting"
  /\ \/ /\ status' = "login"
        /\ state' = "Login"
        /\ replies' = <<Encoded("intention", "Handshaking", 0),
                        Encoded("hello", "Login", 0)>>
     \/ /\ status' = "failed"
        /\ UNCHANGED <<state, replies>>
  /\ UNCHANGED <<compression_threshold, encrypted, extracted, partial, garbled,
                 handled, sent, serverVars>>

\* Mutant of ReadSocket: a splitter that keeps no partial packet.
ReadSocketNoTail(e, p) ==
  /\ status \in Live
  /\ handled = extracted
  /\ e \in extracted .. Len(sent)
  /\ p => e < Len(sent)
  /\ e > extracted \/ (p /\ ~partial)
  /\ extracted' = e
  /\ partial' = FALSE
  /\ garbled' = p
  /\ UNCHANGED <<status, state, compression_threshold, encrypted, handled,
                 sent, replies, serverVars>>

\* One read of the socket, tried only when raw_queue is empty.  The chunk
\* completes the packets up to e and holds the beginning of the next when p.
\* It is decrypted as a whole, then split; a chunk read under the wrong
\* cipher, or into a splitter that lost the boundaries, yields nothing
\* (what it would yield is arbitrary bytes).
ReadSocket(e, p) ==
  /\ status \in Live
  /\ handled = extracted
  /\ e \in extracted .. Len(sent)
  /\ p => e < Len(sent)
  /\ e > extracted \/ (p /\ ~partial)
  /\ LET last == IF p THEN e + 1 ELSE e
         readable == \A k \in extracted + 1 .. last : (sent[k].cipher <=> encrypted)
     IN  IF readable /\ ~garbled
         THEN /\ extracted' = e
              /\ partial' = p
              /\ UNCHANGED garbled
         ELSE /\ garbled' = TRUE
              /\ partial' = TRUE
              /\ UNCHANGED extracted
  /\ UNCHANGED <<status, state, compression_threshold, encrypted, handled,
                 sent, replies, serverVars>>

\* read() returns 0 once everything the server wrote has been read, or an
\* error if the server reset the connection.
SocketEnd ==
  /\ status \in Live
  /\ handled = extracted
  /\ closed
  /\ \/ /\ extracted = Len(sent) \/ garbled
        /\ status' = IF status = "login" THEN "failed" ELSE "disconnected"
     \/ status' = "failed"
  /\ UNCHANGED <<state, compression_threshold, encrypted, extracted, partial,
                 garbled, handled, sent, replies, serverVars>>

\* The head of raw_queue: the packet next_packet takes next.
Current == sent[handled + 1]

\* Mutant of Decodes: a threshold of 0, "compress everything", taken for "off".
DecodesIfPositive(p) == p.state = state /\ (p.comp <=> compression_threshold > 0)
\* The state's codec and the threshold in force are those it was written for.
Decodes(p) == p.state = state /\ (p.comp <=> compression_threshold >= 0)

Pop ==
  /\ status \in Live
  /\ handled < extracted
  /\ handled' = handled + 1
  /\ UNCHANGED <<extracted, sent, serverVars>>

\* Mutant of SkipPacket: an undecodable packet stays at the head of the queue.
SkipNothing ==
  /\ Pop
  /\ Current.name # "opaque" /\ ~Decodes(Current)
  /\ UnchangedPipeline
  /\ UNCHANGED <<status, replies>>

\* An undecodable packet is skipped; so is one nobody has a handler for.
\* Inflating what was never deflated is an error of next_packet.
SkipPacket ==
  /\ Pop
  /\ Current.name = "opaque" \/ ~Decodes(Current)
  /\ status' = IF compression_threshold >= 0 /\ ~Current.comp THEN "failed" ELSE status
  /\ UnchangedPipeline
  /\ UNCHANGED replies

Receive(name) == Pop /\ Decodes(Current) /\ Current.name = name

-----------------------------------------------------------------------------
(* The handlers of the login loop, and those of the bot's play loop.       *)

\* Mutant of HandleEncryption: the cipher is switched before "key" is written.
HandleEncryptionEarly ==
  /\ status = "login"
  /\ Receive("hello")
  /\ encrypted' = TRUE
  /\ replies' = Append(replies, [Encoded("key", state, 0) EXCEPT !.cipher = TRUE])
  /\ UNCHANGED <<status, state, compression_threshold, partial, garbled>>

\* handle_encryption: join the session server, RSA-encrypt the secret and
\* the challenge, write "key" in the clear, and only then switch ciphers.
HandleEncryption ==
  /\ status = "login"
  /\ Receive("hello")
  /\ \/ /\ Write("key", 0, TRUE)
        /\ encrypted' = TRUE
        /\ UNCHANGED status
     \/ /\ status' = "failed"    \* session server, RSA or socket error
        /\ UNCHANGED <<replies, encrypted>>
  /\ UNCHANGED <<state, compression_threshold, partial, garbled>>

HandleCompression ==
  /\ status = "login"
  /\ Receive("login_compression")
  /\ compression_threshold' = Current.threshold
  /\ UNCHANGED <<status, state, encrypted, partial, garbled, replies>>

HandleLoginFinished ==
  /\ status = "login"
  /\ Receive("login_finished")
  /\ IF Legacy
     THEN /\ SetState("Play")
          /\ status' = "play"
          /\ UNCHANGED replies
     ELSE \E ok \in WriteResults :
            /\ Write("login_acknowledged", 0, ok)
            /\ IF ok THEN SetState("Configuration") /\ UNCHANGED status
               ELSE status' = "failed" /\ UNCHANGED <<state, partial, garbled>>
  /\ UNCHANGED <<compression_threshold, encrypted>>

HandleSelectKnownPacks ==
  /\ status = "login"
  /\ Receive("select_known_packs")
  /\ \E ok \in WriteResults :
       /\ Write("select_known_packs", 0, ok)
       /\ status' = IF ok THEN status ELSE "failed"
  /\ UnchangedPipeline

HandleFinishConfiguration ==
  /\ status = "login"
  /\ Receive("finish_configuration")
  /\ \E ok \in WriteResults :
       /\ Write("finish_configuration", 0, ok)
       /\ IF ok THEN SetState("Play") /\ status' = "play"
          ELSE status' = "failed" /\ UNCHANGED <<state, partial, garbled>>
  /\ UNCHANGED <<compression_threshold, encrypted>>

\* Mutant of HandleKeepAlive: the id is not found in the packet and 0 is echoed.
HandleKeepAliveNoId ==
  /\ Receive("keep_alive")
  /\ \E ok \in WriteResults :
       /\ Write("keep_alive", 0, ok)
       /\ status' = IF ok THEN status ELSE "failed"
  /\ UnchangedPipeline

\* Echoed with its id, in the login loop and by Bot::handle_packet alike.
HandleKeepAlive ==
  /\ Receive("keep_alive")
  /\ \E ok \in WriteResults :
       /\ Write("keep_alive", handled + 1, ok)
       /\ status' = IF ok THEN status ELSE "failed"
  /\ UnchangedPipeline

\* The login loop ignores a failing pong, the bot does not.
HandlePing ==
  /\ Receive("ping")
  /\ \E ok \in WriteResults :
       /\ Write("pong", handled + 1, ok)
       /\ status' = IF ok \/ status = "login" THEN status ELSE "failed"
  /\ UnchangedPipeline

\* Login gives up; the bot reports Kicked and goes on until the socket ends.
HandleDisconnect ==
  /\ Receive("disconnect") \/ (status = "login" /\ Receive("login_disconnect"))
  /\ status' = IF status = "login" THEN "failed" ELSE status
  /\ UnchangedPipeline
  /\ UNCHANGED replies

Handle ==
  \/ SkipPacket
  \/ HandleEncryption
  \/ HandleCompression
  \/ HandleLoginFinished
  \/ HandleSelectKnownPacks
  \/ HandleFinishConfiguration
  \/ HandleKeepAlive
  \/ HandlePing
  \/ HandleDisconnect

-----------------------------------------------------------------------------
(* The server (external).                                                  *)

CanSend == ~closed /\ sWaiting = "none"

LoginSequence == {"hello", "login_compression", "login_finished", "finish_configuration"}

\* The packets beside the login sequence; MaxOther bounds how many are sent.
Others == {k \in 1 .. Len(sent) : sent[k].name \notin LoginSequence}
MaxSent == MaxOther + Cardinality(LoginSequence)

Send(name, threshold) ==
  /\ CanSend
  /\ sent' = Append(sent, [name |-> name, state |-> sState, comp |-> sThreshold >= 0,
                           cipher |-> sCipher, threshold |-> threshold])
  /\ UNCHANGED <<clientVars, replies, served, sCipher, closed>>

\* Ask for encryption; nothing is sent before the key has arrived.
ServerHello ==
  /\ sState = "Login" /\ ~sCipher
  /\ \A k \in 1 .. Len(sent) : sent[k].name # "login_compression"
  /\ Send("hello", -1)
  /\ sWaiting' = "key"
  /\ UNCHANGED <<sState, sThreshold>>

\* Sent in the old format; everything after it is in the new one.
ServerCompression(t) ==
  /\ sState = "Login"
  /\ \A k \in 1 .. Len(sent) : sent[k].name # "login_compression"
  /\ Send("login_compression", t)
  /\ sThreshold' = t
  /\ UNCHANGED <<sState, sWaiting>>

ServerLoginFinished ==
  /\ sState = "Login"
  /\ Send("login_finished", -1)
  /\ IF Legacy THEN sState' = "Play" /\ UNCHANGED sWaiting
     ELSE sWaiting' = "login_acknowledged" /\ UNCHANGED sState
  /\ UNCHANGED sThreshold

ServerFinishConfiguration ==
  /\ sState = "Configuration"
  /\ Send("finish_configuration", -1)
  /\ sWaiting' = "finish_configuration"
  /\ UNCHANGED <<sState, sThreshold>>

\* Packets that ask for an answer but not for a pause, and packets that
\* the client does not decode or has no handler for.
ServerSendOther(name) ==
  /\ \/ name = "opaque"
     \/ name \in {"keep_alive", "ping", "disconnect"} /\ sState \in {"Configuration", "Play"}
     \/ name = "select_known_packs" /\ sState = "Configuration"
     \/ name = "login_disconnect" /\ sState = "Login"
  /\ Cardinality(Others) < MaxOther
  /\ Send(name, -1)
  /\ UNCHANGED <<sState, sThreshold, sWaiting>>

\* The protocol state a reply puts its reader into.
AfterReply(name, s) ==
  IF name = "intention" THEN "Login"
  ELSE IF name = "login_acknowledged" THEN "Configuration"
  ELSE IF name = "finish_configuration" THEN "Play" ELSE s

\* The server takes the next reply; the ones it was waiting for let it go on.
ServerReceive ==
  /\ ~closed
  /\ served < Len(replies)
  /\ served' = served + 1
  /\ LET name == replies[served + 1].name
     IN  /\ sState' = AfterReply(name, sState)
         /\ sCipher' = (sCipher \/ name = "key")
         /\ sWaiting' = IF name # sWaiting THEN sWaiting
                        ELSE IF name = "intention" THEN "hello" ELSE "none"
  /\ UNCHANGED <<clientVars, sent, replies, sThreshold, closed>>

ServerClose ==
  /\ status # "connecting"
  /\ ~closed
  /\ closed' = TRUE
  /\ UNCHANGED <<clientVars, sent, replies, served, sState, sThreshold, sCipher, sWaiting>>

Server ==
  \/ ServerHello
  \/ \E t \in Thresholds : ServerCompression(t)
  \/ ServerLoginFinished
  \/ ServerFinishConfiguration
  \/ \E name \in ToClient : ServerSendOther(name)
  \/ ServerReceive
  \/ ServerClose

-----------------------------------------------------------------------------
Read == \E e \in extracted .. Len(sent), p \in BOOLEAN : ReadSocket(e, p)

Next == Connect \/ Read \/ SocketEnd \/ Handle \/ Server

Spec == Init /\ [][Next]_vars

\* The client's task is polled whenever its socket is readable; the server
\* owes nothing.
FairSpec == Spec /\ WF_vars(Read) /\ WF_vars(SocketEnd) /\ WF_vars(Handle)

-----------------------------------------------------------------------------
TypeOK ==
  /\ status \in Status
  /\ state \in ProtocolState
  /\ compression_threshold \in Thresholds \cup {-1}
  /\ encrypted \in BOOLEAN
  /\ extracted \in Nat
  /\ partial \in BOOLEAN
  /\ garbled \in BOOLEAN
  /\ handled \in Nat
  /\ sent \in Seq(SentPacket)
  /\ replies \in Seq(Reply)
  /\ served \in Nat
  /\ sState \in ProtocolState
  /\ sThreshold \in Thresholds \cup {-1}
  /\ sCipher \in BOOLEAN
  /\ sWaiting \in Gates \cup {"none"}
  /\ closed \in BOOLEAN

\* client.rs 33-36: whatever mixture of packets one TCP read brought, the
\* next packet taken from raw_queue is decoded in the protocol state and
\* with the compression the server encoded it with.
DecodesAsSent ==
  status \in Live /\ handled < extracted => Decodes(Current)

\* Every byte is decrypted with the cipher it was encrypted with and no
\* byte is dropped: set_state never resets the splitter with a packet half
\* read, so the packet boundaries are never lost (framing.rs 14-15).
KeepsBoundaries == ~garbled

\* Whatever the client writes, the server reads in the protocol state, with
\* the compression and the cipher it was written with: "key" goes out in
\* the clear, everything after it encrypted, and no reply crosses a change.
ServerUnderstands ==
  ~closed /\ served < Len(replies) =>
    LET r == replies[served + 1]
    IN  r.state = sState /\ (r.comp <=> sThreshold >= 0) /\ (r.cipher <=> sCipher)

\* Each keep_alive the client took is answered exactly once, with its own
\* id, in the order of arrival, across the change from the login loop to
\* the bot; only a failing write leaves one out.
KeepAlivesEchoed ==
  /\ \A k \in 1 .. handled :
       sent[k].name = "keep_alive" =>
         \/ status = "failed" /\ k = handled
         \/ \E j \in 1 .. Len(replies) : replies[j].name = "keep_alive" /\ replies[j].ref = k
  /\ \A i, j \in 1 .. Len(replies) :
       i < j /\ replies[i].name = "keep_alive" /\ replies[j].name = "keep_alive"
         => replies[i].ref < replies[j].ref

\* Every packet the server sends is taken by the client, unless the
\* connection ends: no partial read, cipher change or state change leaves
\* the task waiting for bytes it already has.
EveryPacketTaken ==
  \A k \in 1 .. MaxSent :
    (status \in Live /\ Len(sent) >= k) ~> (handled >= k \/ status \notin Live)

=============================================================================
