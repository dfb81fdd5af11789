------------------------- MODULE ProtocolClientProofs -------------------------
(***************************************************************************)
(* Proofs about ProtocolClient, for the protocol versions that acknowledge *)
(* login_finished (Legacy = FALSE).  The argument: a packet that changes   *)
(* how the stream is encoded is either a gate, after which the server is   *)
(* silent until the client has answered, or login_compression, which is    *)
(* decoded before anything behind it.  So what lies between the two ends   *)
(* of either direction is always encoded the way its reader will read it.  *)
(***************************************************************************)
EXTENDS ProtocolClient, TLAPS, SequenceTheorems, FiniteSetTheorems

GateNames == {"hello", "login_finished", "finish_configuration"}
AnswerTo(name) == IF name = "hello" THEN "key"
                  ELSE IF name = "login_finished" THEN "login_acknowledged"
                  ELSE "finish_configuration"

\* The read offsets never pass the end of their log.
Offsets ==
  /\ handled <= extracted
  /\ extracted <= Len(sent)
  /\ partial => extracted < Len(sent)
  /\ served <= Len(replies)
  /\ ~garbled

Untaken == handled + 1 .. Len(sent)
Unserved == served + 1 .. Len(replies)

\* The server has not begun to speak.
Opening ==
  /\ status = "connecting" => replies = <<>> /\ sWaiting = "intention"
  /\ sWaiting = "intention" \/ sWaiting = "hello" =>
       /\ sent = <<>> /\ compression_threshold = -1 /\ ~encrypted
       /\ sThreshold = -1 /\ ~sCipher
  /\ sWaiting = "intention" =>
       /\ served = 0 /\ sState = "Handshaking"
       /\ \/ replies = <<>> /\ status \notin Live /\ state = "Handshaking"
          \/ /\ Len(replies) = 2 /\ state = "Login"
             /\ replies[1] = [name |-> "intention", state |-> "Handshaking", comp |-> FALSE,
                              cipher |-> FALSE, ref |-> 0]
             /\ replies[2] = [name |-> "hello", state |-> "Login", comp |-> FALSE,
                              cipher |-> FALSE, ref |-> 0]
  /\ sWaiting = "hello" =>
       /\ served = 1 /\ sState = "Login" /\ Len(replies) = 2 /\ state = "Login"
       /\ replies[2] = [name |-> "hello", state |-> "Login", comp |-> FALSE,
                        cipher |-> FALSE, ref |-> 0]

\* The client has answered the gate, and the server has not read the answer.
Answered == served < Len(replies) /\ replies[Len(replies)].name = sWaiting

Awaiting == sWaiting \in {"key", "login_acknowledged", "finish_configuration"}

\* What the two ends believe of the state and the cipher.
Agreement ==
  /\ sWaiting = "none" => state = sState /\ (encrypted <=> sCipher)
  /\ sWaiting = "key" =>
       state = "Login" /\ sState = "Login" /\ ~sCipher /\ (encrypted <=> Answered)
  /\ sWaiting = "login_acknowledged" =>
       /\ sState = "Login" /\ (encrypted <=> sCipher)
       /\ state = IF Answered THEN "Configuration" ELSE "Login"
  /\ sWaiting = "finish_configuration" =>
       /\ sState = "Configuration" /\ (encrypted <=> sCipher)
       /\ state = IF Answered THEN "Play" ELSE "Configuration"

\* The packets on their way to the client.
InboundAt(k) ==
  /\ sent[k].state = state
  /\ k > extracted => (sent[k].cipher <=> encrypted)
  /\ sent[k].name \in {"hello", "login_finished", "login_compression", "login_disconnect"}
       => sent[k].state = "Login"
  /\ sent[k].name = "finish_configuration" => sent[k].state = "Configuration"
  /\ sent[k].name \in {"keep_alive", "ping", "select_known_packs"} => sent[k].state # "Login"
  /\ sent[k].name \in GateNames =>
       k = Len(sent) /\ sWaiting = AnswerTo(sent[k].name) /\ ~Answered

Inbound ==
  /\ \A k \in Untaken : InboundAt(k)
  /\ Answered /\ Awaiting => handled = Len(sent)

\* Where the compression changes in what the client has still to take.
Compression ==
  /\ \A k \in Untaken :
       IF \E l \in handled + 1 .. k - 1 : sent[l].name = "login_compression"
       THEN sent[k].comp <=> sThreshold >= 0
       ELSE sent[k].comp <=> compression_threshold >= 0
  /\ \A k \in Untaken : sent[k].name = "login_compression" => sent[k].threshold = sThreshold
  /\ (\A k \in Untaken : sent[k].name # "login_compression")
       => compression_threshold = sThreshold
  /\ \A k, l \in 1 .. Len(sent) :
       sent[k].name = "login_compression" /\ sent[l].name = "login_compression" => k = l

\* The replies on their way to the server, once it has begun to speak.
OutboundAt(j) ==
  /\ replies[j].state = sState
  /\ replies[j].comp <=> sThreshold >= 0
  /\ replies[j].cipher <=> sCipher
  /\ replies[j].name \in Gates => j = Len(replies) /\ replies[j].name = sWaiting

Outbound ==
  sWaiting \notin {"intention", "hello"} =>
    /\ \A j \in Unserved : OutboundAt(j)
    /\ sWaiting = "none" /\ sState = "Login" => served = Len(replies)
    /\ sState # "Handshaking"

-----------------------------------------------------------------------------
(* Type correctness.                                                       *)

LEMMA EncodedType ==
  ASSUME TypeOK, NEW name \in ToServer, NEW s \in ProtocolState, NEW ref \in Nat
  PROVE  Encoded(name, s, ref) \in Reply
  BY DEF Encoded, Reply, TypeOK

LEMMA WriteType ==
  ASSUME TypeOK, NEW name \in ToServer, NEW ref \in Nat, NEW ok \in BOOLEAN,
         Write(name, ref, ok)
  PROVE  replies' \in Seq(Reply)
  <1>1. Encoded(name, state, ref) \in Reply
    BY EncodedType DEF TypeOK
  <1>2. QED
    BY <1>1 DEF Write, TypeOK

LEMMA WriteResultsType == \A ok \in WriteResults : ok \in BOOLEAN
  BY DEF WriteResults

LEMMA PairInSeq ==
  ASSUME NEW S, NEW a \in S, NEW b \in S
  PROVE  <<a, b>> \in Seq(S)
  OBVIOUS

LEMMA SendType ==
  ASSUME TypeOK, NEW name \in ToClient, NEW t \in Thresholds \cup {-1}, Send(name, t)
  PROVE  sent' \in Seq(SentPacket)
  <1>1. [name |-> name, state |-> sState, comp |-> sThreshold >= 0,
         cipher |-> sCipher, threshold |-> t] \in SentPacket
    BY DEF SentPacket, TypeOK
  <1>2. QED
    BY <1>1 DEF Send, TypeOK

LEMMA PopType ==
  ASSUME TypeOK, Offsets, Pop
  PROVE  handled' \in Nat /\ Current \in SentPacket
  BY DEF Pop, TypeOK, Offsets, Current

\* Every step keeps the variables in their types.
LEMMA TypeStep ==
  ASSUME TypeOK, Offsets, [Next]_vars
  PROVE  TypeOK'
  <1> USE DEF clientVars, serverVars, UnchangedPipeline, ProtocolState, Status, Gates
  <1>1. CASE Connect
    <2>1. /\ Encoded("intention", "Handshaking", 0) \in Reply
          /\ Encoded("hello", "Login", 0) \in Reply
      BY EncodedType DEF ToServer
    <2>2. replies' \in Seq(Reply)
      BY <1>1, <2>1, PairInSeq DEF Connect, TypeOK
    <2>3. QED
      BY <1>1, <2>2 DEF Connect, TypeOK
  <1>2. CASE Read
    <2>1. PICK e \in extracted .. Len(sent), p \in BOOLEAN : ReadSocket(e, p)
      BY <1>2 DEF Read
    <2>2. partial' \in BOOLEAN /\ garbled' \in BOOLEAN
      BY <2>1 DEF ReadSocket, TypeOK
    <2>3. extracted' \in Nat
      BY <2>1 DEF ReadSocket, TypeOK
    <2>4. QED
      BY <2>1, <2>2, <2>3 DEF ReadSocket, TypeOK
  <1>3. CASE SocketEnd
    BY <1>3 DEF SocketEnd, TypeOK
  <1>4. CASE Handle
    <2>0. handled' \in Nat /\ Current \in SentPacket
      <3>1. Pop
        BY <1>4 DEF Handle, SkipPacket, HandleEncryption, HandleCompression,
           HandleLoginFinished, HandleSelectKnownPacks, HandleFinishConfiguration,
           HandleKeepAlive, HandlePing, HandleDisconnect, Receive
      <3>2. QED
        BY <3>1, PopType
    <2>1. CASE SkipPacket
      BY <2>0, <2>1 DEF SkipPacket, Pop, TypeOK
    <2>2. CASE HandleEncryption
      <3>1. replies' \in Seq(Reply)
        BY <2>2, WriteType DEF HandleEncryption, ToServer, TypeOK
      <3>2. QED
        <4>1. encrypted' \in BOOLEAN
          BY <2>2, Zenon DEF HandleEncryption, TypeOK
        <4>2. status' \in Status
          BY <2>2 DEF HandleEncryption, TypeOK
        <4>3. UNCHANGED <<state, compression_threshold, partial, garbled, extracted,
                          sent, serverVars>>
          BY <2>2 DEF HandleEncryption, Receive, Pop
        <4>4. QED
          BY <2>0, <3>1, <4>1, <4>2, <4>3 DEF TypeOK
    <2>3. CASE HandleCompression
      BY <2>0, <2>3 DEF HandleCompression, Receive, Pop, TypeOK, SentPacket
    <2>4. CASE HandleLoginFinished
      <3>1. replies' \in Seq(Reply)
        BY <2>4, WriteType, WriteResultsType DEF HandleLoginFinished, ToServer, TypeOK
      <3>2. QED
        <4>1. partial' \in BOOLEAN /\ garbled' \in BOOLEAN
          BY <2>4, Zenon DEF HandleLoginFinished, SetState, TypeOK
        <4>2. QED
          BY <2>0, <2>4, <3>1, <4>1 DEF HandleLoginFinished, Receive, Pop, SetState, TypeOK
    <2>5. CASE HandleSelectKnownPacks
      <3>1. replies' \in Seq(Reply)
        BY <2>5, WriteType, WriteResultsType DEF HandleSelectKnownPacks, ToServer, TypeOK
      <3>2. QED
        BY <2>0, <2>5, <3>1 DEF HandleSelectKnownPacks, Receive, Pop, TypeOK
    <2>6. CASE HandleFinishConfiguration
      <3>1. replies' \in Seq(Reply)
        BY <2>6, WriteType, WriteResultsType DEF HandleFinishConfiguration, ToServer, TypeOK
      <3>2. QED
        <4>1. partial' \in BOOLEAN /\ garbled' \in BOOLEAN
          BY <2>6, Zenon DEF HandleFinishConfiguration, SetState, TypeOK
        <4>2. QED
          BY <2>0, <2>6, <3>1, <4>1 DEF HandleFinishConfiguration, Receive, Pop, SetState, TypeOK
    <2>7. CASE HandleKeepAlive
      <3>1. replies' \in Seq(Reply)
        BY <2>7, WriteType, WriteResultsType DEF HandleKeepAlive, ToServer, TypeOK
      <3>2. QED
        BY <2>0, <2>7, <3>1 DEF HandleKeepAlive, Receive, Pop, TypeOK
    <2>8. CASE HandlePing
      <3>1. replies' \in Seq(Reply)
        BY <2>8, WriteType, WriteResultsType DEF HandlePing, ToServer, TypeOK
      <3>2. QED
        BY <2>0, <2>8, <3>1 DEF HandlePing, Receive, Pop, TypeOK
    <2>9. CASE HandleDisconnect
      BY <2>0, <2>9 DEF HandleDisconnect, Receive, Pop, TypeOK
    <2>10. QED
      BY <1>4, <2>1, <2>2, <2>3, <2>4, <2>5, <2>6, <2>7, <2>8, <2>9 DEF Handle
  <1>5. CASE Server
    <2>1. CASE ServerHello
      BY <2>1, SendType DEF ServerHello, Send, ToClient, TypeOK
    <2>2. ASSUME NEW t \in Thresholds, ServerCompression(t) PROVE TypeOK'
      BY <2>2, SendType DEF ServerCompression, Send, ToClient, TypeOK
    <2>3. CASE ServerLoginFinished
      BY <2>3, SendType DEF ServerLoginFinished, Send, ToClient, TypeOK
    <2>4. CASE ServerFinishConfiguration
      BY <2>4, SendType DEF ServerFinishConfiguration, Send, ToClient, TypeOK
    <2>5. ASSUME NEW name \in ToClient, ServerSendOther(name) PROVE TypeOK'
      BY <2>5, SendType DEF ServerSendOther, Send, TypeOK
    <2>6. CASE ServerReceive
      BY <2>6 DEF ServerReceive, AfterReply, TypeOK
    <2>7. CASE ServerClose
      BY <2>7 DEF ServerClose, TypeOK
    <2>8. QED
      BY <1>5, <2>1, <2>2, <2>3, <2>4, <2>5, <2>6, <2>7 DEF Server
  <1>6. CASE UNCHANGED vars
    BY <1>6 DEF vars, TypeOK
  <1>7. QED
    BY <1>1, <1>2, <1>3, <1>4, <1>5, <1>6 DEF Next

-----------------------------------------------------------------------------
IInv == TypeOK /\ Offsets /\ Opening /\ Agreement /\ Inbound /\ Compression /\ Outbound

-----------------------------------------------------------------------------
(* What the invariant says of the packet that is taken next.               *)

LEMMA InvDecodes ==
  ASSUME IInv
  PROVE  DecodesAsSent
  <1> SUFFICES ASSUME handled < extracted
               PROVE  Decodes(Current)
    BY DEF DecodesAsSent
  <1>1. handled + 1 \in Untaken
    BY DEF IInv, TypeOK, Offsets, Untaken
  <1>2. Current.state = state
    BY <1>1 DEF IInv, Inbound, InboundAt, Current
  <1>3. ~ \E l \in handled + 1 .. (handled + 1) - 1 : sent[l].name = "login_compression"
    BY DEF IInv, TypeOK
  <1>4. Current.comp <=> compression_threshold >= 0
    BY <1>1, <1>3 DEF IInv, Compression, Current
  <1>5. QED
    BY <1>2, <1>4 DEF Decodes

\* A gate is the last packet of the stream, and not yet answered.
LEMMA GateTaken ==
  ASSUME IInv, handled < extracted, Current.name \in GateNames
  PROVE  /\ handled + 1 = Len(sent)
         /\ extracted = Len(sent)
         /\ ~partial
         /\ sWaiting = AnswerTo(Current.name)
         /\ ~Answered
         /\ Current.name # "login_compression"
         /\ Current.state = state
  <1>1. handled + 1 \in Untaken
    BY DEF IInv, TypeOK, Offsets, Untaken
  <1>2. handled + 1 = Len(sent) /\ sWaiting = AnswerTo(Current.name) /\ ~Answered
        /\ Current.state = state
    BY <1>1 DEF IInv, Inbound, InboundAt, Current
  <1>3. extracted = Len(sent) /\ ~partial
    BY <1>2 DEF IInv, Offsets, TypeOK
  <1>4. QED
    BY <1>2, <1>3 DEF GateNames

-----------------------------------------------------------------------------
(* The steps of the client.                                                *)

\* Taking a packet that changes nothing of the pipeline, and writing nothing.
LEMMA TakeOnly ==
  ASSUME IInv, TypeOK', Pop, UnchangedPipeline, UNCHANGED replies,
         Current.name # "login_compression", status' # "connecting"
  PROVE  IInv'
  <1> USE DEF UnchangedPipeline, serverVars
  <1>0. /\ handled + 1 \in Untaken
        /\ Untaken' \subseteq Untaken
        /\ handled + 1 \notin Untaken'
        /\ Answered' <=> Answered
    BY DEF IInv, TypeOK, Offsets, Untaken, Pop, Answered
  <1>1. Offsets'
    BY DEF IInv, TypeOK, Offsets, Pop
  <1>2. Opening'
    <2>1. sent # <<>>
      BY DEF IInv, TypeOK, Offsets, Pop
    <2>2. sWaiting \notin {"intention", "hello"}
      BY <2>1 DEF IInv, Opening
    <2>3. sWaiting' = sWaiting
      BY DEF Pop
    <2>4. QED
      BY <2>2, <2>3 DEF Opening
  <1>3. Agreement'
    BY <1>0 DEF IInv, Agreement, Pop
  <1>4. Inbound'
    <2>1. ASSUME NEW k \in Untaken'
          PROVE  InboundAt(k)'
      <3>1. InboundAt(k)
        BY <1>0 DEF IInv, Inbound
      <3>2. QED
        BY <1>0, <3>1 DEF InboundAt, Pop
    <2>2. Answered /\ Awaiting => FALSE
      BY <1>0 DEF IInv, Inbound, Untaken, TypeOK
    <2>3. QED
      BY <1>0, <2>1, <2>2 DEF Inbound, Awaiting, Pop
  <1>5. Compression'
    BY <1>0 DEF IInv, Compression, Pop, Untaken, Current, TypeOK
  <1>6. Outbound'
    BY DEF IInv, Outbound, OutboundAt, Pop, Unserved
  <1>7. QED
    BY <1>1, <1>2, <1>3, <1>4, <1>5, <1>6 DEF IInv

LEMMA EncodedFields ==
  ASSUME NEW name, NEW s, NEW ref
  PROVE  /\ Encoded(name, s, ref).name = name
         /\ Encoded(name, s, ref).state = s
         /\ Encoded(name, s, ref).comp <=> compression_threshold >= 0
         /\ Encoded(name, s, ref).cipher <=> encrypted
  BY DEF Encoded

\* Facts about the log of replies after one more has been written.
LEMMA OneMoreReply ==
  ASSUME TypeOK, NEW r, replies' = Append(replies, r)
  PROVE  /\ Len(replies') = Len(replies) + 1
         /\ replies'[Len(replies')] = r
         /\ \A j \in 1 .. Len(replies) : replies'[j] = replies[j]
  BY DEF TypeOK

\* While a packet is untaken, no answer to a gate is on its way.
LEMMA NoGateReply ==
  ASSUME IInv, Pop
  PROVE  /\ sWaiting \notin {"intention", "hello"}
         /\ ~(Answered /\ Awaiting)
         /\ \A j \in Unserved : replies[j].name \notin Gates
  <1>1. handled < Len(sent) /\ sent # <<>>
    BY DEF IInv, TypeOK, Offsets, Pop
  <1>2. sWaiting \notin {"intention", "hello"}
    BY <1>1 DEF IInv, Opening
  <1>3. ~(Answered /\ Awaiting)
    BY <1>1 DEF IInv, Inbound, TypeOK
  <1>4. ASSUME NEW j \in Unserved, replies[j].name \in Gates
        PROVE  FALSE
    <2>1. j = Len(replies) /\ replies[j].name = sWaiting
      BY <1>2, <1>4 DEF IInv, Outbound, OutboundAt
    <2>2. Answered
      BY <2>1 DEF Answered, Unserved, IInv, TypeOK
    <2>3. Awaiting
      BY <1>2, <1>4, <2>1 DEF Awaiting, Gates
    <2>4. QED
      BY <1>3, <2>2, <2>3
  <1>5. QED
    BY <1>2, <1>3, <1>4

\* Taking a packet that asks for an answer but is no gate, and answering it.
LEMMA TakeAndReply ==
  ASSUME IInv, TypeOK', Pop, UnchangedPipeline,
         NEW name \in {"keep_alive", "pong", "select_known_packs"}, NEW ref,
         replies' = Append(replies, Encoded(name, state, ref)),
         Current.name \in {"keep_alive", "ping", "select_known_packs"},
         status' # "connecting"
  PROVE  IInv'
  <1> USE DEF UnchangedPipeline, serverVars
  <1>a. /\ Len(replies') = Len(replies) + 1
        /\ replies'[Len(replies')] = Encoded(name, state, ref)
        /\ \A j \in 1 .. Len(replies) : replies'[j] = replies[j]
    BY OneMoreReply DEF IInv
  <1>b. /\ sWaiting \notin {"intention", "hello"}
        /\ ~(Answered /\ Awaiting)
        /\ \A j \in Unserved : replies[j].name \notin Gates
    BY NoGateReply
  <1>c. ~Answered'
    BY <1>a DEF Answered, Encoded, Pop, IInv, TypeOK, Gates
  <1>d. /\ handled + 1 \in Untaken
        /\ Untaken' \subseteq Untaken
        /\ handled + 1 \notin Untaken'
    BY DEF IInv, TypeOK, Offsets, Untaken, Pop
  <1>e. state # "Login"
    BY <1>d DEF IInv, Inbound, InboundAt, Current
  <1>1. Offsets'
    BY <1>a DEF IInv, TypeOK, Offsets, Pop
  <1>2. Opening'
    BY <1>b DEF Opening, Pop
  <1>3. Agreement'
    BY <1>b, <1>c DEF IInv, Agreement, Awaiting, Pop
  <1>4. Inbound'
    <2>1. ASSUME NEW k \in Untaken'
          PROVE  InboundAt(k)'
      <3>1. InboundAt(k)
        BY <1>d DEF IInv, Inbound
      <3>2. QED
        BY <1>c, <3>1 DEF InboundAt, Pop
    <2>2. QED
      BY <1>c, <2>1 DEF Inbound
  <1>f. compression_threshold = sThreshold
    <2>1. \A k \in Untaken : sent[k].name # "login_compression"
      BY <1>e DEF IInv, Inbound, InboundAt
    <2>2. QED
      BY <2>1 DEF IInv, Compression
  <1>g. state = sState /\ (encrypted <=> sCipher)
    BY <1>b, <1>e DEF IInv, Agreement, Awaiting, TypeOK, Gates
  <1>5. Compression'
    BY <1>d DEF IInv, Compression, Pop, Untaken, Current, TypeOK
  <1>6. Outbound'
    <2>1. ASSUME NEW j \in Unserved'
          PROVE  OutboundAt(j)'
      <3>1. CASE j = Len(replies')
        <4>1. replies'[j] = Encoded(name, state, ref)
          BY <1>a, <3>1
        <4>2. /\ replies'[j].name = name
              /\ replies'[j].state = state
              /\ replies'[j].comp <=> compression_threshold >= 0
              /\ replies'[j].cipher <=> encrypted
          BY <4>1, EncodedFields
        <4>3. name \notin Gates
          BY DEF Gates
        <4>4. QED
          BY <1>f, <1>g, <4>2, <4>3 DEF Pop, OutboundAt
      <3>2. CASE j # Len(replies')
        <4>1. j \in Unserved /\ replies'[j] = replies[j]
          BY <1>a, <3>2 DEF Unserved, IInv, TypeOK, Pop
        <4>2. QED
          BY <1>b, <4>1 DEF IInv, Outbound, OutboundAt, Pop
      <3>3. QED
        BY <3>1, <3>2
    <2>2. sState # "Login" /\ sState # "Handshaking"
      BY <1>b, <1>e, <1>g DEF IInv, Outbound
    <2>3. QED
      BY <2>1, <2>2 DEF Outbound, Pop
  <1>7. QED
    BY <1>1, <1>2, <1>3, <1>4, <1>5, <1>6 DEF IInv

\* Taking a gate and answering it: the client now writes and reads in the
\* way the server will once it has read the answer.
LEMMA AnswerGate ==
  ASSUME IInv, TypeOK', Pop, Current.name \in GateNames,
         replies' = Append(replies, Encoded(AnswerTo(Current.name), state, 0)),
         UNCHANGED compression_threshold, ~partial', ~garbled', status' # "connecting",
         Current.name = "hello" => state' = state /\ encrypted',
         Current.name = "login_finished" =>
           state' = "Configuration" /\ UNCHANGED encrypted,
         Current.name = "finish_configuration" => state' = "Play" /\ UNCHANGED encrypted
  PROVE  IInv'
  <1> USE DEF serverVars
  <1>a. /\ Len(replies') = Len(replies) + 1
        /\ replies'[Len(replies')] = Encoded(AnswerTo(Current.name), state, 0)
        /\ \A j \in 1 .. Len(replies) : replies'[j] = replies[j]
    BY OneMoreReply DEF IInv
  <1>b. /\ sWaiting \notin {"intention", "hello"}
        /\ \A j \in Unserved : replies[j].name \notin Gates
    BY NoGateReply
  <1>c. /\ handled + 1 = Len(sent)
        /\ extracted = Len(sent)
        /\ sWaiting = AnswerTo(Current.name)
        /\ ~Answered
        /\ Current.state = state
        /\ Current.name # "login_compression"
    BY GateTaken DEF Pop
  <1>d. handled' = Len(sent) /\ Untaken' = {} /\ sent' = sent
    BY <1>c DEF Untaken, Pop, IInv, TypeOK
  <1>e. Answered'
    BY <1>a, <1>c DEF Answered, Encoded, Pop, IInv, TypeOK, Offsets
  <1>1. Offsets'
    BY <1>a, <1>c, <1>d DEF IInv, TypeOK, Offsets, Pop
  <1>2. Opening'
    BY <1>b, <1>c DEF Opening, Pop, AnswerTo
  <1>f. compression_threshold = sThreshold
    <2>1. \A k \in Untaken : sent[k].name # "login_compression"
      BY <1>c DEF Untaken, Current, IInv, TypeOK
    <2>2. QED
      BY <2>1 DEF IInv, Compression
  <1>g. state = sState /\ (encrypted <=> sCipher) /\ sState \in {"Login", "Configuration"}
    BY <1>c DEF IInv, Agreement, AnswerTo, GateNames
  <1>3. Agreement'
    BY <1>c, <1>e, <1>g DEF IInv, Agreement, AnswerTo, GateNames, Pop
  <1>4. Inbound'
    BY <1>d DEF Inbound
  <1>5. Compression'
    BY <1>d, <1>f DEF IInv, Compression, Pop
  <1>6. Outbound'
    <2>1. ASSUME NEW j \in Unserved'
          PROVE  OutboundAt(j)'
      <3>1. CASE j = Len(replies')
        <4>1. replies'[j] = Encoded(AnswerTo(Current.name), state, 0)
          BY <1>a, <3>1
        <4>2. QED
          BY <1>c, <1>f, <1>g, <3>1, <4>1, EncodedFields DEF Pop, OutboundAt
      <3>2. CASE j # Len(replies')
        <4>1. j \in Unserved /\ replies'[j] = replies[j]
          BY <1>a, <3>2 DEF Unserved, IInv, TypeOK, Pop
        <4>2. QED
          BY <1>b, <4>1 DEF IInv, Outbound, OutboundAt, Pop
      <3>3. QED
        BY <3>1, <3>2
    <2>2. QED
      BY <1>c, <1>g, <2>1 DEF Outbound, Pop, AnswerTo
  <1>7. QED
    BY <1>1, <1>2, <1>3, <1>4, <1>5, <1>6 DEF IInv

\* Taking login_compression: the client's threshold becomes the server's.
LEMMA TakeCompression ==
  ASSUME IInv, TypeOK', HandleCompression
  PROVE  IInv'
  <1> USE DEF serverVars
  <1>0. Pop /\ Current.name = "login_compression"
        /\ compression_threshold' = Current.threshold
        /\ UNCHANGED <<status, state, encrypted, partial, garbled, replies>>
    BY DEF HandleCompression, Receive
  <1>a. /\ handled + 1 \in Untaken
        /\ Untaken' \subseteq Untaken
        /\ handled + 1 \notin Untaken'
        /\ Answered' <=> Answered
    BY <1>0 DEF IInv, TypeOK, Offsets, Untaken, Pop, Answered
  <1>b. sWaiting \notin {"intention", "hello"} /\ ~(Answered /\ Awaiting)
    BY <1>0, NoGateReply
  <1>c. compression_threshold' = sThreshold
    BY <1>0, <1>a DEF IInv, Compression, Current
  <1>1. Offsets'
    BY <1>0 DEF IInv, TypeOK, Offsets, Pop
  <1>2. Opening'
    <2>1. sWaiting' = sWaiting /\ status' # "connecting"
      BY <1>0 DEF Pop, Live
    <2>2. QED
      BY <1>b, <2>1 DEF Opening
  <1>3. Agreement'
    BY <1>0, <1>a DEF IInv, Agreement, Pop
  <1>4. Inbound'
    <2>1. ASSUME NEW k \in Untaken'
          PROVE  InboundAt(k)'
      <3>1. InboundAt(k)
        BY <1>a DEF IInv, Inbound
      <3>2. QED
        BY <1>0, <1>a, <3>1 DEF InboundAt, Pop
    <2>2. QED
      BY <1>0, <1>a, <1>b, <2>1 DEF Inbound, Awaiting, Pop
  <1>5. Compression'
    <2>1. \A l \in Untaken : sent[l].name = "login_compression" => l = handled + 1
      BY <1>0, <1>a DEF IInv, Compression, Current, Untaken, TypeOK
    <2>2. ASSUME NEW k \in Untaken'
          PROVE  /\ sent[k].comp <=> sThreshold >= 0
                 /\ ~ \E l \in handled' + 1 .. k - 1 : sent[l].name = "login_compression"
      <3>1. handled + 1 \in handled + 1 .. k - 1 /\ k \in Untaken
        BY <1>0, <1>a, <2>2 DEF Untaken, Pop, IInv, TypeOK
      <3>2. sent[k].comp <=> sThreshold >= 0
        BY <1>0, <3>1 DEF IInv, Compression, Current
      <3>3. \A l \in handled' + 1 .. k - 1 : l \in Untaken /\ l # handled + 1
        BY <1>0, <2>2 DEF Untaken, Pop, IInv, TypeOK
      <3>4. QED
        BY <2>1, <3>2, <3>3
    <2>3. \A k \in Untaken' : sent[k].name # "login_compression"
      BY <1>a, <2>1
    <2>4. QED
      BY <1>0, <1>c, <2>2, <2>3 DEF IInv, Compression, Pop
  <1>6. Outbound'
    BY <1>0 DEF IInv, Outbound, OutboundAt, Pop, Unserved
  <1>7. QED
    BY <1>1, <1>2, <1>3, <1>4, <1>5, <1>6 DEF IInv

LEMMA ReadStep ==
  ASSUME IInv, TypeOK', Read
  PROVE  IInv'
  <1> USE DEF serverVars
  <1>1. PICK e \in extracted .. Len(sent), p \in BOOLEAN : ReadSocket(e, p)
    BY DEF Read
  <1>2. \A k \in extracted + 1 .. (IF p THEN e + 1 ELSE e) : sent[k].cipher <=> encrypted
    <2>1. \A k \in extracted + 1 .. (IF p THEN e + 1 ELSE e) : k \in Untaken /\ k > extracted
      BY <1>1 DEF ReadSocket, Untaken, IInv, TypeOK
    <2>2. QED
      BY <2>1 DEF IInv, Inbound, InboundAt
  <1>3. extracted' = e /\ partial' = p /\ UNCHANGED garbled
    BY <1>1, <1>2 DEF ReadSocket, IInv, Offsets
  <1>4. UNCHANGED <<status, state, compression_threshold, encrypted, handled, sent,
                    replies, served, sState, sThreshold, sCipher, sWaiting, closed>>
    BY <1>1 DEF ReadSocket
  <1>5. Untaken' = Untaken /\ Unserved' = Unserved /\ (Answered' <=> Answered)
    BY <1>4 DEF Untaken, Unserved, Answered
  <1>6. Offsets'
    BY <1>1, <1>3, <1>4 DEF ReadSocket, IInv, TypeOK, Offsets
  <1>7. Inbound'
    <2>1. ASSUME NEW k \in Untaken' PROVE InboundAt(k)'
      <3>0. InboundAt(k)
        BY <1>5 DEF IInv, Inbound
      <3>1. k \in Int
        BY <1>5 DEF IInv, TypeOK, Untaken
      <3>2. k > extracted' => k > extracted
        BY <1>1, <1>3, <3>1 DEF IInv, TypeOK
      <3>3. QED
        BY <1>4, <1>5, <3>0, <3>2 DEF InboundAt
    <2>2. QED
      BY <1>4, <1>5, <2>1 DEF IInv, Inbound, Awaiting
  <1>8. Opening' /\ Agreement' /\ Compression' /\ Outbound'
    <2>1. Opening' BY <1>4 DEF IInv, Opening
    <2>2. Agreement' BY <1>4, <1>5 DEF IInv, Agreement
    <2>3. Compression' BY <1>4, <1>5 DEF IInv, Compression
    <2>4. Outbound' BY <1>4, <1>5 DEF IInv, Outbound, OutboundAt
    <2>5. QED BY <2>1, <2>2, <2>3, <2>4
  <1>9. QED
    BY <1>6, <1>7, <1>8 DEF IInv

\* Steps that change nothing but the status (and `closed'), once connected.
LEMMA StatusStep ==
  ASSUME IInv, TypeOK',
         UNCHANGED <<state, compression_threshold, encrypted, extracted, partial, garbled,
                     handled, sent, replies, served, sState, sThreshold, sCipher, sWaiting>>,
         status' = status \/ (status' \notin Live /\ status' # "connecting")
  PROVE  IInv'
  <1>1. Untaken' = Untaken /\ Unserved' = Unserved /\ (Answered' <=> Answered)
    BY DEF Untaken, Unserved, Answered
  <1>2. Offsets' BY DEF IInv, Offsets
  <1>3. Opening' BY DEF IInv, Opening
  <1>4. Agreement' BY <1>1 DEF IInv, Agreement
  <1>5. Inbound' BY <1>1 DEF IInv, Inbound, InboundAt, Awaiting
  <1>6. Compression' BY <1>1 DEF IInv, Compression
  <1>7. Outbound' BY <1>1 DEF IInv, Outbound, OutboundAt
  <1>8. QED
    BY <1>2, <1>3, <1>4, <1>5, <1>6, <1>7 DEF IInv

LEMMA ConnectStep ==
  ASSUME IInv, TypeOK', Connect
  PROVE  IInv'
  <1> USE DEF serverVars
  <1>1. CASE status' = "failed" /\ UNCHANGED <<state, replies>>
    BY <1>1, StatusStep DEF Connect, Live
  <1>2. CASE /\ status' = "login" /\ state' = "Login"
             /\ replies' = <<Encoded("intention", "Handshaking", 0), Encoded("hello", "Login", 0)>>
    <2>1. /\ replies = <<>> /\ sWaiting = "intention" /\ sent = <<>> /\ served = 0
          /\ compression_threshold = -1 /\ ~encrypted /\ sThreshold = -1 /\ ~sCipher
          /\ sState = "Handshaking"
      BY DEF Connect, IInv, Opening
    <2>2. UNCHANGED <<compression_threshold, encrypted, extracted, partial, garbled,
                      handled, sent, served, sState, sThreshold, sCipher, sWaiting, closed>>
      BY DEF Connect
    <2>3. /\ Len(replies') = 2
          /\ replies'[1] = Encoded("intention", "Handshaking", 0)
          /\ replies'[2] = Encoded("hello", "Login", 0)
      BY <1>2
    <2>4. encrypted = FALSE
      BY <2>1 DEF IInv, TypeOK
    <2>a. (compression_threshold >= 0) = FALSE
      BY <2>1
    <2>5. /\ Encoded("intention", "Handshaking", 0) =
              [name |-> "intention", state |-> "Handshaking", comp |-> FALSE,
               cipher |-> FALSE, ref |-> 0]
          /\ Encoded("hello", "Login", 0) =
              [name |-> "hello", state |-> "Login", comp |-> FALSE, cipher |-> FALSE, ref |-> 0]
      BY <2>a, <2>4 DEF Encoded
    <2>6. Untaken = {} /\ Untaken' = {}
      BY <2>1, <2>2 DEF Untaken, IInv, TypeOK
    <2>7. Offsets' BY <2>1, <2>2, <2>3 DEF IInv, TypeOK, Offsets
    <2>8. Opening' BY <1>2, <2>1, <2>2, <2>3, <2>5 DEF Opening
    <2>9. Agreement' BY <2>1, <2>2 DEF Agreement
    <2>10. Inbound' BY <2>1, <2>2, <2>6 DEF Inbound, Awaiting
    <2>11. Compression' BY <2>1, <2>2, <2>6 DEF IInv, Compression
    <2>12. Outbound' BY <2>1, <2>2 DEF Outbound
    <2>13. QED
      BY <2>7, <2>8, <2>9, <2>10, <2>11, <2>12 DEF IInv
  <1>3. QED
    BY <1>1, <1>2 DEF Connect

-----------------------------------------------------------------------------
(* The steps of the server.                                                *)

Stamped(name, t) ==
  [name |-> name, state |-> sState, comp |-> sThreshold >= 0,
   cipher |-> sCipher, threshold |-> t]

LEMMA StampedFields ==
  ASSUME NEW name, NEW t
  PROVE  /\ Stamped(name, t).name = name
         /\ Stamped(name, t).state = sState
         /\ Stamped(name, t).comp <=> sThreshold >= 0
         /\ Stamped(name, t).cipher <=> sCipher
         /\ Stamped(name, t).threshold = t
  BY DEF Stamped

\* The log of packets after one more has been sent.
LEMMA OneMorePacket ==
  ASSUME TypeOK, NEW name, NEW t, Send(name, t)
  PROVE  /\ Len(sent') = Len(sent) + 1
         /\ sent'[Len(sent')] = Stamped(name, t)
         /\ \A k \in 1 .. Len(sent) : sent'[k] = sent[k]
  BY DEF TypeOK, Send, Stamped

\* The server sends when it waits for nothing, and so no gate is untaken.
LEMMA NoGateUntaken ==
  ASSUME IInv, CanSend
  PROVE  /\ \A k \in Untaken : sent[k].name \notin GateNames
         /\ state = sState /\ (encrypted <=> sCipher)
         /\ \A j \in Unserved : replies[j].name \notin Gates
         /\ ~Answered
  <1>1. sWaiting = "none"
    BY DEF CanSend
  <1>2. ASSUME NEW k \in Untaken, sent[k].name \in GateNames
        PROVE  FALSE
    <2>1. sWaiting = AnswerTo(sent[k].name)
      BY <1>2 DEF IInv, Inbound, InboundAt
    <2>2. QED
      BY <1>1, <2>1 DEF AnswerTo
  <1>3. state = sState /\ (encrypted <=> sCipher)
    BY <1>1 DEF IInv, Agreement
  <1>4. ASSUME NEW j \in Unserved, replies[j].name \in Gates
        PROVE  FALSE
    <2>1. replies[j].name = sWaiting
      BY <1>1, <1>4 DEF IInv, Outbound, OutboundAt
    <2>2. QED
      BY <1>1, <1>4, <2>1 DEF Gates
  <1>5. ~Answered
    <2>1. SUFFICES ASSUME Answered PROVE FALSE
      OBVIOUS
    <2>2. served < Len(replies) /\ replies[Len(replies)] \in Reply
      BY <2>1 DEF Answered, IInv, TypeOK
    <2>3. replies[Len(replies)].name # "none"
      BY <2>2 DEF Reply, ToServer
    <2>4. QED
      BY <1>1, <2>1, <2>3 DEF Answered
  <1>6. QED
    BY <1>2, <1>3, <1>4, <1>5

\* Every packet the server sends, when login_finished awaits an answer.
LEMMA SendStep ==
  ASSUME IInv, TypeOK', NEW name \in ToClient, NEW t, Send(name, t), UNCHANGED sState,
         sWaiting' = IF name \in GateNames THEN AnswerTo(name) ELSE "none",
         name \in {"hello", "login_finished", "login_compression", "login_disconnect"}
           => sState = "Login",
         name = "finish_configuration" => sState = "Configuration",
         name \in {"keep_alive", "ping", "select_known_packs"} => sState # "Login",
         name = "hello" => ~sCipher,
         name = "login_compression" =>
           /\ sThreshold' = t
           /\ \A k \in 1 .. Len(sent) : sent[k].name # "login_compression",
         name # "login_compression" => UNCHANGED sThreshold
  PROVE  IInv'
  <1> DEFINE new == Len(sent) + 1
  <1>a. /\ Len(sent') = new
        /\ sent'[new] = Stamped(name, t)
        /\ \A k \in 1 .. Len(sent) : sent'[k] = sent[k]
    BY OneMorePacket DEF IInv
  <1>n. /\ sent'[new].name = name
        /\ sent'[new].state = sState
        /\ sent'[new].comp <=> sThreshold >= 0
        /\ sent'[new].cipher <=> sCipher
        /\ sent'[new].threshold = t
    BY <1>a, StampedFields
  <1>b. /\ sWaiting = "none"
        /\ UNCHANGED <<status, state, compression_threshold, encrypted, extracted,
                       partial, garbled, handled, replies, served, sCipher, closed>>
    BY DEF Send, CanSend, clientVars
  <1>c. /\ \A k \in Untaken : sent[k].name \notin GateNames
        /\ state = sState /\ (encrypted <=> sCipher)
        /\ \A j \in Unserved : replies[j].name \notin Gates
        /\ ~Answered
    BY NoGateUntaken DEF Send
  <1>d. /\ Untaken' = Untaken \cup {new} /\ new \notin Untaken
        /\ \A k \in Untaken : k \in 1 .. Len(sent) /\ k # new
        /\ Unserved' = Unserved
    BY <1>a, <1>b DEF Untaken, Unserved, IInv, TypeOK, Offsets
  <1>e. sWaiting' \notin {"intention", "hello"}
    BY DEF AnswerTo
  <1>f. ~Answered'
    <2>1. CASE name \in GateNames
      <3>1. sWaiting' \in Gates
        BY <2>1 DEF AnswerTo, Gates
      <3>2. served < Len(replies) => Len(replies) \in Unserved
        BY DEF Unserved, IInv, TypeOK
      <3>3. QED
        BY <1>b, <1>c, <3>1, <3>2 DEF Answered
    <2>2. CASE name \notin GateNames
      BY <1>b, <1>c, <2>2 DEF Answered
    <2>3. QED
      BY <2>1, <2>2
  <1>1. Offsets'
    BY <1>a, <1>b DEF IInv, TypeOK, Offsets
  <1>2. Opening'
    BY <1>b, <1>e DEF IInv, Opening
  <1>3. Agreement'
    BY <1>b, <1>c, <1>f DEF Agreement, AnswerTo, GateNames
  <1>4. Inbound'
    <2>1. ASSUME NEW k \in Untaken
          PROVE  InboundAt(k)'
      <3>1. InboundAt(k) /\ sent'[k] = sent[k] /\ sent[k].name \notin GateNames
        BY <1>a, <1>c, <1>d DEF IInv, Inbound
      <3>2. QED
        BY <1>b, <3>1 DEF InboundAt
    <2>2. ASSUME NEW k, k = new
          PROVE  InboundAt(k)'
      <3>1. name \in GateNames => sWaiting' = AnswerTo(sent'[new].name)
        BY <1>n
      <3>2. QED
        BY <1>a, <1>n, <1>b, <1>c, <1>f, <2>2, <3>1 DEF InboundAt
    <2>3. QED
      BY <1>d, <1>f, <2>1, <2>2 DEF Inbound
  <1>5. Compression'
    <2>1. ASSUME NEW k \in Untaken
          PROVE  IF \E l \in handled' + 1 .. k - 1 : sent'[l].name = "login_compression"
                 THEN sent'[k].comp <=> sThreshold' >= 0
                 ELSE sent'[k].comp <=> compression_threshold' >= 0
      <3>1. sent'[k] = sent[k]
        BY <1>a, <1>d
      <3>2. \A l \in handled + 1 .. k - 1 : l \in 1 .. Len(sent) /\ sent'[l] = sent[l]
        BY <1>a DEF Untaken, IInv, TypeOK
      <3>3. IF \E l \in handled + 1 .. k - 1 : sent[l].name = "login_compression"
            THEN sent[k].comp <=> sThreshold >= 0
            ELSE sent[k].comp <=> compression_threshold >= 0
        BY DEF IInv, Compression
      <3>4. CASE name = "login_compression"
        BY <1>b, <3>1, <3>2, <3>3, <3>4
      <3>5. CASE name # "login_compression"
        BY <1>b, <3>1, <3>2, <3>3, <3>5
      <3>6. QED
        BY <3>4, <3>5
    <2>2. handled' + 1 .. new - 1 = Untaken
      BY <1>b DEF Untaken, IInv, TypeOK
    <2>3. IF \E l \in Untaken : sent'[l].name = "login_compression"
          THEN sent'[new].comp <=> sThreshold' >= 0
          ELSE sent'[new].comp <=> compression_threshold' >= 0
      <3>1. CASE \E l \in Untaken : sent'[l].name = "login_compression"
        <4>1. sThreshold' = sThreshold
          BY <1>a, <1>d, <3>1
        <4>2. QED
          BY <1>n, <3>1, <4>1
      <3>2. CASE ~ \E l \in Untaken : sent'[l].name = "login_compression"
        <4>1. compression_threshold = sThreshold
          BY <1>a, <1>d, <3>2 DEF IInv, Compression
        <4>2. QED
          BY <1>b, <1>n, <3>2, <4>1
      <3>3. QED
        BY <3>1, <3>2
    <2>4. \A k \in Untaken' : sent'[k].name = "login_compression"
                              => sent'[k].threshold = sThreshold'
      BY <1>a, <1>n, <1>d DEF IInv, Compression
    <2>5. (\A k \in Untaken' : sent'[k].name # "login_compression")
            => compression_threshold' = sThreshold'
      BY <1>a, <1>n, <1>b, <1>d DEF IInv, Compression
    <2>6. \A k, l \in 1 .. Len(sent') :
            sent'[k].name = "login_compression" /\ sent'[l].name = "login_compression" => k = l
      <3>1. \A k \in 1 .. Len(sent') : k = new \/ k \in 1 .. Len(sent)
        BY <1>a DEF IInv, TypeOK
      <3>2. QED
        BY <1>a, <1>n, <3>1 DEF IInv, Compression
    <2>7. QED
      BY <1>d, <2>1, <2>2, <2>3, <2>4, <2>5, <2>6 DEF Compression
  <1>6. Outbound'
    <2>1. ASSUME NEW j \in Unserved
          PROVE  OutboundAt(j)'
      <3>1. OutboundAt(j) /\ replies[j].name \notin Gates
        BY <1>b, <1>c DEF IInv, Outbound
      <3>2. sState # "Login"
        BY <1>b DEF IInv, Outbound, Unserved, TypeOK
      <3>3. QED
        BY <1>b, <3>1, <3>2 DEF OutboundAt
    <2>2. QED
      BY <1>b, <1>d, <2>1 DEF IInv, Outbound
  <1>7. QED
    BY <1>1, <1>2, <1>3, <1>4, <1>5, <1>6 DEF IInv

\* The server reads the client's opening packets.
LEMMA ReceiveOpening ==
  ASSUME IInv, TypeOK', ServerReceive, sWaiting \in {"intention", "hello"}
  PROVE  IInv'
  <1> DEFINE name == replies[served + 1].name
  <1>a. /\ UNCHANGED <<status, state, compression_threshold, encrypted, extracted, partial,
                       garbled, handled, sent, replies, sThreshold, closed>>
        /\ served' = served + 1 /\ served < Len(replies)
        /\ sState' = AfterReply(name, sState)
        /\ sCipher' <=> (sCipher \/ name = "key")
        /\ sWaiting' = IF name # sWaiting THEN sWaiting
                       ELSE IF name = "intention" THEN "hello" ELSE "none"
    BY DEF ServerReceive, clientVars
  <1>b. /\ sent = <<>> /\ compression_threshold = -1 /\ ~encrypted
        /\ sThreshold = -1 /\ ~sCipher
    BY DEF IInv, Opening
  <1>c. status # "connecting"
    BY <1>a DEF IInv, Opening, TypeOK
  <1>d. /\ Len(replies) = 2 /\ state = "Login" /\ name = sWaiting
        /\ replies[2] = [name |-> "hello", state |-> "Login", comp |-> FALSE,
                         cipher |-> FALSE, ref |-> 0]
        /\ served = IF sWaiting = "intention" THEN 0 ELSE 1
    BY <1>a DEF IInv, Opening, TypeOK
  <1>e. /\ sState' = "Login" /\ ~sCipher'
        /\ sWaiting' = IF sWaiting = "intention" THEN "hello" ELSE "none"
    BY <1>a, <1>b, <1>d DEF AfterReply, IInv, Opening
  <1>f. Untaken' = {}
    BY <1>a, <1>b DEF Untaken, IInv, TypeOK
  <1>1. Offsets' BY <1>a DEF IInv, TypeOK, Offsets
  <1>2. Opening' BY <1>a, <1>b, <1>c, <1>d, <1>e DEF Opening
  <1>3. Agreement' BY <1>a, <1>b, <1>d, <1>e DEF Agreement
  <1>4. Inbound' BY <1>e, <1>f DEF Inbound, Awaiting
  <1>5. Compression' BY <1>a, <1>b, <1>f DEF IInv, Compression
  <1>6. Outbound'
    <2>1. CASE sWaiting = "intention"
      BY <1>e, <2>1 DEF Outbound
    <2>2. CASE sWaiting = "hello"
      <3>1. Unserved' = {} /\ served' = Len(replies')
        BY <1>a, <1>d, <2>2 DEF Unserved
      <3>2. QED
        BY <1>e, <3>1 DEF Outbound
    <2>3. QED
      BY <2>1, <2>2
  <1>7. QED
    BY <1>1, <1>2, <1>3, <1>4, <1>5, <1>6 DEF IInv

\* The server reads an answer to a gate, or any later reply.
LEMMA ReceiveReply ==
  ASSUME IInv, TypeOK', ServerReceive, sWaiting \notin {"intention", "hello"}
  PROVE  IInv'
  <1> DEFINE name == replies[served + 1].name
  <1>a. /\ UNCHANGED <<status, state, compression_threshold, encrypted, extracted, partial,
                       garbled, handled, sent, replies, sThreshold, closed>>
        /\ served' = served + 1 /\ served < Len(replies)
        /\ sState' = AfterReply(name, sState)
        /\ sCipher' <=> (sCipher \/ name = "key")
        /\ sWaiting' = IF name # sWaiting THEN sWaiting
                       ELSE IF name = "intention" THEN "hello" ELSE "none"
    BY DEF ServerReceive, clientVars
  <1>b. served + 1 \in Unserved /\ Untaken' = Untaken
    BY <1>a DEF Unserved, Untaken, IInv, TypeOK
  <1>c. OutboundAt(served + 1) /\ name \in ToServer /\ sState # "Handshaking"
    <2>1. OutboundAt(served + 1) /\ sState # "Handshaking"
      BY <1>b DEF IInv, Outbound
    <2>2. replies[served + 1] \in Reply
      BY <1>a DEF IInv, TypeOK
    <2>3. QED
      BY <2>1, <2>2 DEF Reply
  <1>d. status # "connecting"
    BY DEF IInv, Opening
  <1>1. Offsets' BY <1>a DEF IInv, TypeOK, Offsets
  <1>2. CASE name \in Gates
    <2>1. served + 1 = Len(replies) /\ name = sWaiting
      BY <1>c, <1>2 DEF OutboundAt
    <2>2. Answered /\ Awaiting
      BY <1>a, <1>2, <2>1 DEF Answered, Awaiting, Gates
    <2>3. Untaken' = {} /\ Unserved' = {} /\ served' = Len(replies')
      BY <1>a, <1>b, <2>1, <2>2 DEF IInv, Inbound, Untaken, Unserved, TypeOK
    <2>4. sWaiting' = "none"
      BY <1>a, <2>1
    <2>5. ~Answered'
      BY <1>a, <2>1 DEF Answered, IInv, TypeOK
    <2>6. state' = sState' /\ (encrypted' <=> sCipher') /\ sState' # "Handshaking"
      BY <1>a, <1>2, <2>1, <2>2 DEF IInv, Agreement, AfterReply, Gates
    <2>7. Opening' BY <1>a, <1>d, <2>4 DEF Opening
    <2>8. Agreement' BY <2>4, <2>6 DEF Agreement
    <2>9. Inbound' BY <2>3, <2>5 DEF Inbound
    <2>10. Compression' BY <1>a, <1>b DEF IInv, Compression
    <2>11. Outbound' BY <2>3, <2>6 DEF Outbound
    <2>12. QED
      BY <1>1, <2>7, <2>8, <2>9, <2>10, <2>11 DEF IInv
  <1>3. CASE name \notin Gates
    <2>1. name # sWaiting
      BY <1>c, <1>3 DEF IInv, TypeOK, ToServer
    <2>2. sState' = sState /\ (sCipher' <=> sCipher) /\ sWaiting' = sWaiting
      BY <1>a, <1>3, <2>1 DEF AfterReply, Gates
    <2>3. Answered' <=> Answered
      BY <1>a, <2>1, <2>2 DEF Answered, IInv, TypeOK
    <2>4. Opening' BY <1>a, <1>d, <2>2 DEF Opening
    <2>5. Agreement' BY <1>a, <2>2, <2>3 DEF IInv, Agreement
    <2>6. Inbound' BY <1>a, <1>b, <2>2, <2>3 DEF IInv, Inbound, InboundAt, Awaiting
    <2>7. Compression' BY <1>a, <1>b DEF IInv, Compression
    <2>8. Outbound'
      <3>1. Unserved' \subseteq Unserved
        BY <1>a DEF Unserved, IInv, TypeOK
      <3>2. ~(sWaiting = "none" /\ sState = "Login")
        BY <1>a DEF IInv, Outbound
      <3>3. QED
        BY <1>a, <2>2, <3>1, <3>2 DEF IInv, Outbound, OutboundAt
    <2>9. QED
      BY <1>1, <2>4, <2>5, <2>6, <2>7, <2>8 DEF IInv
  <1>4. QED
    BY <1>2, <1>3

-----------------------------------------------------------------------------
(* Every step keeps the invariant.                                         *)

LEMMA ServerStep ==
  ASSUME ~Legacy, IInv, TypeOK', Server
  PROVE  IInv'
  <1> USE DEF ToClient, GateNames, AnswerTo
  <1>0. CanSend => sWaiting = "none"
    BY DEF CanSend
  <1>1. CASE ServerHello
    BY <1>1, SendStep DEF ServerHello
  <1>2. ASSUME NEW t \in Thresholds, ServerCompression(t) PROVE IInv'
    BY <1>0, <1>2, SendStep DEF ServerCompression, Send
  <1>3. CASE ServerLoginFinished
    BY <1>3, SendStep DEF ServerLoginFinished
  <1>4. CASE ServerFinishConfiguration
    BY <1>4, SendStep DEF ServerFinishConfiguration
  <1>5. ASSUME NEW name \in ToClient, ServerSendOther(name) PROVE IInv'
    BY <1>0, <1>5, SendStep DEF ServerSendOther, Send
  <1>6. CASE ServerReceive
    BY <1>6, ReceiveOpening, ReceiveReply
  <1>7. CASE ServerClose
    BY <1>7, StatusStep DEF ServerClose, clientVars
  <1>8. QED
    BY <1>1, <1>2, <1>3, <1>4, <1>5, <1>6, <1>7 DEF Server

LEMMA HandleStep ==
  ASSUME ~Legacy, IInv, TypeOK', Handle
  PROVE  IInv'
  <1> USE DEF UnchangedPipeline, GateNames, AnswerTo
  <1>0. Pop => status \in Live /\ status # "connecting"
    BY DEF Pop, Live
  <1>1. CASE SkipPacket
    <2>1. Decodes(Current)
      BY <1>1, InvDecodes DEF SkipPacket, Pop, DecodesAsSent
    <2>2. QED
      BY <1>0, <1>1, <2>1, TakeOnly DEF SkipPacket
  <1>2. CASE HandleEncryption
    <2>1. ~partial /\ ~garbled
      BY <1>2, GateTaken DEF HandleEncryption, Receive, Pop, IInv, Offsets
    <2>2. CASE Write("key", 0, TRUE) /\ encrypted' = TRUE /\ UNCHANGED status
      <3>1. replies' = Append(replies, Encoded("key", state, 0)) /\ encrypted'
        BY <2>2 DEF Write
      <3>2. QED
        BY <1>0, <1>2, <2>1, <2>2, <3>1, AnswerGate DEF HandleEncryption, Receive
    <2>3. CASE status' = "failed" /\ UNCHANGED <<replies, encrypted>>
      BY <1>2, <2>3, TakeOnly DEF HandleEncryption, Receive
    <2>4. QED
      BY <1>2, <2>2, <2>3 DEF HandleEncryption
  <1>3. CASE HandleCompression
    BY <1>3, TakeCompression
  <1>4. CASE HandleLoginFinished
    <2>1. Pop /\ Current.name = "login_finished"
          /\ UNCHANGED <<compression_threshold, encrypted>>
      BY <1>4 DEF HandleLoginFinished, Receive
    <2>2. ~partial /\ ~garbled
      BY <2>1, GateTaken DEF Pop, IInv, Offsets
    <2>3. CASE /\ replies' = Append(replies, Encoded("login_acknowledged", state, 0))
               /\ SetState("Configuration") /\ UNCHANGED status
      BY <1>0, <2>1, <2>2, <2>3, AnswerGate DEF SetState
    <2>4. CASE UNCHANGED replies /\ status' = "failed" /\ UNCHANGED <<state, partial, garbled>>
      BY <2>1, <2>4, TakeOnly
    <2>5. QED
      BY <1>4, <2>3, <2>4 DEF HandleLoginFinished, Write
  <1>5. CASE HandleFinishConfiguration
    <2>1. Pop /\ Current.name = "finish_configuration"
          /\ UNCHANGED <<compression_threshold, encrypted>>
      BY <1>5 DEF HandleFinishConfiguration, Receive
    <2>2. ~partial /\ ~garbled
      BY <2>1, GateTaken DEF Pop, IInv, Offsets
    <2>3. CASE /\ replies' = Append(replies, Encoded("finish_configuration", state, 0))
               /\ SetState("Play") /\ status' = "play"
      BY <1>0, <2>1, <2>2, <2>3, AnswerGate DEF SetState
    <2>4. CASE UNCHANGED replies /\ status' = "failed" /\ UNCHANGED <<state, partial, garbled>>
      BY <2>1, <2>4, TakeOnly
    <2>5. QED
      BY <1>5, <2>3, <2>4 DEF HandleFinishConfiguration, Write
  <1>6. ASSUME NEW name \in {"keep_alive", "pong", "select_known_packs"}, NEW ref,
               NEW ok \in BOOLEAN, Write(name, ref, ok), Pop,
               Current.name \in {"keep_alive", "ping", "select_known_packs"},
               status' \in {status, "failed"}, UnchangedPipeline
        PROVE  IInv'
    <2>1. CASE ok
      <3>1. replies' = Append(replies, Encoded(name, state, ref))
        BY <1>6, <2>1 DEF Write
      <3>2. QED
        BY <1>0, <1>6, <3>1, TakeAndReply
    <2>2. CASE ~ok
      BY <1>0, <1>6, <2>2, TakeOnly DEF Write
    <2>3. QED
      BY <2>1, <2>2
  <1>7. CASE HandleSelectKnownPacks
    BY <1>6, <1>7, WriteResultsType DEF HandleSelectKnownPacks, Receive
  <1>8. CASE HandleKeepAlive
    BY <1>6, <1>8, WriteResultsType DEF HandleKeepAlive, Receive
  <1>9. CASE HandlePing
    BY <1>6, <1>9, WriteResultsType DEF HandlePing, Receive
  <1>10. CASE HandleDisconnect
    <2>1. /\ Pop /\ UnchangedPipeline /\ UNCHANGED replies
          /\ Current.name \in {"disconnect", "login_disconnect"}
          /\ status' \in {"failed", status}
      BY <1>10 DEF HandleDisconnect, Receive
    <2>2. QED
      BY <1>0, <2>1, TakeOnly
  <1>11. QED
    BY <1>1, <1>2, <1>3, <1>4, <1>5, <1>7, <1>8, <1>9, <1>10 DEF Handle

LEMMA InitInv == Init => IInv
  <1> SUFFICES ASSUME Init PROVE IInv
    OBVIOUS
  <1>1. Untaken = {} /\ Unserved = {} /\ ~Answered
    BY DEF Init, Untaken, Unserved, Answered
  <1>2. TypeOK
    <2>1. sent \in Seq(SentPacket) /\ replies \in Seq(Reply)
      BY DEF Init
    <2>2. /\ encrypted \in BOOLEAN /\ partial \in BOOLEAN /\ garbled \in BOOLEAN
          /\ sCipher \in BOOLEAN /\ closed \in BOOLEAN
      BY DEF Init
    <2>3. QED
      BY <2>1, <2>2 DEF Init, TypeOK, Status, ProtocolState, Gates
  <1>3. Offsets BY DEF Init, Offsets
  <1>4. Opening BY DEF Init, Opening, Live
  <1>5. Agreement BY DEF Init, Agreement
  <1>6. Inbound BY <1>1 DEF Inbound
  <1>7. Compression BY <1>1 DEF Init, Compression
  <1>8. Outbound BY DEF Init, Outbound
  <1>9. QED
    BY <1>2, <1>3, <1>4, <1>5, <1>6, <1>7, <1>8 DEF IInv

LEMMA InvStep ==
  ASSUME ~Legacy, IInv, [Next]_vars
  PROVE  IInv'
  <1>0. TypeOK'
    BY TypeStep DEF IInv
  <1>1. CASE SocketEnd
    BY <1>0, <1>1, StatusStep DEF SocketEnd, serverVars, Live
  <1>2. CASE UNCHANGED vars
    BY <1>0, <1>2, StatusStep DEF vars, clientVars, serverVars
  <1>3. QED
    BY <1>0, <1>1, <1>2, ConnectStep, ReadStep, HandleStep, ServerStep DEF Next

-----------------------------------------------------------------------------
(* The theorems.                                                           *)

\* The inductive invariant: between the two ends of either direction lies
\* only what its reader will decode the way it was written.
THEOREM Invariance ==
  ASSUME ~Legacy
  PROVE  Spec => []IInv
  <1>1. IInv /\ [Next]_vars => IInv'
    BY InvStep
  <1>2. QED
    BY <1>1, InitInv, PTL DEF Spec

\* Every field of the client, of the two logs and of the server stays in
\* its type, whatever thresholds a server may announce.
THEOREM TypeCorrect ==
  ASSUME ~Legacy
  PROVE  Spec => []TypeOK
  <1>1. IInv => TypeOK
    BY DEF IInv
  <1>2. QED
    BY <1>1, Invariance, PTL

\* Deferring the decoding to the moment a packet is taken (client.rs 33-36)
\* is right: however reads cut and coalesce the stream, the packet at the
\* head of raw_queue was encoded for the state and threshold in force.
THEOREM AlwaysDecodesAsSent ==
  ASSUME ~Legacy
  PROVE  Spec => []DecodesAsSent
  <1>1. IInv => DecodesAsSent
    BY InvDecodes
  <1>2. QED
    BY <1>1, Invariance, PTL

\* set_state and set_encryption never happen with a packet half read or
\* with bytes read under the other cipher: no packet boundary is ever lost.
THEOREM AlwaysKeepsBoundaries ==
  ASSUME ~Legacy
  PROVE  Spec => []KeepsBoundaries
  <1>1. IInv => KeepsBoundaries
    BY DEF IInv, Offsets, KeepsBoundaries
  <1>2. QED
    BY <1>1, Invariance, PTL

\* The other direction: what the client writes is read by the server in
\* the state, with the threshold and the cipher it was written with.
THEOREM ServerAlwaysUnderstands ==
  ASSUME ~Legacy
  PROVE  Spec => []ServerUnderstands
  <1>1. ASSUME IInv PROVE ServerUnderstands
    <2> SUFFICES ASSUME served < Len(replies)
                 PROVE  LET r == replies[served + 1]
                        IN  /\ r.state = sState
                            /\ r.comp <=> sThreshold >= 0
                            /\ r.cipher <=> sCipher
      BY DEF ServerUnderstands
    <2>1. CASE sWaiting \in {"intention", "hello"}
      <3>1. sThreshold = -1 /\ ~sCipher
        BY <1>1, <2>1 DEF IInv, Opening
      <3>2. LET r == replies[served + 1]
            IN  r.state = sState /\ r.comp = FALSE /\ r.cipher = FALSE
        BY <1>1, <2>1 DEF IInv, TypeOK, Opening
      <3>3. QED
        BY <3>1, <3>2
    <2>2. CASE sWaiting \notin {"intention", "hello"}
      <3>1. served + 1 \in Unserved
        BY <1>1 DEF Unserved, IInv, TypeOK
      <3>2. QED
        BY <1>1, <2>2, <3>1 DEF IInv, Outbound, OutboundAt
    <2>3. QED
      BY <2>1, <2>2
  <1>2. QED
    BY <1>1, Invariance, PTL

-----------------------------------------------------------------------------
(* The answers to keep_alive.                                              *)

\* No answer is to a keep_alive still to come: what makes KeepAlivesEchoed
\* inductive.
Echoed ==
  /\ KeepAlivesEchoed
  /\ \A j \in 1 .. Len(replies) : replies[j].name = "keep_alive" => replies[j].ref <= handled

LEMMA ReplyRef ==
  ASSUME IInv, NEW j \in 1 .. Len(replies)
  PROVE  replies[j].ref \in Nat
  <1>1. replies[j] \in Reply
    BY DEF IInv, TypeOK
  <1>2. QED
    BY <1>1 DEF Reply

\* A step that takes no packet and writes none: the server may say more.
LEMMA KeepEchoed ==
  ASSUME IInv, Echoed, UNCHANGED <<handled, replies>>,
         status = "failed" => status' = "failed",
         \A k \in 1 .. Len(sent) : sent'[k] = sent[k]
  PROVE  Echoed'
  <1>1. \A k \in 1 .. handled : sent'[k] = sent[k]
    BY DEF IInv, TypeOK, Offsets
  <1>2. QED
    BY <1>1 DEF Echoed, KeepAlivesEchoed

\* A packet is taken and not answered: it is no keep_alive, or writing failed.
LEMMA TakeEchoed ==
  ASSUME IInv, Echoed, Pop, UNCHANGED replies,
         Current.name # "keep_alive" \/ status' = "failed"
  PROVE  Echoed'
  <1>1. /\ handled' = handled + 1 /\ handled \in Nat /\ sent' = sent
        /\ status # "failed"
    BY DEF Pop, Live, IInv, TypeOK
  <1>2. ASSUME NEW k \in 1 .. handled', sent'[k].name = "keep_alive"
        PROVE  \/ status' = "failed" /\ k = handled'
               \/ \E j \in 1 .. Len(replies) : replies[j].name = "keep_alive" /\ replies[j].ref = k
    <2>1. CASE k = handled'
      BY <1>1, <1>2, <2>1 DEF Current
    <2>2. CASE k # handled'
      <3>1. k \in 1 .. handled /\ sent[k].name = "keep_alive"
        BY <1>1, <1>2, <2>2
      <3>2. QED
        BY <1>1, <3>1 DEF Echoed, KeepAlivesEchoed
    <2>3. QED
      BY <2>1, <2>2
  <1>3. ASSUME NEW j \in 1 .. Len(replies), replies[j].name = "keep_alive"
        PROVE  replies[j].ref <= handled'
    <2>1. replies[j].ref <= handled
      BY <1>3 DEF Echoed
    <2>a. replies[j].ref \in Nat
      BY ReplyRef
    <2>2. QED
      BY <1>1, <2>1, <2>a
  <1>4. \A i, j \in 1 .. Len(replies) :
          i < j /\ replies[i].name = "keep_alive" /\ replies[j].name = "keep_alive"
            => replies[i].ref < replies[j].ref
    BY DEF Echoed, KeepAlivesEchoed
  <1>5. replies' = replies
    OBVIOUS
  <1>6. KeepAlivesEchoed'
    BY <1>2, <1>4, <1>5 DEF KeepAlivesEchoed
  <1>7. QED
    BY <1>3, <1>5, <1>6 DEF Echoed

\* A packet is taken and answered: only a keep_alive by a keep_alive, and
\* that with its own number, which is more than all before it.
LEMMA ReplyEchoed ==
  ASSUME IInv, Echoed, Pop, NEW r, r.ref \in Nat, replies' = Append(replies, r),
         Current.name = "keep_alive" => r.name = "keep_alive",
         r.name = "keep_alive" => r.ref = handled + 1
  PROVE  Echoed'
  <1>1. /\ handled' = handled + 1 /\ handled \in Nat /\ sent' = sent
        /\ status # "failed"
    BY DEF Pop, Live, IInv, TypeOK
  <1>2. /\ Len(replies) \in Nat /\ Len(replies') = Len(replies) + 1
        /\ replies'[Len(replies')] = r
        /\ \A j \in 1 .. Len(replies) : replies'[j] = replies[j]
    BY OneMoreReply DEF IInv, TypeOK
  <1>3. ASSUME NEW k \in 1 .. handled', sent'[k].name = "keep_alive"
        PROVE  \E j \in 1 .. Len(replies') : replies'[j].name = "keep_alive" /\ replies'[j].ref = k
    <2>1. CASE k = handled'
      BY <1>1, <1>2, <1>3, <2>1 DEF Current
    <2>2. CASE k # handled'
      <3>1. k \in 1 .. handled /\ sent[k].name = "keep_alive"
        BY <1>1, <1>3, <2>2
      <3>2. \E j \in 1 .. Len(replies) : replies[j].name = "keep_alive" /\ replies[j].ref = k
        BY <1>1, <3>1 DEF Echoed, KeepAlivesEchoed
      <3>3. QED
        BY <1>2, <3>2
    <2>3. QED
      BY <2>1, <2>2
  <1>4. ASSUME NEW j \in 1 .. Len(replies'), replies'[j].name = "keep_alive"
        PROVE  /\ replies'[j].ref <= handled'
               /\ j <= Len(replies) => replies'[j].ref < handled + 1
    <2>1. CASE j \in 1 .. Len(replies)
      <3>1. replies[j].ref <= handled
        BY <1>2, <1>4, <2>1 DEF Echoed
      <3>a. replies[j].ref \in Nat
        BY <2>1, ReplyRef
      <3>2. QED
        BY <1>1, <1>2, <2>1, <3>1, <3>a
    <2>2. CASE j = Len(replies')
      BY <1>1, <1>2, <1>4, <2>2
    <2>3. QED
      BY <1>2, <2>1, <2>2
  <1>5. ASSUME NEW i \in 1 .. Len(replies'), NEW j \in 1 .. Len(replies'), i < j,
               replies'[i].name = "keep_alive", replies'[j].name = "keep_alive"
        PROVE  replies'[i].ref < replies'[j].ref
    <2>0. i \in 1 .. Len(replies)
      BY <1>2, <1>5
    <2>1. CASE j \in 1 .. Len(replies)
      <3>1. /\ replies'[i] = replies[i] /\ replies'[j] = replies[j]
            /\ replies[i].name = "keep_alive" /\ replies[j].name = "keep_alive"
        BY <1>2, <1>5, <2>0, <2>1
      <3>2. replies[i].ref < replies[j].ref
        BY <1>5, <2>0, <2>1, <3>1 DEF Echoed, KeepAlivesEchoed
      <3>3. QED
        BY <3>1, <3>2
    <2>2. CASE j = Len(replies')
      BY <1>1, <1>2, <1>4, <1>5, <2>0, <2>2
    <2>3. QED
      BY <1>2, <2>1, <2>2
  <1>6. QED
    BY <1>3, <1>4, <1>5 DEF Echoed, KeepAlivesEchoed

LEMMA HandleEchoed ==
  ASSUME ~Legacy, IInv, Echoed, Handle
  PROVE  Echoed'
  <1>0. handled + 1 \in Nat
    BY DEF IInv, TypeOK
  <1>1. ASSUME NEW name, NEW s, NEW ref \in Nat, Pop,
               replies' = Append(replies, Encoded(name, s, ref)),
               \/ name # "keep_alive" /\ Current.name # "keep_alive"
               \/ name = "keep_alive" /\ ref = handled + 1
        PROVE  Echoed'
    <2>1. Encoded(name, s, ref).name = name /\ Encoded(name, s, ref).ref = ref
      BY DEF Encoded
    <2>2. QED
      BY <1>1, <2>1, ReplyEchoed
  <1>2. CASE SkipPacket
    <2>1. Decodes(Current)
      BY <1>2, InvDecodes DEF SkipPacket, Pop, DecodesAsSent
    <2>2. Pop /\ UNCHANGED replies /\ Current.name = "opaque"
      BY <1>2, <2>1 DEF SkipPacket
    <2>3. QED
      BY <2>2, TakeEchoed
  <1>3. CASE HandleEncryption
    BY <1>1, <1>3, TakeEchoed DEF HandleEncryption, Receive, Write
  <1>4. CASE HandleCompression
    BY <1>4, TakeEchoed DEF HandleCompression, Receive
  <1>5. CASE HandleLoginFinished
    BY <1>1, <1>5, TakeEchoed DEF HandleLoginFinished, Receive, Write
  <1>6. CASE HandleSelectKnownPacks
    BY <1>1, <1>6, TakeEchoed DEF HandleSelectKnownPacks, Receive, Write
  <1>7. CASE HandleFinishConfiguration
    BY <1>1, <1>7, TakeEchoed DEF HandleFinishConfiguration, Receive, Write
  <1>8. CASE HandleKeepAlive
    <2>1. Pop
      BY <1>8 DEF HandleKeepAlive, Receive
    <2>2. PICK ok \in WriteResults :
             Write("keep_alive", handled + 1, ok) /\ status' = IF ok THEN status ELSE "failed"
      BY <1>8 DEF HandleKeepAlive
    <2>3. CASE ok
      BY <1>0, <1>1, <2>1, <2>2, <2>3 DEF Write
    <2>4. CASE ~ok
      BY <2>1, <2>2, <2>4, TakeEchoed DEF Write
    <2>5. QED
      BY <2>3, <2>4
  <1>9. CASE HandlePing
    <2>1. Pop /\ Current.name = "ping"
      BY <1>9 DEF HandlePing, Receive
    <2>2. PICK ok \in WriteResults : Write("pong", handled + 1, ok)
      BY <1>9 DEF HandlePing
    <2>3. QED
      BY <1>0, <1>1, <2>1, <2>2, TakeEchoed DEF Write
  <1>10. CASE HandleDisconnect
    BY <1>10, TakeEchoed DEF HandleDisconnect, Receive
  <1>11. QED
    BY <1>2, <1>3, <1>4, <1>5, <1>6, <1>7, <1>8, <1>9, <1>10 DEF Handle

LEMMA EchoedStep ==
  ASSUME ~Legacy, IInv, Echoed, [Next]_vars
  PROVE  Echoed'
  <1> USE DEF clientVars, serverVars
  <1>1. CASE Connect
    <2>1. replies = <<>> /\ handled = 0 /\ handled' = 0
      <3>1. status \notin Live /\ sent = <<>>
        BY <1>1 DEF Connect, IInv, Opening, Live
      <3>2. QED
        BY <1>1, <3>1 DEF Connect, IInv, Opening, Offsets, TypeOK
    <2>2. \A j \in 1 .. Len(replies') : replies'[j].name # "keep_alive"
      BY <1>1, <2>1 DEF Connect, Encoded
    <2>3. QED
      BY <2>1, <2>2 DEF Echoed, KeepAlivesEchoed
  <1>2. CASE Read
    BY <1>2, KeepEchoed DEF Read, ReadSocket
  <1>3. CASE SocketEnd
    BY <1>3, KeepEchoed DEF SocketEnd, Live
  <1>4. CASE Handle
    BY <1>4, HandleEchoed
  <1>5. CASE Server
    <2>1. ASSUME NEW name, NEW threshold, Send(name, threshold)
          PROVE  Echoed'
      <3>1. \A k \in 1 .. Len(sent) : sent'[k] = sent[k]
        BY <2>1 DEF Send, IInv, TypeOK
      <3>2. QED
        BY <2>1, <3>1, KeepEchoed DEF Send
    <2>2. CASE ServerReceive
      BY <2>2, KeepEchoed DEF ServerReceive
    <2>3. CASE ServerClose
      BY <2>3, KeepEchoed DEF ServerClose
    <2>4. QED
      BY <1>5, <2>1, <2>2, <2>3
      DEF Server, ServerHello, ServerCompression, ServerLoginFinished, ServerFinishConfiguration, ServerSendOther
  <1>6. CASE UNCHANGED vars
    BY <1>6, KeepEchoed DEF vars
  <1>7. QED
    BY <1>1, <1>2, <1>3, <1>4, <1>5, <1>6 DEF Next

\* Each keep_alive the client takes, in the login loop or as a bot, is
\* echoed once, with its id and in the order of arrival, and so none is
\* left unanswered for which the server would end the session; the one
\* exception is a write that fails, which ends it too.
THEOREM EveryKeepAliveEchoed ==
  ASSUME ~Legacy
  PROVE  Spec => []KeepAlivesEchoed
  <1>1. Init => Echoed
    BY DEF Init, Echoed, KeepAlivesEchoed
  <1>2. IInv /\ Echoed /\ [Next]_vars => Echoed'
    BY EchoedStep
  <1>3. Echoed => KeepAlivesEchoed
    BY DEF Echoed
  <1>4. QED
    BY <1>1, <1>2, <1>3, Invariance, PTL DEF Spec
=============================================================================
