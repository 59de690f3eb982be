------------------------ MODULE ServerHandshake_proofs ------------------------
(***************************************************************************)
(* Proofs, for every bound on the client's messages, that the server's     *)
(* handshake (src/server/factory.rs) answers each message it reads with    *)
(* the matching reply, and hands a connection to the Dispatcher only after *)
(* a complete plain or SASL exchange with one successful factory call.     *)
(***************************************************************************)
EXTENDS ServerHandshake, TLAPS

USE HandshakeAssumption DEF vars

(* The replies the server has written for what it has read. *)
Replies(seq) == [i \in 1 .. Len(seq) |-> ReplyTo(seq[i])]

(* The successful factory call of the SASL path. *)
SaslCall == <<[auth |-> "sasl", ok |-> TRUE]>>

(* The inductive invariant.  Outside the failed phase, each position of   *)
(* the future chain fixes what has been read and what the factory has      *)
(* done, and every message read has been answered; a failed chain keeps    *)
(* the replies it wrote, which match what it read.                         *)
HSInv ==
  /\ TypeOK
  /\ RepliesMatchRequests
  /\ phase # "failed" => s2c = Replies(consumed)
  /\ phase = "read_proto"   => consumed = <<>> /\ factory = <<>>
  /\ phase = "read_open"    => consumed = <<"hdr_amqp">> /\ factory = <<>>
  /\ phase = "sasl"         => consumed = <<"hdr_sasl">> /\ factory = <<>>
  /\ phase = "read_proto2"  => consumed = <<"hdr_sasl", "sasl_init">>
                               /\ factory = SaslCall
  /\ phase = "read_open2"   => consumed = <<"hdr_sasl", "sasl_init", "hdr_amqp">>
                               /\ factory = SaslCall
  /\ phase = "call_factory" => consumed = PlainExchange /\ factory = <<>>
  /\ DispatchOnlyWhenEstablished

-----------------------------------------------------------------------------
(* Two sequences are equal when their lengths and elements are. *)
LEMMA SeqExt ==
  ASSUME NEW S, NEW s \in Seq(S), NEW t \in Seq(S),
         Len(s) = Len(t), \A i \in 1 .. Len(s) : s[i] = t[i]
  PROVE  s = t
OBVIOUS

(* The first element appended to the empty sequence. *)
LEMMA AppendEmpty ==
  ASSUME NEW x
  PROVE  Append(<<>>, x) = <<x>>
<1>1. Append(<<>>, x) \in Seq({x}) /\ <<x>> \in Seq({x})
  OBVIOUS
<1>2. Len(Append(<<>>, x)) = 1 /\ Len(<<x>>) = 1
      /\ Append(<<>>, x)[1] = <<x>>[1]
  OBVIOUS
<1>3. QED
  BY <1>1, <1>2, SeqExt

(* The histories the handshake builds one message at a time, written out. *)
LEMMA Histories ==
  /\ Append(<<"hdr_sasl">>, "sasl_init") = <<"hdr_sasl", "sasl_init">>
  /\ Append(<<"hdr_sasl", "sasl_init">>, "hdr_amqp")
       = <<"hdr_sasl", "sasl_init", "hdr_amqp">>
  /\ Append(<<"hdr_amqp">>, "open") = PlainExchange
  /\ Append(<<"hdr_sasl", "sasl_init", "hdr_amqp">>, "open") = SaslExchange
<1>1. Append(<<"hdr_sasl">>, "sasl_init") = <<"hdr_sasl", "sasl_init">>
  <2>1. /\ Append(<<"hdr_sasl">>, "sasl_init") \in Seq(ClientMsg)
        /\ <<"hdr_sasl", "sasl_init">> \in Seq(ClientMsg)
    BY DEF ClientMsg, Header
  <2>2. /\ Len(Append(<<"hdr_sasl">>, "sasl_init")) = 2 /\ Len(<<"hdr_sasl", "sasl_init">>) = 2
        /\ \A i \in 1 .. 2 : Append(<<"hdr_sasl">>, "sasl_init")[i] = <<"hdr_sasl", "sasl_init">>[i]
    BY DEF ClientMsg
  <2>3. QED
    BY <2>1, <2>2, SeqExt
<1>2. Append(<<"hdr_sasl", "sasl_init">>, "hdr_amqp") = <<"hdr_sasl", "sasl_init", "hdr_amqp">>
  <2>1. /\ Append(<<"hdr_sasl", "sasl_init">>, "hdr_amqp") \in Seq(ClientMsg)
        /\ <<"hdr_sasl", "sasl_init", "hdr_amqp">> \in Seq(ClientMsg)
    BY DEF ClientMsg, Header
  <2>2. /\ Len(Append(<<"hdr_sasl", "sasl_init">>, "hdr_amqp")) = 3 /\ Len(<<"hdr_sasl", "sasl_init", "hdr_amqp">>) = 3
        /\ \A i \in 1 .. 3 : Append(<<"hdr_sasl", "sasl_init">>, "hdr_amqp")[i] = <<"hdr_sasl", "sasl_init", "hdr_amqp">>[i]
    BY DEF ClientMsg
  <2>3. QED
    BY <2>1, <2>2, SeqExt
<1>3. Append(<<"hdr_amqp">>, "open") = PlainExchange
  <2>1. /\ Append(<<"hdr_amqp">>, "open") \in Seq(ClientMsg)
        /\ PlainExchange \in Seq(ClientMsg)
    BY DEF ClientMsg, Header, PlainExchange
  <2>2. /\ Len(Append(<<"hdr_amqp">>, "open")) = 2 /\ Len(PlainExchange) = 2
        /\ \A i \in 1 .. 2 : Append(<<"hdr_amqp">>, "open")[i] = PlainExchange[i]
    BY DEF PlainExchange
  <2>3. QED
    BY <2>1, <2>2, SeqExt
<1>4. Append(<<"hdr_sasl", "sasl_init", "hdr_amqp">>, "open") = SaslExchange
  <2>1. /\ Append(<<"hdr_sasl", "sasl_init", "hdr_amqp">>, "open") \in Seq(ClientMsg)
        /\ SaslExchange \in Seq(ClientMsg)
    BY DEF ClientMsg, Header, SaslExchange
  <2>2. /\ Len(Append(<<"hdr_sasl", "sasl_init", "hdr_amqp">>, "open")) = 4 /\ Len(SaslExchange) = 4
        /\ \A i \in 1 .. 4 : Append(<<"hdr_sasl", "sasl_init", "hdr_amqp">>, "open")[i] = SaslExchange[i]
    BY DEF SaslExchange
  <2>3. QED
    BY <2>1, <2>2, SeqExt
<1>5. QED
  BY <1>1, <1>2, <1>3, <1>4

(* The replies to one more message are the earlier replies and the reply  *)
(* to it.                                                                  *)
LEMMA RepliesAppend ==
  ASSUME NEW c \in Seq(ClientMsg), NEW m \in ClientMsg
  PROVE  Replies(Append(c, m)) = Append(Replies(c), ReplyTo(m))
BY DEF Replies

(* Replies(c) answers c position by position. *)
LEMMA RepliesMatch ==
  ASSUME NEW c \in Seq(ClientMsg)
  PROVE  /\ Len(Replies(c)) <= Len(c)
         /\ \A i \in 1 .. Len(Replies(c)) : Replies(c)[i] = ReplyTo(c[i])
BY DEF Replies

(* A step that ends the chain with an error: the server writes nothing    *)
(* more and reads at most one more message, so the replies still match.   *)
LEMMA FailStep ==
  ASSUME HSInv, phase # "failed",
         phase' = "failed", error' \in ErrorKind, s2c' = s2c,
         c2s' \in Seq(ClientMsg), factory' \in Seq(FactoryRecord),
         builder' = builder,
         \/ consumed' = consumed
         \/ \E m \in ClientMsg : consumed' = Append(consumed, m)
  PROVE  HSInv'
<1>1. s2c = Replies(consumed) /\ consumed \in Seq(ClientMsg)
  BY DEF HSInv, TypeOK
<1>2. /\ consumed' \in Seq(ClientMsg)
      /\ Len(consumed) <= Len(consumed')
      /\ \A i \in 1 .. Len(consumed) : consumed'[i] = consumed[i]
  <2>1. CASE consumed' = consumed
    BY <1>1, <2>1
  <2>2. CASE \E m \in ClientMsg : consumed' = Append(consumed, m)
    <3>1. PICK m \in ClientMsg : consumed' = Append(consumed, m)
      BY <2>2
    <3>2. QED
      BY <1>1, <3>1
  <2>3. QED
    BY <2>1, <2>2
<1>3. RepliesMatchRequests'
  <2>1. /\ Len(s2c) <= Len(consumed)
        /\ \A i \in 1 .. Len(s2c) : s2c[i] = ReplyTo(consumed[i])
    <3>1. /\ Len(Replies(consumed)) <= Len(consumed)
          /\ \A i \in 1 .. Len(Replies(consumed)) :
               Replies(consumed)[i] = ReplyTo(consumed[i])
      BY <1>1, RepliesMatch
    <3>2. QED
      BY <1>1, <3>1
  <2>2. QED
    BY <1>2, <2>1 DEF RepliesMatchRequests
<1>4. TypeOK'
  BY <1>2 DEF HSInv, TypeOK, Phase
<1>5. QED
  BY <1>3, <1>4 DEF HSInv, DispatchOnlyWhenEstablished

(* A step that reads m and answers it: the replies stay those of what has *)
(* been read.                                                              *)
LEMMA ReplyStep ==
  ASSUME HSInv, phase # "failed", NEW m \in ClientMsg,
         consumed' = Append(consumed, m),
         s2c' = Append(s2c, ReplyTo(m)), ReplyTo(m) \in ServerMsg,
         phase' \in Phase \ {"failed"}, error' = error,
         c2s' \in Seq(ClientMsg), factory' \in Seq(FactoryRecord),
         builder' = builder
  PROVE  /\ TypeOK'
         /\ RepliesMatchRequests'
         /\ s2c' = Replies(consumed')
<1>1. s2c = Replies(consumed) /\ consumed \in Seq(ClientMsg)
  BY DEF HSInv, TypeOK
<1>2. s2c' = Replies(consumed')
  BY <1>1, RepliesAppend
<1>3. consumed' \in Seq(ClientMsg)
  BY <1>1
<1>4. RepliesMatchRequests'
  BY <1>2, <1>3, RepliesMatch DEF RepliesMatchRequests
<1>5. TypeOK'
  BY <1>3 DEF HSInv, TypeOK
<1>6. QED
  BY <1>2, <1>4, <1>5

LEMMA InitHS == Init => HSInv
BY DEF Init, HSInv, TypeOK, Phase, ErrorKind, RepliesMatchRequests, Replies,
       DispatchOnlyWhenEstablished

-----------------------------------------------------------------------------
(* ServerService::call's first header read. *)
LEMMA ReadProtocolHS ==
  ASSUME HSInv, ReadProtocol, builder' = builder
  PROVE  HSInv'
<1> DEFINE m == Head(c2s)
<1>1. /\ phase = "read_proto" /\ consumed = <<>> /\ factory = <<>>
      /\ c2s \in Seq(ClientMsg) /\ c2s # <<>>
  BY DEF ReadProtocol, ReadHeader, HSInv, TypeOK
<1>2. /\ m \in ClientMsg /\ c2s' \in Seq(ClientMsg)
      /\ consumed' = Append(consumed, m) /\ factory' = factory
      /\ factory \in Seq(FactoryRecord)
  BY <1>1 DEF ReadProtocol, ReadHeader, HSInv, TypeOK
<1>3. CASE m = "hdr_amqp"
  <2>1. phase' = "read_open" /\ s2c' = Append(s2c, ReplyTo(m)) /\ error' = error
    BY <1>1, <1>3 DEF ReadProtocol, ReadHeader, Reply, ReplyTo
  <2>2. ReplyTo(m) \in ServerMsg
    BY <1>3 DEF ReplyTo, ServerMsg
  <2>3. TypeOK' /\ RepliesMatchRequests' /\ s2c' = Replies(consumed')
    BY <1>1, <1>2, <2>1, <2>2, ReplyStep DEF Phase
  <2>4. QED
    BY <1>1, <1>2, <1>3, <2>1, <2>3 DEF HSInv, DispatchOnlyWhenEstablished
<1>4. CASE m = "hdr_sasl"
  <2>1. phase' = "sasl" /\ s2c' = Append(s2c, ReplyTo(m)) /\ error' = error
    BY <1>1, <1>4 DEF ReadProtocol, ReadHeader, Reply, ReplyTo
  <2>2. ReplyTo(m) \in ServerMsg
    BY <1>4 DEF ReplyTo, ServerMsg
  <2>3. TypeOK' /\ RepliesMatchRequests' /\ s2c' = Replies(consumed')
    BY <1>1, <1>2, <2>1, <2>2, ReplyStep DEF Phase
  <2>4. QED
    BY <1>1, <1>2, <1>4, <2>1, <2>3 DEF HSInv, DispatchOnlyWhenEstablished
<1>5. CASE m \notin {"hdr_amqp", "hdr_sasl"}
  <2>1. phase' = "failed" /\ error' \in ErrorKind /\ s2c' = s2c
    BY <1>1, <1>5 DEF ReadProtocol, ReadHeader, Fail, ErrorKind
  <2>2. QED
    BY <1>1, <1>2, <2>1, FailStep
<1>6. QED
  BY <1>3, <1>4, <1>5

(* handshake's second header read, after SASL. *)
LEMMA ReadProtocol2HS ==
  ASSUME HSInv, ReadProtocol2, builder' = builder
  PROVE  HSInv'
<1> DEFINE m == Head(c2s)
<1>1. /\ phase = "read_proto2" /\ consumed = <<"hdr_sasl", "sasl_init">>
      /\ factory = SaslCall
      /\ c2s \in Seq(ClientMsg) /\ c2s # <<>>
  BY DEF ReadProtocol2, ReadHeader, HSInv, TypeOK
<1>2. /\ m \in ClientMsg /\ c2s' \in Seq(ClientMsg)
      /\ consumed' = Append(consumed, m) /\ factory' = factory
      /\ factory \in Seq(FactoryRecord)
  BY <1>1 DEF ReadProtocol2, ReadHeader, HSInv, TypeOK
<1>3. CASE m = "hdr_amqp"
  <2>1. phase' = "read_open2" /\ s2c' = Append(s2c, ReplyTo(m))
        /\ error' = error
    BY <1>1, <1>3 DEF ReadProtocol2, ReadHeader, Reply, ReplyTo
  <2>2. ReplyTo(m) \in ServerMsg
    BY <1>3 DEF ReplyTo, ServerMsg
  <2>3. TypeOK' /\ RepliesMatchRequests' /\ s2c' = Replies(consumed')
    BY <1>1, <1>2, <2>1, <2>2, ReplyStep DEF Phase
  <2>4. consumed' = <<"hdr_sasl", "sasl_init", "hdr_amqp">>
    BY <1>1, <1>2, <1>3, Histories
  <2>5. QED
    BY <1>1, <1>2, <2>1, <2>3, <2>4 DEF HSInv, DispatchOnlyWhenEstablished
<1>4. CASE m # "hdr_amqp"
  <2>1. phase' = "failed" /\ error' \in ErrorKind /\ s2c' = s2c
    BY <1>1, <1>4 DEF ReadProtocol2, ReadHeader, Fail, ErrorKind
  <2>2. QED
    BY <1>1, <1>2, <2>1, FailStep
<1>5. QED
  BY <1>3, <1>4

(* open_connection: the client's Open, after either header. *)
LEMMA OpenConnectionHS ==
  ASSUME HSInv, OpenConnection, builder' = builder
  PROVE  HSInv'
<1> DEFINE m == Head(c2s)
<1>1. /\ phase \in {"read_open", "read_open2"}
      /\ c2s \in Seq(ClientMsg) /\ c2s # <<>>
      /\ m \in ClientMsg /\ c2s' \in Seq(ClientMsg)
      /\ consumed' = Append(consumed, m) /\ factory' = factory
      /\ factory \in Seq(FactoryRecord)
  BY DEF OpenConnection, HSInv, TypeOK
<1>2. CASE m = "open"
  <2>1. /\ phase' = IF phase = "read_open" THEN "call_factory" ELSE "dispatch"
        /\ s2c' = Append(s2c, ReplyTo(m)) /\ error' = error
    <3>1. /\ phase' = IF phase = "read_open" THEN "call_factory" ELSE "dispatch"
          /\ s2c' = Append(s2c, "open") /\ error' = error
      BY <1>2 DEF OpenConnection, Reply, Header
    <3>2. ReplyTo(m) = "open"
      BY <1>2 DEF ReplyTo
    <3>3. QED
      BY <3>1, <3>2
  <2>2. ReplyTo(m) \in ServerMsg
    BY <1>2 DEF ReplyTo, ServerMsg
  <2>3. TypeOK' /\ RepliesMatchRequests' /\ s2c' = Replies(consumed')
    BY <1>1, <2>1, <2>2, ReplyStep DEF Phase
  <2>4. CASE phase = "read_open"
    <3>1. phase' = "call_factory" /\ consumed' = PlainExchange /\ factory' = <<>>
      BY <1>1, <1>2, <2>1, <2>4, Histories DEF HSInv
    <3>2. QED
      BY <2>3, <3>1 DEF HSInv, DispatchOnlyWhenEstablished
  <2>5. CASE phase = "read_open2"
    <3>1. phase' = "dispatch" /\ consumed' = SaslExchange /\ factory' = SaslCall
      BY <1>1, <1>2, <2>1, <2>5, Histories DEF HSInv
    <3>2. QED
      BY <2>3, <3>1 DEF HSInv, DispatchOnlyWhenEstablished, SaslCall,
         SaslExchange, PlainExchange
  <2>6. QED
    BY <1>1, <2>4, <2>5
<1>3. CASE m # "open"
  <2>1. phase' = "failed" /\ error' \in ErrorKind /\ s2c' = s2c
    BY <1>1, <1>3 DEF OpenConnection, Fail, ErrorKind
  <2>2. QED
    BY <1>1, <2>1, FailStep
<1>4. QED
  BY <1>2, <1>3

(* ServerService::call's factory call on the plain path. *)
LEMMA CallFactoryHS ==
  ASSUME HSInv, CallFactory, builder' = builder
  PROVE  HSInv'
<1>1. /\ phase = "call_factory" /\ consumed = PlainExchange /\ factory = <<>>
      /\ UNCHANGED <<c2s, s2c, consumed>>
      /\ c2s \in Seq(ClientMsg)
  BY DEF CallFactory, HSInv, TypeOK
<1>2. PICK stateOk \in BOOLEAN, serviceOk \in BOOLEAN :
        /\ FactoryCall("none", stateOk, serviceOk)
        /\ \/ stateOk /\ serviceOk /\ phase' = "dispatch" /\ UNCHANGED error
           \/ ~(stateOk /\ serviceOk) /\ Fail("service")
  BY DEF CallFactory, StateOutcomes
<1>3. factory' \in Seq(FactoryRecord)
  BY <1>1, <1>2 DEF FactoryCall, FactoryRecord
<1>4. CASE stateOk /\ serviceOk
  <2>1. factory' = <<[auth |-> "none", ok |-> TRUE]>> /\ phase' = "dispatch"
        /\ error' = error
    BY <1>1, <1>2, <1>4, AppendEmpty DEF FactoryCall
  <2>2. QED
    BY <1>1, <1>3, <2>1 DEF HSInv, TypeOK, Phase, RepliesMatchRequests,
       DispatchOnlyWhenEstablished
<1>5. CASE ~(stateOk /\ serviceOk)
  <2>1. phase' = "failed" /\ error' \in ErrorKind
    BY <1>2, <1>5 DEF Fail, ErrorKind
  <2>2. QED
    BY <1>1, <1>3, <2>1, FailStep
<1>6. QED
  BY <1>4, <1>5

(* Sasl::new: the SASL init and the factory call with the credentials. *)
LEMMA SaslHS ==
  ASSUME HSInv, Sasl, builder' = builder
  PROVE  HSInv'
<1> DEFINE m == Head(c2s)
<1>1. /\ phase = "sasl" /\ consumed = <<"hdr_sasl">> /\ factory = <<>>
      /\ c2s \in Seq(ClientMsg) /\ c2s # <<>>
      /\ m \in ClientMsg /\ c2s' \in Seq(ClientMsg)
      /\ consumed' = Append(consumed, m)
  BY DEF Sasl, HSInv, TypeOK
<1>2. CASE m = "sasl_init"
  <2>1. PICK authOk \in BOOLEAN, serviceOk \in BOOLEAN :
          /\ FactoryCall("sasl", authOk, serviceOk)
          /\ \/ /\ authOk /\ serviceOk
                /\ Reply("sasl_outcome")
                /\ phase' = "read_proto2"
                /\ UNCHANGED error
             \/ /\ ~(authOk /\ serviceOk)
                /\ Fail("sasl")
                /\ UNCHANGED s2c
    BY <1>2 DEF Sasl
  <2>2. factory' \in Seq(FactoryRecord)
    BY <1>1, <2>1 DEF FactoryCall, FactoryRecord
  <2>3. CASE authOk /\ serviceOk
    <3>1. /\ phase' = "read_proto2" /\ error' = error
          /\ s2c' = Append(s2c, ReplyTo(m))
          /\ factory' = SaslCall
      BY <1>1, <1>2, <2>1, <2>3, AppendEmpty DEF FactoryCall, Reply, ReplyTo,
         SaslCall
    <3>2. ReplyTo(m) \in ServerMsg
      BY <1>2 DEF ReplyTo, ServerMsg
    <3>3. TypeOK' /\ RepliesMatchRequests' /\ s2c' = Replies(consumed')
      BY <1>1, <2>2, <3>1, <3>2, ReplyStep DEF Phase
    <3>4. consumed' = <<"hdr_sasl", "sasl_init">>
      BY <1>1, <1>2, Histories
    <3>5. QED
      BY <3>1, <3>3, <3>4 DEF HSInv, DispatchOnlyWhenEstablished
  <2>4. CASE ~(authOk /\ serviceOk)
    <3>1. phase' = "failed" /\ error' \in ErrorKind /\ s2c' = s2c
      BY <2>1, <2>4 DEF Fail, ErrorKind
    <3>2. QED
      BY <1>1, <2>2, <3>1, FailStep
  <2>5. QED
    BY <2>3, <2>4
<1>3. CASE m # "sasl_init"
  <2>1. /\ phase' = "failed" /\ error' \in ErrorKind /\ s2c' = s2c
        /\ factory' = factory
    BY <1>1, <1>3 DEF Sasl, Fail, ErrorKind
  <2>2. QED
    BY <1>1, <2>1, FailStep DEF HSInv, TypeOK
<1>4. QED
  BY <1>2, <1>3

(* A read or write of the stream fails. *)
LEMMA IoErrorHS ==
  ASSUME HSInv, IoError, builder' = builder
  PROVE  HSInv'
<1>1. /\ phase # "failed" /\ phase' = "failed" /\ error' \in ErrorKind
      /\ UNCHANGED <<c2s, s2c, consumed, factory>>
  BY DEF IoError, Fail, ErrorKind
<1>2. QED
  BY <1>1, FailStep DEF HSInv, TypeOK

(* The client writes; the server's state is untouched. *)
LEMMA ClientSendHS ==
  ASSUME HSInv, NEW m \in ClientMsg, ClientSend(m), builder' = builder
  PROVE  HSInv'
<1>1. c2s' \in Seq(ClientMsg)
  BY DEF ClientSend, HSInv, TypeOK
<1>2. QED
  BY <1>1 DEF ClientSend, HSInv, TypeOK, RepliesMatchRequests,
     DispatchOnlyWhenEstablished

(* HSInv is inductive. *)
LEMMA NextHS ==
  HSInv /\ [Next]_vars => HSInv'
<1> SUFFICES ASSUME HSInv, [Next]_vars PROVE HSInv'
  OBVIOUS
<1>1. CASE UNCHANGED vars
  BY <1>1 DEF HSInv, TypeOK, RepliesMatchRequests,
     DispatchOnlyWhenEstablished
<1>2. CASE Next
  <2>1. builder' = builder
    BY <1>2 DEF Next
  <2>2. QED
    BY <1>2, <2>1, ReadProtocolHS, ReadProtocol2HS, OpenConnectionHS,
       CallFactoryHS, SaslHS, IoErrorHS, ClientSendHS DEF Next
<1>3. QED
  BY <1>1, <1>2

(* The handshake invariant holds in every reachable state. *)
THEOREM HandshakeInvariant == Spec => []HSInv
BY InitHS, NextHS, PTL DEF Spec

(* Every message the server writes answers the message the client sent   *)
(* at the same position (ServerService::call, handshake, open_connection), *)
(* whatever the client sends and for every bound on its messages.          *)
THEOREM HandshakeRepliesMatch == Spec => []RepliesMatchRequests
<1>1. HSInv => RepliesMatchRequests
  BY DEF HSInv
<1>2. QED
  BY <1>1, HandshakeInvariant, PTL

(* The Dispatcher gets only connections that went through a complete      *)
(* plain or SASL exchange with one successful factory call.               *)
THEOREM HandshakeDispatchSafe == Spec => []DispatchOnlyWhenEstablished
<1>1. HSInv => DispatchOnlyWhenEstablished
  BY DEF HSInv
<1>2. QED
  BY <1>1, HandshakeInvariant, PTL

(* Every reachable handshake state is well typed: the phase, the error,   *)
(* both directions of the socket, the messages read and the factory calls *)
(* made stay in their sets, whatever the client sends.                     *)
THEOREM HandshakeTypeCorrect == Spec => []TypeOK
<1>1. HSInv => TypeOK
  BY DEF HSInv
<1>2. QED
  BY <1>1, HandshakeInvariant, PTL

=============================================================================
