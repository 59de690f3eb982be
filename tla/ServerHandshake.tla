--------------------------- MODULE ServerHandshake ---------------------------
(***************************************************************************)
(* The server side of connection establishment (src/server/factory.rs,    *)
(* ServerService::call, handshake and open_connection, with the factory   *)
(* call of src/server/service.rs).  The server reads the client's          *)
(* protocol header; for plain AMQP it answers with the AMQP header, reads  *)
(* the client's Open, answers with its own Open and calls the service      *)
(* factory; for SASL it answers with the SASL header, runs the SASL        *)
(* exchange (which calls the factory with the credentials), then reads a   *)
(* second header and exchanges Opens.  On success the connection goes to   *)
(* the Dispatcher.  The client is arbitrary: any sequence of headers,      *)
(* frames and an end of stream, up to a bound.                             *)
(***************************************************************************)
EXTENDS Integers, Sequences

CONSTANT MaxClientMsgs   \* messages the client sends

ASSUME HandshakeAssumption == MaxClientMsgs \in Nat

(* What the client can put on the stream: protocol headers (AMQP, SASL,   *)
(* TLS), AMQP frames (Open, Begin), a SASL init frame, end of stream.      *)
Header == {"hdr_amqp", "hdr_sasl", "hdr_tls"}
ClientMsg == Header \cup {"open", "begin", "sasl_init", "eof"}

(* What the server writes. *)
ServerMsg == {"hdr_amqp", "hdr_sasl", "sasl_outcome", "open", "close"}

(* HandshakeError kinds; "none" while no error. *)
ErrorKind == {"none", "disconnected", "unexpected", "codec", "io", "sasl",
              "service"}

Phase == {"read_proto", "read_open", "sasl", "read_proto2", "read_open2",
          "call_factory", "dispatch", "failed"}

VARIABLES
  phase,        \* where the server's future chain is
  error,        \* the HandshakeError it ended with
  c2s,          \* bytes from the client not yet read, as messages
  s2c,          \* what the server has written, in order
  consumed,     \* what the server has read, in order (history)
  factory,      \* factory calls: the auth argument and whether it succeeded
  builder       \* how the ServiceFactoryService was built (see Builders)

vars == <<phase, error, c2s, s2c, consumed, factory, builder>>

(* The builders of src/server/service.rs, by the state service they give  *)
(* the factory: "state" for ServiceFactory::state(f) (then .sasl and       *)
(* .service keep f, whose errors map into Error); "stateless" for          *)
(* ServiceFactory::sasl and ServiceFactory::service, whose state service   *)
(* is (|()| ok(())).                                                       *)
Builders == {"state", "stateless"}

(* The outcomes of the state service's call. *)
StateOutcomes == IF builder = "state" THEN BOOLEAN ELSE {TRUE}

FactoryRecord == [auth : {"none", "sasl"}, ok : BOOLEAN]

TypeOK ==
  /\ phase \in Phase
  /\ error \in ErrorKind
  /\ c2s \in Seq(ClientMsg)
  /\ s2c \in Seq(ServerMsg)
  /\ consumed \in Seq(ClientMsg)
  /\ factory \in Seq(FactoryRecord)
  /\ builder \in Builders

Init ==
  /\ phase = "read_proto"
  /\ error = "none"
  /\ c2s = <<>>
  /\ s2c = <<>>
  /\ consumed = <<>>
  /\ factory = <<>>
  /\ builder \in Builders

-----------------------------------------------------------------------------
(* The chain ends with an error: `.map_err(|_| ())` drops the stream. *)
Fail(kind) ==
  /\ phase' = "failed"
  /\ error' = kind

(* Read one message and write the reply. *)
Reply(m) == s2c' = Append(s2c, m)

(* The first message on a stream read with ProtocolIdCodec: a header, the *)
(* end of stream, or bytes that are not a header (a codec error).          *)
ReadHeader(onAmqp, onSasl) ==
  LET m == Head(c2s) IN
  /\ c2s # <<>>
  /\ c2s' = Tail(c2s)
  /\ consumed' = Append(consumed, m)
  /\ CASE m = "hdr_amqp" -> onAmqp
       [] m = "hdr_sasl" -> onSasl
       [] m = "hdr_tls"  -> Fail("unexpected") /\ UNCHANGED s2c
       [] m = "eof"      -> Fail("disconnected") /\ UNCHANGED s2c
       [] OTHER          -> Fail("codec") /\ UNCHANGED s2c

(* Mutant of ReadProtocol: the SASL header is answered as plain AMQP. *)
ReadProtocolSwapped ==
  /\ phase = "read_proto"
  /\ ReadHeader(Reply("hdr_amqp") /\ phase' = "read_open" /\ UNCHANGED error,
                Reply("hdr_amqp") /\ phase' = "read_open" /\ UNCHANGED error)
  /\ UNCHANGED factory


(* ServerService::call: the first header.  AMQP and SASL are answered     *)
(* with the same header; TLS is Unexpected; no header is Disconnected.     *)
ReadProtocol ==
  /\ phase = "read_proto"
  /\ ReadHeader(Reply("hdr_amqp") /\ phase' = "read_open" /\ UNCHANGED error,
                Reply("hdr_sasl") /\ phase' = "sasl" /\ UNCHANGED error)
  /\ UNCHANGED factory

(* handshake, after SASL: the second header must be AMQP, and is answered *)
(* with the AMQP header.                                                   *)
ReadProtocol2 ==
  /\ phase = "read_proto2"
  /\ ReadHeader(Reply("hdr_amqp") /\ phase' = "read_open2" /\ UNCHANGED error,
                Fail("unexpected") /\ UNCHANGED s2c)
  /\ UNCHANGED factory

(* Mutant of OpenConnection: any AMQP frame is taken for the Open. *)
OpenConnectionAnyFrame ==
  LET m == Head(c2s) IN
  /\ phase \in {"read_open", "read_open2"}
  /\ c2s # <<>>
  /\ c2s' = Tail(c2s)
  /\ consumed' = Append(consumed, m)
  /\ CASE m \in {"open", "begin", "sasl_init"} ->
            /\ Reply("open")
            /\ phase' = IF phase = "read_open" THEN "call_factory"
                        ELSE "dispatch"
            /\ UNCHANGED error
       [] m = "eof" -> Fail("disconnected") /\ UNCHANGED s2c
       [] OTHER -> Fail("codec") /\ UNCHANGED s2c
  /\ UNCHANGED factory


(* open_connection: the first frame must be Open; it is confirmed with    *)
(* the local Open.  Then ServerService::call goes on to the factory on the *)
(* plain path, or to the Dispatcher after SASL.                            *)
OpenConnection ==
  LET m == Head(c2s) IN
  /\ phase \in {"read_open", "read_open2"}
  /\ c2s # <<>>
  /\ c2s' = Tail(c2s)
  /\ consumed' = Append(consumed, m)
  /\ CASE m = "open" ->
            /\ Reply("open")
            /\ phase' = IF phase = "read_open" THEN "call_factory"
                        ELSE "dispatch"
            /\ UNCHANGED error
       [] m = "eof" -> Fail("disconnected") /\ UNCHANGED s2c
       [] m \in Header -> Fail("codec") /\ UNCHANGED s2c
       [] OTHER -> Fail("unexpected") /\ UNCHANGED s2c
  /\ UNCHANGED factory

(* ServiceFactoryService::call: the state service (auth = None) or the    *)
(* SASL service (auth = Some) joined with new_service; the call fails if   *)
(* either fails.                                                           *)
FactoryCall(auth, firstOk, serviceOk) ==
  factory' = Append(factory, [auth |-> auth, ok |-> firstOk /\ serviceOk])

(* Mutant of CallFactory: the factory's error is dropped. *)
CallFactoryIgnoreError ==
  /\ phase = "call_factory"
  /\ \E stateOk \in StateOutcomes, serviceOk \in BOOLEAN :
       /\ FactoryCall("none", stateOk, serviceOk)
       /\ phase' = "dispatch"
       /\ UNCHANGED error
  /\ UNCHANGED <<c2s, s2c, consumed>>


(* ServerService::call, plain path: factory.call(None) after the Opens;   *)
(* its error becomes HandshakeError::Service.                              *)
CallFactory ==
  /\ phase = "call_factory"
  /\ \E stateOk \in StateOutcomes, serviceOk \in BOOLEAN :
       /\ FactoryCall("none", stateOk, serviceOk)
       /\ \/ stateOk /\ serviceOk /\ phase' = "dispatch" /\ UNCHANGED error
          \/ ~(stateOk /\ serviceOk) /\ Fail("service")
  /\ UNCHANGED <<c2s, s2c, consumed>>

(* Mutant of Sasl: the SASL init frame is echoed instead of answered. *)
SaslEcho ==
  LET m == Head(c2s) IN
  /\ phase = "sasl"
  /\ c2s # <<>>
  /\ c2s' = Tail(c2s)
  /\ consumed' = Append(consumed, m)
  /\ CASE m = "sasl_init" ->
            \E authOk, serviceOk \in BOOLEAN :
              /\ FactoryCall("sasl", authOk, serviceOk)
              /\ \/ /\ authOk /\ serviceOk
                    /\ Reply(m)
                    /\ phase' = "read_proto2"
                    /\ UNCHANGED error
                 \/ /\ ~(authOk /\ serviceOk)
                    /\ Fail("sasl")
                    /\ UNCHANGED s2c
       [] m = "eof" -> Fail("disconnected") /\ UNCHANGED <<s2c, factory>>
       [] OTHER -> Fail("unexpected") /\ UNCHANGED <<s2c, factory>>


(* Sasl::new: read the client's SASL init, call the factory with the      *)
(* credentials, and answer with the SASL outcome on success.               *)
Sasl ==
  LET m == Head(c2s) IN
  /\ phase = "sasl"
  /\ c2s # <<>>
  /\ c2s' = Tail(c2s)
  /\ consumed' = Append(consumed, m)
  /\ CASE m = "sasl_init" ->
            \E authOk, serviceOk \in BOOLEAN :
              /\ FactoryCall("sasl", authOk, serviceOk)
              /\ \/ /\ authOk /\ serviceOk
                    /\ Reply("sasl_outcome")
                    /\ phase' = "read_proto2"
                    /\ UNCHANGED error
                 \/ /\ ~(authOk /\ serviceOk)
                    /\ Fail("sasl")
                    /\ UNCHANGED s2c
       [] m = "eof" -> Fail("disconnected") /\ UNCHANGED <<s2c, factory>>
       [] OTHER -> Fail("unexpected") /\ UNCHANGED <<s2c, factory>>

(* Reading or writing the stream fails at any step before the Dispatcher. *)
IoError ==
  /\ phase \notin {"dispatch", "failed"}
  /\ Fail("io")
  /\ UNCHANGED <<c2s, s2c, consumed, factory>>

(* The client writes its next message; nothing follows an end of stream. *)
ClientSend(m) ==
  /\ Len(consumed) + Len(c2s) < MaxClientMsgs
  /\ \A i \in 1 .. Len(c2s) : c2s[i] # "eof"
  /\ "eof" \notin {consumed[i] : i \in DOMAIN consumed}
  /\ c2s' = Append(c2s, m)
  /\ UNCHANGED <<phase, error, s2c, consumed, factory>>

Next ==
  /\ \/ ReadProtocol
     \/ ReadProtocol2
     \/ OpenConnection
     \/ CallFactory
     \/ Sasl
     \/ IoError
     \/ \E m \in ClientMsg : ClientSend(m)
  /\ UNCHANGED builder

Spec == Init /\ [][Next]_vars

-----------------------------------------------------------------------------
(* Properties *)

(* What the server answers to each message it accepts. *)
ReplyTo(m) ==
  CASE m = "sasl_init" -> "sasl_outcome"
    [] OTHER -> m

(* The two exchanges that establish a connection: what the server reads   *)
(* and what it writes, message for message.                                *)
PlainExchange == <<"hdr_amqp", "open">>
SaslExchange == <<"hdr_sasl", "sasl_init", "hdr_amqp", "open">>

(* Every message the server writes answers the message it read at the    *)
(* same position, and is written only once that message has been read:    *)
(* headers echo headers, Open answers Open, the SASL outcome answers the   *)
(* SASL init (ServerService::call, handshake, open_connection).            *)
RepliesMatchRequests ==
  /\ Len(s2c) <= Len(consumed)
  /\ \A i \in 1 .. Len(s2c) : s2c[i] = ReplyTo(consumed[i])

(* A connection reaches the Dispatcher only after one of the two complete *)
(* exchanges, with the factory called exactly once, with the credentials   *)
(* on the SASL path and without on the plain path, and succeeding         *)
(* (ServerService::call's chain up to Dispatcher::new).                    *)
DispatchOnlyWhenEstablished ==
  phase = "dispatch" =>
    \/ /\ consumed = PlainExchange
       /\ factory = <<[auth |-> "none", ok |-> TRUE]>>
    \/ /\ consumed = SaslExchange
       /\ factory = <<[auth |-> "sasl", ok |-> TRUE]>>

(* A service error raised after the server sent its Open is reported to   *)
(* the client with a Close (spec, error kinds: Service errors are surfaced *)
(* to the peer on Attach/Close); ServerService::call drops the stream.     *)
ServiceErrorClosed ==
  (error = "service" /\ "open" \in {s2c[i] : i \in DOMAIN s2c})
    => s2c[Len(s2c)] = "close"

=============================================================================
