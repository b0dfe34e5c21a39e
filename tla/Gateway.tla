-------------------------------- MODULE Gateway --------------------------------
(***************************************************************************)
(* The gateway process: its main loop, the two modules it runs in turn,    *)
(* and the requests of the push server that pass between them.             *)
(*                                                                         *)
(* A round of the loop is one event_base_loop(EVLOOP_ONCE), in which each  *)
(* source of events is served once at most, then the message queue of the  *)
(* serial module, then that of the client module.                          *)
(*                                                                         *)
(* ZSerial has the port, the device table and ZZigBeeHandler; FGWClient    *)
(* has the connection and a forward session for each request under way.    *)
(* How the connection comes about, the LOGIN and its timers are the        *)
(* subject of ZClient and FgwClient: here it is up, ended by the server,   *)
(* or down.  How the bytes of the port make frames is that of ZBStream.    *)
(***************************************************************************)
EXTENDS ZBDevManager, Naturals, Sequences, FiniteSets

CONSTANTS
  MaxConn,       \* bound: connections of a behaviour
  MaxSent,       \* bound: requests the server sends
  Seqs, Kinds,   \* numbers and kinds of the requests it sends
  MaxInner,      \* id_generator_ runs from 1 to this (0xFFFFFF in the code)
  SessionTicks,  \* routine ticks a forward session may last (20 in the code)
  MaxListed,     \* known devices a device list can name in 1024 bytes
  NoSession, NoReq, NoAnswer

ASSUME GatewayAssumption ==
  /\ MaxConn \in Nat /\ MaxSent \in Nat /\ MaxListed \in Nat
  /\ MaxInner \in Nat \ {0} /\ SessionTicks \in Nat \ {0}
  /\ Seqs \subseteq Nat
  /\ Kinds \subseteq {"list", "get", "getmany", "set", "other"}

VARIABLES
  alive,     \* no assertion has ended the process
  turn,      \* what the loop is doing
  fired,     \* sources of events served in this round
  conn,      \* number of the last connection that came up
  link,      \* the connection: "up", "eof" (ended by the server), "down"
  admitted,  \* whether the server has answered this connection's LOGIN
  wire,      \* messages of the server the gateway has not read
  reg,       \* state_ of FGWClientHandler on a connection
  idGen,     \* last_ of id_generator_
  session,   \* session_map_ of session_ctrl_
  keyMap,    \* key_map_ of session_ctrl_
  serialQ,   \* inner_msg_queue_ of the serial module
  clientQ,   \* inner_msg_queue_ of the client module
  port,      \* state_ of ZSerial
  stale,     \* the read event of a port that was closed is still registered
  shared,    \* the connection's socket has that event's descriptor number
  sent,      \* auxiliary: how many requests the server has sent
  replies,   \* auxiliary: how many answers to each reached the server
  answer     \* auxiliary: the last answer of this round

loopVars == <<alive, turn, fired>>
linkVars == <<conn, link, admitted, wire, reg>>
sessVars == <<idGen, session, keyMap>>
portVars == <<port, stale, tableVars>>
queues   == <<serialQ, clientQ>>
history  == <<sent, replies, answer>>
vars     == <<loopVars, linkVars, sessVars, portVars, queues, shared, history>>

(* What push2inner makes an inner message of: "getmany" is a get-dev-info  *)
(* with an answer of more than 1024 bytes.                                 *)
Forwarded == {"list", "get", "getmany", "set"}

Request == 1 .. MaxSent
Inner == 1 .. MaxInner

(* 0 stands for the numbers no request of the server has.                  *)
Numbers == Seqs \cup {0}

(* A request as the server sent it.                                        *)
Req == [id : Request, conn : 1 .. MaxConn, seq : Seqs, kind : Kinds]

(* A message as far as the gateway can tell it; req, which it cannot, is   *)
(* the request that was sent under its number, in what was read.           *)
Msg == [req : Req \cup {NoReq}, seq : Numbers, kind : Forwarded \cup {"other", "login", "junk"}]
LoginRsp == [req |-> NoReq, seq |-> 0, kind |-> "login"]
Junk == [req |-> NoReq, seq |-> 0, kind |-> "junk"]

(* alone: it is of a message that was read whole and by itself (auxiliary). *)
Session == [req : Req \cup {NoReq}, alone : BOOLEAN, ext : Numbers, age : 0 .. SessionTicks]
Ask == [inner : Inner, kind : Forwarded]
Reply == [inner : Inner, kind : Forwarded, fits : BOOLEAN]
Sending == [req : Req \cup {NoReq}, alone : BOOLEAN, conn : 0 .. MaxConn, seq : Numbers, kind : Forwarded]

ASSUME NullAssumption == NoReq \notin Req /\ NoSession \notin Session /\ NoAnswer \notin Sending

TypeOK ==
  /\ TableTypeOK
  /\ alive \in BOOLEAN /\ turn \in {"events", "serial", "client"}
  /\ fired \subseteq {"link", "port", "tick", "stale"}
  /\ conn \in 0 .. MaxConn /\ link \in {"up", "eof", "down"} /\ admitted \in BOOLEAN
  /\ wire \in Seq(Msg) /\ reg \in {"wait", "registered"}
  /\ idGen \in 1 .. MaxInner + 1
  /\ session \in [Inner -> Session \cup {NoSession}]
  /\ keyMap \subseteq Inner \X Numbers
  /\ serialQ \in Seq(Ask) /\ clientQ \in Seq(Reply)
  /\ port \in {"open", "closed"} /\ stale \in BOOLEAN /\ shared \in BOOLEAN
  /\ sent \in 0 .. MaxSent /\ replies \in [Request -> Nat]
  /\ answer \in Sending \cup {NoAnswer}

(* fgw.cc runs the loop whether or not the port could be opened.           *)
Init ==
  /\ TableInit
  /\ alive = TRUE /\ turn = "events" /\ fired = {}
  /\ conn = 0 /\ link = "down" /\ admitted = FALSE /\ wire = <<>> /\ reg = "wait"
  /\ idGen = 1 /\ session = [i \in Inner |-> NoSession] /\ keyMap = {}
  /\ serialQ = <<>> /\ clientQ = <<>>
  /\ port \in {"open", "closed"} /\ stale = FALSE /\ shared = FALSE
  /\ sent = 0 /\ replies = [r \in Request |-> 0] /\ answer = NoAnswer

-----------------------------------------------------------------------------
(* The push server                                                         *)

ServerAdmits ==
  /\ link = "up" /\ ~admitted
  /\ admitted' = TRUE
  /\ wire' = Append(wire, LoginRsp)
  /\ UNCHANGED <<loopVars, conn, link, reg, sessVars, portVars, queues, shared, history>>

ServerSends(s, k) ==
  /\ link = "up" /\ admitted /\ sent < MaxSent
  /\ sent' = sent + 1
  /\ wire' = Append(wire, [req |-> [id |-> sent + 1, conn |-> conn, seq |-> s, kind |-> k],
                           seq |-> s, kind |-> k])
  /\ UNCHANGED <<loopVars, conn, link, admitted, reg, sessVars, portVars, queues, shared, replies, answer>>

(* After a close what was sent can still be read, after a reset it cannot. *)
ServerCloses ==
  /\ link = "up"
  /\ link' = "eof"
  /\ wire' \in {wire, <<>>}
  /\ UNCHANGED <<loopVars, conn, admitted, reg, sessVars, portVars, queues, shared, history>>

-----------------------------------------------------------------------------
(* The events of a round                                                   *)

(* Timers come after the descriptors.                                      *)
Fires(e) ==
  /\ alive /\ turn = "events" /\ fired \cap {e, "tick"} = {}
  /\ fired' = fired \cup {e}
  /\ UNCHANGED turn

(* The socket has what recv() can return, data or an end.                  *)
Readable == link = "eof" \/ wire # <<>>

(* A new connection: FGWClientHandler::onConnected sends LOGIN.  Its       *)
(* socket gets the lowest free number, that of a closed port perhaps.      *)
Connect ==
  /\ link = "down" /\ conn < MaxConn
  /\ Fires("link")
  /\ link' = "up" /\ conn' = conn + 1
  /\ admitted' = FALSE /\ wire' = <<>> /\ reg' = "wait"
  /\ shared' \in {FALSE, stale}
  /\ UNCHANGED <<alive, sessVars, portVars, queues, history>>

(* MUTANT: the generator never starts again.                               *)
MutNextId == idGen

(* HandlerIdGenerator::next                                                *)
NextId == IF idGen > MaxInner THEN 1 ELSE idGen

ExtTaken(s) == \E p \in keyMap : p[2] = s /\ session[p[1]] # NoSession

(* ZSessionCtrl2Key::add refuses a pair with either key in use.            *)
AddSession(i, s) ==
  IF \E p \in keyMap : p[1] = i \/ p[2] = s.ext
  THEN UNCHANGED <<session, keyMap>>
  ELSE /\ session' = [session EXCEPT ![i] = s]
       /\ keyMap' = keyMap \cup {<<i, s.ext>>}

(* onRead_Registered: a message under a number that is in use is dropped,  *)
(* another one becomes a session, which passes a request on to the serial  *)
(* module and is dropped with a message that is not one.                   *)
HandleRequest(m, alone) ==
  IF m.kind = "junk" \/ ExtTaken(m.seq)
  THEN UNCHANGED <<sessVars, serialQ>>
  ELSE /\ idGen' = NextId + 1
       /\ IF m.kind \in Forwarded
          THEN /\ serialQ' = Append(serialQ, [inner |-> NextId, kind |-> m.kind])
               /\ AddSession(NextId, [req |-> m.req, alone |-> alone, ext |-> m.seq, age |-> 0])
          ELSE UNCHANGED <<session, keyMap, serialQ>>

(* FGWClientHandler::onRead                                                *)
Handle(m, alone) ==
  IF reg = "wait"
  THEN /\ reg' = IF m.kind = "login" THEN "registered" ELSE "wait"
       /\ UNCHANGED <<sessVars, serialQ>>
  ELSE HandleRequest(m, alone) /\ UNCHANGED reg

(* Messages parsed across their boundaries: protobuf_decode takes what is  *)
(* behind the first length for one message, so that the length byte of the *)
(* next is a field's tag and the byte after it that field's value.  24, a  *)
(* length as any other, sets the sequence to 8.  What comes out can have    *)
(* any type and number, of one of the messages or of none.                 *)
Owners(ms, s) == {ms[i].req : i \in {j \in DOMAIN ms : ms[j].req # NoReq /\ ms[j].seq = s}}
Mixed(ms) ==
  {m \in [req : {ms[i].req : i \in DOMAIN ms} \cup {NoReq}, seq : Numbers,
          kind : Forwarded \cup {"other", "login"}] :
     IF Owners(ms, m.seq) = {} THEN m.req = NoReq ELSE m.req \in Owners(ms, m.seq)}

(* What protobuf_decode can make of the messages ms one recv() returned,   *)
(* the last of them in part if cut.  Of one that is cut between two fields *)
(* the type and number are left, without the body.                         *)
Decoded(ms, cut) ==
  IF Len(ms) = 1 /\ ms[1] # Junk
  THEN IF cut THEN {Junk, [ms[1] EXCEPT !.kind = "other"]} ELSE {ms[1]}
  ELSE {Junk} \cup Mixed(ms)

(* A shared event is dispatched to the serial module first.                *)
ClientReads ==
  /\ link # "down" /\ (shared => "stale" \in fired)
  /\ Fires("link")

(* The first k messages are one that has come whole.                       *)
Whole(k, cut) == k = 1 /\ ~cut /\ wire[1] # Junk

(* What is left to read: of a message cut, bytes that are no message.      *)
Unread(k, cut) == (IF cut THEN <<Junk>> ELSE <<>>) \o SubSeq(wire, k + 1, Len(wire))

(* MUTANT: the buffer keeps what was parsed.                               *)
MutRead(k, cut) ==
  /\ ClientReads /\ k \in 1 .. Len(wire) /\ (cut => wire[k] # Junk)
  /\ \E m \in Decoded(SubSeq(wire, 1, k), cut) : Handle(m, Whole(k, cut))
  /\ UNCHANGED <<alive, conn, link, admitted, wire, portVars, clientQ, shared, history>>

(* ZClient::onConnected: one recv() of the first k messages, or of the     *)
(* k-th only a part ("XXX: continus package").                             *)
Read(k, cut) ==
  /\ ClientReads /\ k \in 1 .. Len(wire) /\ (cut => wire[k] # Junk)
  /\ \E m \in Decoded(SubSeq(wire, 1, k), cut) : Handle(m, Whole(k, cut))
  /\ wire' = Unread(k, cut)
  /\ UNCHANGED <<alive, conn, link, admitted, portVars, clientQ, shared, history>>

(* recv() returns 0.                                                       *)
ReadEof ==
  /\ ClientReads /\ link = "eof" /\ wire = <<>>
  /\ link' = "down"
  /\ UNCHANGED <<alive, conn, admitted, wire, reg, sessVars, portVars, queues, shared, history>>

(* recv() fails with EAGAIN, the bytes it was woken for being gone: any    *)
(* failure closes the connection.                                          *)
ReadNothing ==
  /\ ClientReads /\ link = "up" /\ wire = <<>> /\ "stale" \in fired
  /\ link' = "down"
  /\ UNCHANGED <<alive, conn, admitted, wire, reg, sessVars, portVars, queues, shared, history>>

(* The dispatcher's routine: every forward session grows older, one that   *)
(* is too old is closed and erased.                                        *)
Tick ==
  /\ Fires("tick")
  /\ LET live == {i \in Inner : session[i] # NoSession /\ session[i].age < SessionTicks} IN
       /\ session' = [i \in Inner |-> IF i \in live THEN [session[i] EXCEPT !.age = @ + 1] ELSE NoSession]
       /\ keyMap' = {p \in keyMap : p[1] \in live}
  /\ UNCHANGED <<alive, linkVars, idGen, portVars, queues, shared, history>>

-----------------------------------------------------------------------------
(* The serial port: ZSerial                                                *)

(* A device registers: REG_REQ, answered with the result of add().         *)
Register(m, a) ==
  /\ port = "open" /\ Fires("port")
  /\ \/ Add(m, a) /\ UNCHANGED alive
     \/ AddAborts(m, a) /\ alive' = FALSE /\ UNCHANGED tableVars
  /\ UNCHANGED <<linkVars, sessVars, port, stale, queues, shared, history>>

(* Every other frame: UPDATE_ID_REQ is answered and changes no address,    *)
(* and no session waits for a GET_RSP, SET_RSP or BIND_RSP.                *)
OtherFrame ==
  /\ port = "open" /\ Fires("port")
  /\ UNCHANGED <<alive, linkVars, sessVars, portVars, queues, shared, history>>

(* read() returns 0 or fails: close() and STATE_DISCONNECTED.  The event   *)
(* is not removed and scheduleReconnect() does nothing.                    *)
PortEnds ==
  /\ port = "open" /\ Fires("port")
  /\ port' = "closed" /\ stale' = TRUE
  /\ UNCHANGED <<alive, linkVars, sessVars, tableVars, queues, shared, history>>

(* The event left behind fires for the client's socket.  ZSerial takes it  *)
(* for a chance to open the port again, and that ends the process if the   *)
(* notification cannot be written.                                         *)
StaleReopens ==
  /\ shared /\ link # "down" /\ Readable /\ port = "closed"
  /\ Fires("stale") /\ "link" \notin fired
  /\ \/ port' \in {"open", "closed"} /\ UNCHANGED alive
     \/ alive' = FALSE /\ UNCHANGED port
  /\ UNCHANGED <<linkVars, sessVars, stale, tableVars, queues, shared, history>>

(* With the port open it reads the server's messages into the stream of    *)
(* frames, and closes the port at the end of the connection.               *)
StaleReads ==
  /\ shared /\ link # "down" /\ Readable /\ port = "open"
  /\ Fires("stale") /\ "link" \notin fired
  /\ wire' = <<>>
  /\ port' = IF link = "eof" THEN "closed" ELSE "open"
  /\ UNCHANGED <<alive, conn, link, admitted, reg, sessVars, stale, tableVars, queues, shared, history>>

-----------------------------------------------------------------------------
(* The queues: checkMsgQueue of one module and then of the other           *)

(* Every event that was active has been dispatched.                        *)
EndEvents ==
  /\ alive /\ turn = "events" /\ fired # {} /\ ("stale" \in fired => "link" \in fired)
  /\ turn' = "serial"
  /\ UNCHANGED <<alive, fired, linkVars, sessVars, portVars, queues, shared, history>>

(* MUTANT: the debugging answer to a set-dev-info request is taken out.    *)
MutSerialAnswers ==
  /\ alive /\ turn = "serial" /\ serialQ # <<>>
  /\ serialQ' = Tail(serialQ)
  /\ clientQ' = IF Head(serialQ).kind = "set" THEN clientQ
                ELSE Append(clientQ, [inner |-> Head(serialQ).inner, kind |-> Head(serialQ).kind, fits |-> TRUE])
  /\ UNCHANGED <<loopVars, linkVars, sessVars, portVars, shared, history>>

(* ZZigBeeHandler::onInnerMsg: the device list, or the answer made up      *)
(* "for debugging only".                                                   *)
SerialAnswers ==
  /\ alive /\ turn = "serial" /\ serialQ # <<>>
  /\ serialQ' = Tail(serialQ)
  /\ LET q == Head(serialQ) IN
       clientQ' = Append(clientQ, [inner |-> q.inner, kind |-> q.kind,
         fits |-> q.kind # "getmany" /\ (q.kind = "list" => Cardinality(Known) <= MaxListed)])
  /\ UNCHANGED <<loopVars, linkVars, sessVars, portVars, shared, history>>

EndSerial ==
  /\ alive /\ turn = "serial" /\ serialQ = <<>>
  /\ turn' = "client"
  /\ UNCHANGED <<alive, fired, linkVars, sessVars, portVars, queues, shared, history>>

Counted(s) ==
  [i \in Request |-> IF s.req # NoReq /\ s.req.id = i THEN replies[i] + 1 ELSE replies[i]]

(* MUTANT: the answer goes out under the inner number.                     *)
MutSendAnswer(r, s) ==
  /\ answer' = [req |-> s.req, alone |-> s.alone, conn |-> conn, seq |-> r.inner, kind |-> r.kind]
  /\ replies' \in {replies, Counted(s)}

(* An answer is sent under the server's number, to the connection there is. *)
(* What send() returns is not looked at: it may have failed.               *)
SendAnswer(r, s) ==
  /\ answer' = [req |-> s.req, alone |-> s.alone, conn |-> conn, seq |-> s.ext, kind |-> r.kind]
  /\ replies' \in {replies, Counted(s)}

(* MUTANT: the key of a session that is complete is left behind.           *)
MutClientAnswers ==
  /\ alive /\ turn = "client" /\ clientQ # <<>>
  /\ clientQ' = Tail(clientQ)
  /\ LET r == Head(clientQ)
         s == session[r.inner] IN
       /\ IF s # NoSession /\ r.fits /\ link = "up" THEN SendAnswer(r, s) ELSE UNCHANGED <<replies, answer>>
       /\ session' = [session EXCEPT ![r.inner] = NoSession]
  /\ UNCHANGED <<loopVars, linkVars, idGen, keyMap, serialQ, portVars, shared, sent>>

(* FGWClientHandler::onInnerMsg: the session is complete, whether its      *)
(* answer fits and is sent or not.                                         *)
ClientAnswers ==
  /\ alive /\ turn = "client" /\ clientQ # <<>>
  /\ clientQ' = Tail(clientQ)
  /\ LET r == Head(clientQ)
         s == session[r.inner] IN
       /\ IF s # NoSession /\ r.fits /\ link = "up" THEN SendAnswer(r, s) ELSE UNCHANGED <<replies, answer>>
       /\ session' = [session EXCEPT ![r.inner] = NoSession]
       /\ keyMap' = {p \in keyMap : p[1] # r.inner}
  /\ UNCHANGED <<loopVars, linkVars, idGen, serialQ, portVars, shared, sent>>

EndRound ==
  /\ alive /\ turn = "client" /\ clientQ = <<>>
  /\ turn' = "events" /\ fired' = {} /\ answer' = NoAnswer
  /\ UNCHANGED <<alive, linkVars, sessVars, portVars, queues, shared, sent, replies>>

-----------------------------------------------------------------------------
Server == ServerAdmits \/ ServerCloses \/ \E s \in Seqs, k \in Kinds : ServerSends(s, k)

LinkEvent == Connect \/ ReadEof \/ ReadNothing
             \/ \E k \in 1 .. MaxSent + 1, cut \in BOOLEAN : Read(k, cut)

PortEvent == OtherFrame \/ PortEnds \/ \E m \in Mac, a \in Addr : Register(m, a)

StaleEvent == StaleReopens \/ StaleReads

Drain == EndEvents \/ SerialAnswers \/ EndSerial \/ ClientAnswers \/ EndRound

Next == Server \/ LinkEvent \/ Tick \/ PortEvent \/ StaleEvent \/ Drain

Spec == Init /\ [][Next]_vars

(* The loop goes on; data that has come is reported by every poll until it *)
(* has been read; a message is read whole when it has come whole.          *)
FairSpec ==
  /\ Spec
  /\ WF_vars(Tick) /\ WF_vars(Drain)
  /\ SF_vars(\E k \in 1 .. MaxSent + 1 : Read(k, FALSE))

-----------------------------------------------------------------------------
(* Properties                                                              *)

(* The two structures of session_ctrl_ hold the same sessions: the         *)
(* assertions of removeByKey1 and erase do not fail, and a number is       *)
(* refused only while its session lives.                                   *)
SessionMapsAgree ==
  keyMap = {<<i, session[i].ext>> : i \in {j \in Inner : session[j] # NoSession}}

(* No request is left in a queue or in a session when the loop goes back   *)
(* to wait for events: none can meet its timeout, a number used again, or  *)
(* another connection.                                                     *)
SettledBetweenRounds ==
  turn = "events" /\ fired = {} =>
    serialQ = <<>> /\ clientQ = <<>> /\ \A i \in Inner : session[i] = NoSession

(* The answer to a request that was read whole and by itself goes out under *)
(* its number and is of its kind; no answer to a request goes to another   *)
(* connection than it came from.  Of requests read together or in parts    *)
(* the answer can go out under a number none of them had.                  *)
AnswersMatch ==
  answer # NoAnswer =>
    /\ answer.alone => /\ answer.req # NoReq
                       /\ answer.seq = answer.req.seq /\ answer.kind = answer.req.kind
    /\ answer.req # NoReq => answer.conn = answer.req.conn

Carries(m, r) == m.req # NoReq /\ m.req.id = r
UnderWay(r) ==
  \/ \E i \in DOMAIN wire : Carries(wire[i], r)
  \/ \E i \in Inner : session[i] # NoSession /\ Carries(session[i], r)

Phase ==
  [r \in Request |-> IF replies[r] > 0 THEN "answered"
                     ELSE IF UnderWay(r) THEN "pending"
                     ELSE IF r > sent THEN "unsent" ELSE "lost"]

Service == INSTANCE FgwService WITH phase <- Phase

(* Whatever happens to connection, port and messages, a request is         *)
(* answered at most once, and not after it was lost.  An answer under a    *)
(* number that was in none of the messages read counts for no request.     *)
ImplementsService == Service!Spec

(* The answer to a request that arrives alone on a connection whose        *)
(* descriptor is its own, and that fits, is handed to send(), unless the   *)
(* request is read in parts, more messages come or the connection ends     *)
(* before it is read.                                                      *)
AloneIsAnswered ==
  \A r \in Request :
    ( /\ alive /\ ~shared /\ reg = "registered" /\ link = "up"
      /\ Len(wire) = 1 /\ Carries(wire[1], r) /\ wire[1].kind \in {"get", "set"} )
    ~> ( \/ answer # NoAnswer /\ Carries(answer, r)
         \/ link # "up" \/ ~alive \/ Len(wire) > 1 \/ \E i \in DOMAIN wire : wire[i] = Junk )
=============================================================================
