----------------------------- MODULE GatewayProofs -----------------------------
(***************************************************************************)
(* Proofs about the gateway process: its device table, and the requests    *)
(* that pass between its modules in a round of the loop.                   *)
(***************************************************************************)
EXTENDS Gateway, SequenceTheorems, TLAPS

-----------------------------------------------------------------------------
(* The device table                                                        *)

TableInv == TableTypeOK /\ LookupsAgree

LEMMA AddKeepsTable ==
  ASSUME TableInv, NEW m \in Mac, NEW a \in Addr, Add(m, a)
  PROVE  TableInv'
<1> USE ZBDevManagerAssumption
<1>1. CASE Moved(m, a)
  BY <1>1 DEF Moved, Known, TableInv, TableTypeOK, LookupsAgree
<1>2. CASE Entered(m, a)
  BY <1>2 DEF Entered, Known, TableInv, TableTypeOK, LookupsAgree
<1>3. CASE Refused(m, a) \/ Updated(m, a)
  BY <1>3 DEF Refused, Updated, tableVars, TableInv, TableTypeOK, LookupsAgree
<1> QED
  BY <1>1, <1>2, <1>3 DEF Add

(* Only a registration touches the table.                                  *)
LEMMA TableSteps ==
  ASSUME [Next]_vars
  PROVE  UNCHANGED tableVars \/ \E m \in Mac, a \in Addr : Add(m, a)
<1>1. CASE Server
  BY <1>1 DEF Server, ServerAdmits, ServerSends, ServerCloses, portVars
<1>2. CASE LinkEvent
  BY <1>2 DEF LinkEvent, Connect, ReadEof, ReadNothing, Read, portVars
<1>3. CASE Tick
  BY <1>3 DEF Tick, portVars
<1>4. CASE PortEvent
  BY <1>4 DEF PortEvent, OtherFrame, PortEnds, Register, portVars
<1>5. CASE StaleEvent
  BY <1>5 DEF StaleEvent, StaleReopens, StaleReads
<1>6. CASE Drain
  BY <1>6 DEF Drain, EndEvents, SerialAnswers, EndSerial, ClientAnswers, EndRound, portVars
<1> QED
  BY <1>1, <1>2, <1>3, <1>4, <1>5, <1>6 DEF Next, vars, portVars

(* Whatever devices register, move or ask for the address of another, the  *)
(* two maps of ZZBDevManager find the same objects.                        *)
THEOREM GatewayLookupsAgree == Spec => []LookupsAgree
<1>1. Init => TableInv
  BY ZBDevManagerAssumption DEF Init, TableInit, TableInv, TableTypeOK, LookupsAgree
<1>2. TableInv /\ [Next]_vars => TableInv'
  BY TableSteps, AddKeepsTable DEF tableVars, TableInv, TableTypeOK, LookupsAgree
<1>3. TableInv => LookupsAgree
  BY DEF TableInv
<1> QED
  BY <1>1, <1>2, <1>3, PTL DEF Spec

-----------------------------------------------------------------------------
(* Types                                                                   *)

LEMMA NextIdType == ASSUME TypeOK PROVE NextId \in Inner /\ NextId + 1 \in 1 .. MaxInner + 1
BY GatewayAssumption DEF TypeOK, NextId, Inner

LEMMA ReqType ==
  ASSUME NEW r \in 1 .. MaxSent, NEW c \in 1 .. MaxConn, NEW s \in Seqs, NEW k \in Kinds
  PROVE  LET q == [id |-> r, conn |-> c, seq |-> s, kind |-> k] IN
         q \in Req /\ q # NoReq /\ [req |-> q, seq |-> s, kind |-> k] \in Msg
<1> DEFINE q == [id |-> r, conn |-> c, seq |-> s, kind |-> k]
<1>1. q \in Req
  BY DEF Req, Request
<1> HIDE DEF q
<1>2. k \in Forwarded \cup {"other", "login", "junk"}
  BY GatewayAssumption DEF Forwarded
<1>3. [req |-> q, seq |-> s, kind |-> k] \in Msg
  BY <1>1, <1>2 DEF Msg, Numbers
<1> QED
  BY <1>1, <1>3, NullAssumption DEF q

LEMMA JunkType == Junk \in Msg /\ LoginRsp \in Msg
BY DEF Junk, LoginRsp, Msg, Numbers

(* Decoding makes one message of those that were read, with a request of   *)
(* theirs if any.                                                          *)
LEMMA DecodedType ==
  ASSUME NEW ms \in Seq(Msg), ms # <<>>, NEW cut \in BOOLEAN, NEW m \in Decoded(ms, cut)
  PROVE  m \in Msg /\ (m.req # NoReq => \E i \in DOMAIN ms : m.req = ms[i].req)
<1>1. \A i \in DOMAIN ms : ms[i] \in Msg
  BY ElementOfSeq
<1>2. CASE m = Junk
  BY <1>2, JunkType DEF Junk
<1>3. CASE m # Junk /\ Len(ms) = 1 /\ ms[1] # Junk
  <2>1. 1 \in DOMAIN ms /\ ms[1] \in Msg
    BY <1>1, <1>3
  <2>2. m = ms[1] \/ m = [ms[1] EXCEPT !.kind = "other"]
    BY <1>3 DEF Decoded
  <2>3. m \in Msg /\ m.req = ms[1].req
    BY <2>1, <2>2 DEF Msg
  <2> QED
    BY <2>1, <2>3
<1>4. CASE m # Junk /\ ~(Len(ms) = 1 /\ ms[1] # Junk)
  <2>1. /\ m \in [req : {ms[i].req : i \in DOMAIN ms} \cup {NoReq}, seq : Numbers,
                  kind : Forwarded \cup {"other", "login"}]
    BY <1>4 DEF Decoded, Mixed
  <2>2. \A i \in DOMAIN ms : ms[i].req \in Req \cup {NoReq}
    BY <1>1 DEF Msg
  <2> QED
    BY <2>1, <2>2 DEF Msg
<1> QED
  BY <1>2, <1>3, <1>4

(* What is read whole and by itself is decoded as it is.                   *)
LEMMA DecodedWhole ==
  ASSUME TypeOK, NEW k \in 1 .. Len(wire), NEW cut \in BOOLEAN, Whole(k, cut),
         NEW m \in Decoded(SubSeq(wire, 1, k), cut)
  PROVE  1 \in DOMAIN wire /\ m = wire[1]
<1> DEFINE ms == SubSeq(wire, 1, k)
<1>1. wire \in Seq(Msg) /\ Len(wire) \in Nat /\ k = 1 /\ ~cut /\ wire[1] # Junk
  BY DEF TypeOK, Whole
<1>2. Len(ms) = 1 /\ ms[1] = wire[1] /\ 1 \in DOMAIN wire
  BY <1>1
<1>3. m \in Decoded(ms, cut)
  OBVIOUS
<1> HIDE DEF ms
<1> QED
  BY <1>1, <1>2, <1>3 DEF Decoded

LEMMA WholeType == ASSUME NEW k, NEW cut PROVE Whole(k, cut) \in BOOLEAN
BY DEF Whole

LEMMA UnreadType ==
  ASSUME TypeOK, NEW k \in 1 .. Len(wire), NEW cut \in BOOLEAN
  PROVE  Unread(k, cut) \in Seq(Msg) /\ SubSeq(wire, 1, k) \in Seq(Msg) /\ SubSeq(wire, 1, k) # <<>>
         /\ Len(SubSeq(wire, 1, k)) = k
<1>1. wire \in Seq(Msg) /\ Len(wire) \in Nat
  BY DEF TypeOK
<1>2. SubSeq(wire, k + 1, Len(wire)) \in Seq(Msg) /\ SubSeq(wire, 1, k) \in Seq(Msg)
  BY <1>1
<1>3. (IF cut THEN <<Junk>> ELSE <<>>) \in Seq(Msg)
  BY JunkType
<1>4. Len(SubSeq(wire, 1, k)) = k
  BY <1>1
<1> QED
  BY <1>2, <1>3, <1>4 DEF Unread

LEMMA HandleType ==
  ASSUME TypeOK, NEW m \in Msg, NEW alone \in BOOLEAN, Handle(m, alone)
  PROVE  /\ reg' \in {"wait", "registered"}
         /\ idGen' \in 1 .. MaxInner + 1
         /\ session' \in [Inner -> Session \cup {NoSession}]
         /\ keyMap' \subseteq Inner \X Numbers
         /\ serialQ' \in Seq(Ask)
<1>1. CASE reg = "wait"
  BY <1>1 DEF Handle, sessVars, TypeOK
<1>2. CASE reg # "wait" /\ (m.kind = "junk" \/ ExtTaken(m.seq))
  BY <1>2 DEF Handle, HandleRequest, sessVars, TypeOK
<1>3. CASE reg # "wait" /\ ~(m.kind = "junk" \/ ExtTaken(m.seq))
  <2>1. reg' = reg /\ idGen' = NextId + 1
    BY <1>3 DEF Handle, HandleRequest
  <2>2. CASE m.kind \notin Forwarded
    BY <1>3, <2>1, <2>2, NextIdType DEF Handle, HandleRequest, TypeOK
  <2>3. CASE m.kind \in Forwarded
    <3> DEFINE q == [inner |-> NextId, kind |-> m.kind]
               s == [req |-> m.req, alone |-> alone, ext |-> m.seq, age |-> 0]
    <3> HIDE DEF q, s
    <3>1. q \in Ask /\ serialQ' = Append(serialQ, q) /\ AddSession(NextId, s)
      BY <1>3, <2>3, NextIdType DEF Handle, HandleRequest, Ask, q, s
    <3>2. s \in Session
      BY GatewayAssumption DEF Session, Msg, s
    <3>3. /\ session' \in [Inner -> Session \cup {NoSession}]
          /\ keyMap' \subseteq Inner \X Numbers
      <4>1. s.ext = m.seq /\ m.seq \in Numbers
        BY DEF s, Msg
      <4> QED
        BY <3>1, <3>2, <4>1, NextIdType DEF AddSession, TypeOK
    <3>4. serialQ' \in Seq(Ask)
      BY <3>1 DEF TypeOK
    <3> QED
      BY <2>1, <3>3, <3>4, NextIdType DEF TypeOK
  <2> QED
    BY <2>2, <2>3
<1> QED
  BY <1>1, <1>2, <1>3

LEMMA HeadTailType ==
  ASSUME NEW S, NEW q \in Seq(S), q # <<>>
  PROVE  Head(q) \in S /\ Tail(q) \in Seq(S)
OBVIOUS

(* A connection that is up has a number.                                   *)
TypeInv == TypeOK /\ (link # "down" => conn > 0)

LEMMA ServerType == ASSUME TypeInv, Server PROVE TypeInv'
<1>1. CASE ServerAdmits
  <2>1. wire' \in Seq(Msg)
    BY <1>1, JunkType DEF ServerAdmits, TypeInv, TypeOK
  <2> QED
    BY <1>1, <2>1 DEF ServerAdmits, loopVars, sessVars, portVars, tableVars, queues, history,
                      TypeInv, TypeOK, TableTypeOK
<1>2. ASSUME NEW s \in Seqs, NEW k \in Kinds, ServerSends(s, k) PROVE TypeInv'
  <2>1. sent + 1 \in 1 .. MaxSent /\ conn \in 1 .. MaxConn
    BY <1>2, GatewayAssumption DEF ServerSends, TypeInv, TypeOK
  <2> DEFINE m == [req |-> [id |-> sent + 1, conn |-> conn, seq |-> s, kind |-> k], seq |-> s, kind |-> k]
  <2>2. m \in Msg
    BY <2>1, ReqType
  <2>3. wire' = Append(wire, m)
    BY <1>2 DEF ServerSends
  <2> HIDE DEF m
  <2>4. wire' \in Seq(Msg)
    BY <2>2, <2>3 DEF TypeInv, TypeOK
  <2>5. sent' \in 0 .. MaxSent
    BY <1>2, <2>1 DEF ServerSends
  <2> QED
    BY <1>2, <2>4, <2>5 DEF ServerSends, loopVars, sessVars, portVars, tableVars, queues,
                      TypeInv, TypeOK, TableTypeOK
<1>3. CASE ServerCloses
  <2>1. wire' \in Seq(Msg)
    <3>1. wire \in Seq(Msg) /\ <<>> \in Seq(Msg)
      BY DEF TypeInv, TypeOK
    <3>2. wire' \in {wire, <<>>}
      BY <1>3 DEF ServerCloses
    <3> QED
      BY <3>1, <3>2
  <2> QED
    BY <1>3, <2>1 DEF ServerCloses, loopVars, sessVars, portVars, tableVars, queues, history,
                      TypeInv, TypeOK, TableTypeOK
<1> QED
  BY <1>1, <1>2, <1>3 DEF Server

LEMMA FiresType ==
  ASSUME TypeOK, NEW e \in {"link", "port", "tick", "stale"}, Fires(e)
  PROVE  fired' \subseteq {"link", "port", "tick", "stale"} /\ turn' \in {"events", "serial", "client"}
BY DEF Fires, TypeOK

LEMMA LinkEventType == ASSUME TypeInv, LinkEvent PROVE TypeInv'
<1> USE DEF sessVars, portVars, tableVars, queues, history
<1>1. CASE Connect
  <2>1. conn + 1 \in 0 .. MaxConn /\ conn + 1 > 0
    BY <1>1, GatewayAssumption DEF Connect, TypeInv, TypeOK
  <2>2. <<>> \in Seq(Msg)
    OBVIOUS
  <2> QED
    BY <1>1, <2>1, <2>2, FiresType DEF Connect, TypeInv, TypeOK, TableTypeOK
<1>2. ASSUME NEW k \in 1 .. MaxSent + 1, NEW cut \in BOOLEAN, Read(k, cut) PROVE TypeInv'
  <2>0. k \in 1 .. Len(wire)
    BY <1>2 DEF Read
  <2>1. PICK m \in Decoded(SubSeq(wire, 1, k), cut) : Handle(m, Whole(k, cut))
    BY <1>2 DEF Read
  <2>2. m \in Msg
    BY <2>0, UnreadType, DecodedType DEF TypeInv
  <2>3. /\ reg' \in {"wait", "registered"}
        /\ idGen' \in 1 .. MaxInner + 1
        /\ session' \in [Inner -> Session \cup {NoSession}]
        /\ keyMap' \subseteq Inner \X Numbers
        /\ serialQ' \in Seq(Ask)
    BY <2>1, <2>2, WholeType, HandleType DEF TypeInv
  <2>4. wire' \in Seq(Msg)
    BY <1>2, <2>0, UnreadType DEF Read, TypeInv
  <2>5. Fires("link")
    BY <1>2 DEF Read, ClientReads
  <2> QED
    BY <1>2, <2>3, <2>4, <2>5, FiresType DEF Read, TypeInv, TypeOK, TableTypeOK
<1>3. CASE ReadEof
  BY <1>3, FiresType DEF ReadEof, ClientReads, TypeInv, TypeOK, TableTypeOK
<1>4. CASE ReadNothing
  BY <1>4, FiresType DEF ReadNothing, ClientReads, TypeInv, TypeOK, TableTypeOK
<1> QED
  BY <1>1, <1>2, <1>3, <1>4 DEF LinkEvent

LEMMA TickType == ASSUME TypeInv, Tick PROVE TypeInv'
<1> DEFINE live == {i \in Inner : session[i] # NoSession /\ session[i].age < SessionTicks}
<1>1. ASSUME NEW i \in live PROVE [session[i] EXCEPT !.age = @ + 1] \in Session
  <2>1. session[i] \in Session
    BY DEF TypeInv, TypeOK
  <2>2. session[i].age + 1 \in 0 .. SessionTicks
    BY <2>1, GatewayAssumption DEF Session
  <2> QED
    BY <2>1, <2>2 DEF Session
<1>2. session' \in [Inner -> Session \cup {NoSession}]
  BY <1>1 DEF Tick
<1>3. keyMap' \subseteq Inner \X Numbers
  BY DEF Tick, TypeInv, TypeOK
<1> QED
  BY <1>2, <1>3, FiresType DEF Tick, linkVars, portVars, tableVars, queues, history, TypeInv, TypeOK, TableTypeOK

LEMMA PortEventType == ASSUME TypeInv, PortEvent PROVE TypeInv'
<1> USE DEF linkVars, sessVars, portVars, queues, history
<1>1. ASSUME NEW m \in Mac, NEW a \in Addr, Register(m, a) PROVE TypeInv'
  <2>1. TableTypeOK'
    <3>1. CASE Add(m, a)
      BY <3>1 DEF Add, Moved, Entered, Refused, Updated, Known, tableVars, TypeInv, TypeOK, TableTypeOK
    <3> QED
      BY <1>1, <3>1 DEF Register, tableVars, TypeInv, TypeOK, TableTypeOK
  <2> QED
    BY <1>1, <2>1, FiresType DEF Register, TypeInv, TypeOK
<1>2. CASE OtherFrame
  BY <1>2, FiresType DEF OtherFrame, tableVars, TypeInv, TypeOK, TableTypeOK
<1>3. CASE PortEnds
  BY <1>3, FiresType DEF PortEnds, tableVars, TypeInv, TypeOK, TableTypeOK
<1> QED
  BY <1>1, <1>2, <1>3 DEF PortEvent

LEMMA StaleEventType == ASSUME TypeInv, StaleEvent PROVE TypeInv'
<1> USE DEF linkVars, sessVars, tableVars, queues, history
<1>1. CASE StaleReopens
  BY <1>1, FiresType DEF StaleReopens, TypeInv, TypeOK, TableTypeOK
<1>2. CASE StaleReads
  <2>1. <<>> \in Seq(Msg)
    OBVIOUS
  <2> QED
    BY <1>2, <2>1, FiresType DEF StaleReads, TypeInv, TypeOK, TableTypeOK
<1> QED
  BY <1>1, <1>2 DEF StaleEvent

LEMMA DrainType == ASSUME TypeInv, Drain PROVE TypeInv'
<1> USE DEF loopVars, linkVars, sessVars, portVars, tableVars, queues, history
<1>1. CASE EndEvents
  BY <1>1 DEF EndEvents, TypeInv, TypeOK, TableTypeOK
<1>2. CASE SerialAnswers
  <2> DEFINE fits == Head(serialQ).kind # "getmany"
                     /\ (Head(serialQ).kind = "list" => Cardinality(Known) <= MaxListed)
             r == [inner |-> Head(serialQ).inner, kind |-> Head(serialQ).kind, fits |-> fits]
  <2>1. Head(serialQ) \in Ask /\ serialQ' \in Seq(Ask)
    BY <1>2, HeadTailType DEF SerialAnswers, TypeInv, TypeOK
  <2>2. fits \in BOOLEAN
    OBVIOUS
  <2> HIDE DEF fits
  <2>3. r \in Reply
    BY <2>1, <2>2 DEF Ask, Reply
  <2>4. clientQ' = Append(clientQ, r)
    BY <1>2 DEF SerialAnswers, fits
  <2> HIDE DEF r
  <2>5. clientQ' \in Seq(Reply)
    BY <2>3, <2>4 DEF TypeInv, TypeOK
  <2> QED
    BY <1>2, <2>1, <2>5 DEF SerialAnswers, TypeInv, TypeOK, TableTypeOK
<1>3. CASE EndSerial
  BY <1>3 DEF EndSerial, TypeInv, TypeOK, TableTypeOK
<1>4. CASE ClientAnswers
  <2> DEFINE r == Head(clientQ)
             s == session[r.inner]
  <2>1. r \in Reply /\ clientQ' \in Seq(Reply)
    BY <1>4, HeadTailType DEF ClientAnswers, TypeInv, TypeOK
  <2>2. s \in Session \cup {NoSession}
    BY <2>1 DEF TypeInv, TypeOK, Reply
  <2>3. replies' \in [Request -> Nat] /\ answer' \in Sending \cup {NoAnswer}
    <3>1. CASE s # NoSession /\ SendAnswer(r, s)
      <4>1. replies' \in [Request -> Nat]
        BY <3>1 DEF SendAnswer, Counted, TypeInv, TypeOK
      <4>2. answer' \in Sending
        BY <2>1, <2>2, <3>1 DEF SendAnswer, Sending, Session, Reply, TypeInv, TypeOK
      <4> QED
        BY <4>1, <4>2
    <3>2. CASE UNCHANGED <<replies, answer>>
      BY <3>2 DEF TypeInv, TypeOK
    <3> QED
      BY <1>4, <3>1, <3>2 DEF ClientAnswers
  <2>4. /\ session' \in [Inner -> Session \cup {NoSession}]
        /\ keyMap' \subseteq Inner \X Numbers
    BY <1>4 DEF ClientAnswers, TypeInv, TypeOK
  <2> QED
    BY <1>4, <2>1, <2>3, <2>4 DEF ClientAnswers, TypeInv, TypeOK, TableTypeOK
<1>5. CASE EndRound
  BY <1>5 DEF EndRound, TypeInv, TypeOK, TableTypeOK
<1> QED
  BY <1>1, <1>2, <1>3, <1>4, <1>5 DEF Drain

LEMMA TypeStep == ASSUME TypeInv, [Next]_vars PROVE TypeInv'
<1>1. CASE Next
  BY <1>1, ServerType, LinkEventType, TickType, PortEventType, StaleEventType, DrainType DEF Next
<1>2. CASE UNCHANGED vars
  BY <1>2 DEF vars, loopVars, linkVars, sessVars, portVars, tableVars, queues, history,
              TypeInv, TypeOK, TableTypeOK
<1> QED
  BY <1>1, <1>2

LEMMA TypeInit == ASSUME Init PROVE TypeInv
<1>1. 0 \in 0 .. MaxSent /\ 0 \in 0 .. MaxConn /\ 1 \in 1 .. MaxInner + 1
  BY GatewayAssumption
<1>2. <<>> \in Seq(Msg) /\ <<>> \in Seq(Ask) /\ <<>> \in Seq(Reply)
  OBVIOUS
<1>3. session \in [Inner -> Session \cup {NoSession}] /\ replies \in [Request -> Nat]
      /\ TableTypeOK
  BY DEF Init, TableInit, TableTypeOK
<1> QED
  BY <1>1, <1>2, <1>3 DEF Init, TypeInv, TypeOK

LEMMA TypeInvariant == Spec => []TypeInv
BY TypeInit, TypeStep, PTL DEF Spec

(* Every variable of the gateway process keeps its type, through every     *)
(* wrap of id_generator_.                                                  *)
THEOREM GatewayTypeCorrect == Spec => []TypeOK
<1>1. TypeInv => TypeOK
  BY DEF TypeInv
<1> QED
  BY <1>1, TypeInvariant, PTL

-----------------------------------------------------------------------------
(* The round of the loop                                                   *)

OnlySession(i) == \A j \in Inner : session[j] # NoSession <=> j = i

(* A round settles what it takes in: the loop waits with nothing under     *)
(* way, takes in one request at most, and serves it in the modules' order. *)
Idle == serialQ = <<>> /\ clientQ = <<>> /\ \A j \in Inner : session[j] = NoSession
Asked == clientQ = <<>> /\ \E q \in Ask : serialQ = <<q>> /\ OnlySession(q.inner)
Replied == serialQ = <<>> /\ \E r \in Reply : clientQ = <<r>> /\ OnlySession(r.inner)

RoundShape ==
  /\ turn = "events" => Idle \/ (Asked /\ "link" \in fired)
  /\ turn = "serial" => Idle \/ Asked \/ Replied
  /\ turn = "client" => Idle \/ Replied

(* The routine meets a session once at most, so that none times out.       *)
Young == \A i \in Inner : session[i] # NoSession => session[i].age = 0 \/ "tick" \in fired

LoopInv == SessionMapsAgree /\ RoundShape /\ Young

(* What touches neither queues nor sessions.                               *)
Aside == UNCHANGED <<turn, session, keyMap, serialQ, clientQ>> /\ fired \subseteq fired'

LEMMA AsideKeepsLoop == ASSUME LoopInv, Aside PROVE LoopInv'
BY DEF LoopInv, Aside, SessionMapsAgree, RoundShape, Young, Idle, Asked, Replied, OnlySession

LEMMA IdleHasNoKeys == ASSUME LoopInv, Idle PROVE keyMap = {}
BY DEF LoopInv, SessionMapsAgree, Idle

(* When the loop takes in a message, it is the first of its round.         *)
LEMMA ReadsWhenIdle ==
  ASSUME LoopInv, Fires("link")
  PROVE  Idle /\ keyMap = {} /\ "tick" \notin fired
<1>1. turn = "events" /\ "link" \notin fired /\ "tick" \notin fired
  BY DEF Fires
<1> QED
  BY <1>1, IdleHasNoKeys DEF LoopInv, RoundShape

(* What HandleRequest does in an idle round.                               *)
LEMMA HandleWhenIdle ==
  ASSUME TypeInv, LoopInv, Idle, keyMap = {}, NEW m \in Msg, NEW alone \in BOOLEAN, Handle(m, alone)
  PROVE  \/ UNCHANGED <<session, keyMap, serialQ>>
         \/ \E q \in Ask :
              /\ q.kind = m.kind /\ serialQ' = <<q>>
              /\ session' = [session EXCEPT ![q.inner] = [req |-> m.req, alone |-> alone, ext |-> m.seq, age |-> 0]]
              /\ keyMap' = {<<q.inner, m.seq>>}
<1>1. CASE reg = "wait" \/ m.kind = "junk" \/ ExtTaken(m.seq) \/ m.kind \notin Forwarded
  BY <1>1 DEF Handle, HandleRequest, sessVars
<1>2. CASE ~(reg = "wait" \/ m.kind = "junk" \/ ExtTaken(m.seq) \/ m.kind \notin Forwarded)
  <2> DEFINE q == [inner |-> NextId, kind |-> m.kind]
             s == [req |-> m.req, alone |-> alone, ext |-> m.seq, age |-> 0]
  <2>1. serialQ' = Append(serialQ, q) /\ AddSession(NextId, s)
    BY <1>2 DEF Handle, HandleRequest
  <2>2. q \in Ask /\ q.inner = NextId /\ q.kind = m.kind /\ s.ext = m.seq
    BY <1>2, NextIdType DEF Ask, TypeInv
  <2> HIDE DEF q, s
  <2>3. serialQ' = <<q>>
    BY <2>1 DEF Idle
  <2>4. session' = [session EXCEPT ![NextId] = s] /\ keyMap' = {<<NextId, s.ext>>}
    BY <2>1 DEF AddSession
  <2> QED
    BY <2>2, <2>3, <2>4 DEF s
<1> QED
  BY <1>1, <1>2

LEMMA ReadKeepsLoop ==
  ASSUME TypeInv, LoopInv, NEW k \in 1 .. MaxSent + 1, NEW cut \in BOOLEAN, Read(k, cut)
  PROVE  LoopInv'
<1>1. Fires("link") /\ clientQ' = clientQ /\ k \in 1 .. Len(wire)
  BY DEF Read, ClientReads
<1>2. Idle /\ keyMap = {} /\ "tick" \notin fired
  BY <1>1, ReadsWhenIdle
<1>3. PICK m \in Decoded(SubSeq(wire, 1, k), cut) : Handle(m, Whole(k, cut))
  BY DEF Read
<1>4. m \in Msg
  BY <1>1, UnreadType, DecodedType DEF TypeInv
<1>5. turn' = turn /\ turn = "events" /\ fired' = fired \cup {"link"}
  BY <1>1 DEF Fires
<1>6. CASE UNCHANGED <<session, keyMap, serialQ>>
  BY <1>1, <1>5, <1>6, AsideKeepsLoop DEF Aside
<1>7. ASSUME NEW q \in Ask,
             serialQ' = <<q>>,
             session' = [session EXCEPT ![q.inner] = [req |-> m.req, alone |-> Whole(k, cut), ext |-> m.seq, age |-> 0]],
             keyMap' = {<<q.inner, m.seq>>}
      PROVE  LoopInv'
  <2> DEFINE s == [req |-> m.req, alone |-> Whole(k, cut), ext |-> m.seq, age |-> 0]
  <2>1. q.inner \in Inner /\ session \in [Inner -> Session \cup {NoSession}]
    BY DEF Ask, TypeInv, TypeOK
  <2>2. s \in Session /\ s.ext = m.seq /\ s.age = 0
    BY <1>4, WholeType, GatewayAssumption DEF Session, Msg
  <2>3. s # NoSession
    BY <2>2, NullAssumption
  <2> HIDE DEF s
  <2>4. \A j \in Inner : session'[j] = IF j = q.inner THEN s ELSE NoSession
    BY <1>2, <1>7, <2>1 DEF Idle, s
  <2>5. OnlySession(q.inner)'
    BY <2>3, <2>4 DEF OnlySession
  <2>6. RoundShape'
    BY <1>1, <1>2, <1>5, <1>7, <2>5 DEF RoundShape, Asked, Idle
  <2>7. Young'
    BY <2>2, <2>4 DEF Young
  <2>8. SessionMapsAgree'
    BY <1>7, <2>1, <2>2, <2>3, <2>4 DEF SessionMapsAgree
  <2> QED
    BY <2>6, <2>7, <2>8 DEF LoopInv
<1>8. \/ UNCHANGED <<session, keyMap, serialQ>>
      \/ \E q \in Ask :
           /\ serialQ' = <<q>>
           /\ session' = [session EXCEPT ![q.inner] = [req |-> m.req, alone |-> Whole(k, cut), ext |-> m.seq, age |-> 0]]
           /\ keyMap' = {<<q.inner, m.seq>>}
  BY <1>2, <1>3, <1>4, WholeType, HandleWhenIdle
<1> QED
  BY <1>6, <1>7, <1>8

LEMMA TickKeepsLoop == ASSUME TypeInv, LoopInv, Tick PROVE LoopInv'
<1>1. "tick" \notin fired /\ fired' = fired \cup {"tick"} /\ turn' = turn
  BY DEF Tick, Fires
<1> DEFINE live == {i \in Inner : session[i] # NoSession /\ session[i].age < SessionTicks}
<1>2. \A i \in Inner : session[i] # NoSession => session[i] \in Session /\ i \in live
  BY <1>1, GatewayAssumption DEF LoopInv, Young, TypeInv, TypeOK
<1>3. ASSUME NEW i \in Inner
      PROVE  /\ session'[i] # NoSession <=> session[i] # NoSession
             /\ session[i] # NoSession => session'[i].ext = session[i].ext
  <2>1. CASE session[i] = NoSession
    BY <2>1 DEF Tick
  <2>2. CASE session[i] # NoSession
    <3>1. session'[i] = [session[i] EXCEPT !.age = session[i].age + 1]
      BY <1>2, <2>2 DEF Tick
    <3>2. session[i] \in Session /\ session[i].age < SessionTicks
      BY <1>2, <2>2
    <3>3. [session[i] EXCEPT !.age = session[i].age + 1] \in Session
      BY <3>2, GatewayAssumption DEF Session
    <3> QED
      BY <2>2, <3>1, <3>2, <3>3, NullAssumption DEF Session
  <2> QED
    BY <2>1, <2>2
<1>4. keyMap' = keyMap
  <2>1. \A p \in keyMap : p[1] \in live
    BY <1>2 DEF LoopInv, SessionMapsAgree
  <2> QED
    BY <2>1 DEF Tick
<1>5. serialQ' = serialQ /\ clientQ' = clientQ
  BY DEF Tick, queues
<1>6. SessionMapsAgree'
  BY <1>3, <1>4 DEF LoopInv, SessionMapsAgree
<1>7. RoundShape'
  BY <1>1, <1>3, <1>5 DEF LoopInv, RoundShape, Idle, Asked, Replied, OnlySession
<1>8. Young'
  BY <1>1 DEF Young
<1> QED
  BY <1>6, <1>7, <1>8 DEF LoopInv

LEMMA SerialAnswersWhenAsked ==
  ASSUME LoopInv, SerialAnswers
  PROVE  \E q \in Ask, r \in Reply :
           /\ serialQ = <<q>> /\ serialQ' = <<>> /\ clientQ' = <<r>>
           /\ r.inner = q.inner /\ r.kind = q.kind /\ OnlySession(q.inner)
<1>1. PICK q \in Ask : serialQ = <<q>> /\ clientQ = <<>> /\ OnlySession(q.inner)
  BY DEF SerialAnswers, LoopInv, RoundShape, Idle, Asked, Replied
<1> DEFINE fits == q.kind # "getmany" /\ (q.kind = "list" => Cardinality(Known) <= MaxListed)
           r == [inner |-> q.inner, kind |-> q.kind, fits |-> fits]
<1>2. Head(serialQ) = q /\ Tail(serialQ) = <<>>
  BY <1>1
<1>3. serialQ' = <<>> /\ clientQ' = Append(clientQ, r)
  BY <1>2 DEF SerialAnswers
<1>4. fits \in BOOLEAN
  OBVIOUS
<1> HIDE DEF fits
<1>5. r \in Reply /\ r.inner = q.inner /\ r.kind = q.kind
  BY <1>4 DEF Ask, Reply
<1> HIDE DEF r
<1>6. clientQ' = <<r>>
  BY <1>1, <1>3
<1> QED
  BY <1>1, <1>3, <1>5, <1>6

LEMMA ClientAnswersWhenReplied ==
  ASSUME TypeInv, LoopInv, ClientAnswers
  PROVE  \E r \in Reply :
           /\ clientQ = <<r>> /\ Head(clientQ) = r /\ serialQ' = <<>> /\ clientQ' = <<>>
           /\ OnlySession(r.inner) /\ session[r.inner] \in Session
           /\ \A j \in Inner : session'[j] = NoSession
<1>1. PICK r \in Reply : serialQ = <<>> /\ clientQ = <<r>> /\ OnlySession(r.inner)
  BY DEF ClientAnswers, LoopInv, RoundShape, Idle, Replied
<1>2. Head(clientQ) = r /\ Tail(clientQ) = <<>> /\ r.inner \in Inner
  BY <1>1 DEF Reply
<1>3. session[r.inner] \in Session
  BY <1>1, <1>2 DEF OnlySession, TypeInv, TypeOK
<1>4. \A j \in Inner : session'[j] = NoSession
  BY <1>1, <1>2 DEF ClientAnswers, OnlySession, TypeInv, TypeOK
<1>5. serialQ' = <<>> /\ clientQ' = <<>>
  BY <1>1, <1>2 DEF ClientAnswers
<1> QED
  BY <1>1, <1>2, <1>3, <1>4, <1>5

LEMMA DrainKeepsLoop == ASSUME TypeInv, LoopInv, Drain PROVE LoopInv'
<1>1. CASE EndEvents
  BY <1>1 DEF EndEvents, sessVars, queues, LoopInv, SessionMapsAgree, RoundShape, Young, Idle, Asked, OnlySession
<1>2. CASE SerialAnswers
  <2>1. PICK q \in Ask, r \in Reply :
           /\ serialQ = <<q>> /\ serialQ' = <<>> /\ clientQ' = <<r>>
           /\ r.inner = q.inner /\ r.kind = q.kind /\ OnlySession(q.inner)
    BY <1>2, SerialAnswersWhenAsked
  <2>2. UNCHANGED <<session, keyMap, fired>> /\ turn = "serial" /\ turn' = "serial"
    BY <1>2 DEF SerialAnswers, loopVars, sessVars
  <2>3. RoundShape'
    BY <2>1, <2>2 DEF RoundShape, Replied, OnlySession
  <2> QED
    BY <2>2, <2>3 DEF LoopInv, SessionMapsAgree, Young
<1>3. CASE EndSerial
  BY <1>3 DEF EndSerial, sessVars, queues, LoopInv, SessionMapsAgree, RoundShape, Young, Idle, Asked, Replied, OnlySession
<1>4. CASE ClientAnswers
  <2>1. PICK r \in Reply :
           /\ clientQ = <<r>> /\ Head(clientQ) = r /\ serialQ' = <<>> /\ clientQ' = <<>>
           /\ OnlySession(r.inner) /\ session[r.inner] \in Session
           /\ \A j \in Inner : session'[j] = NoSession
    BY <1>4, ClientAnswersWhenReplied
  <2>2. keyMap' = {}
    BY <1>4, <2>1 DEF ClientAnswers, LoopInv, SessionMapsAgree, OnlySession
  <2>3. turn' = "client"
    BY <1>4 DEF ClientAnswers, loopVars
  <2>4. RoundShape'
    BY <2>1, <2>3 DEF RoundShape, Idle
  <2> QED
    BY <2>1, <2>2, <2>4 DEF LoopInv, SessionMapsAgree, Young
<1>5. CASE EndRound
  <2>1. Idle /\ turn' = "events" /\ UNCHANGED <<session, keyMap, serialQ, clientQ>>
    BY <1>5 DEF EndRound, sessVars, queues, LoopInv, RoundShape, Replied
  <2> QED
    BY <2>1 DEF LoopInv, SessionMapsAgree, RoundShape, Young, Idle
<1> QED
  BY <1>1, <1>2, <1>3, <1>4, <1>5 DEF Drain

(* Everything else leaves queues and sessions alone.                       *)
LEMMA OtherStepsAside ==
  ASSUME Server \/ Connect \/ ReadEof \/ ReadNothing \/ PortEvent \/ StaleEvent \/ UNCHANGED vars
  PROVE  Aside
<1> USE DEF Aside, loopVars, sessVars, queues
<1>1. CASE Server
  BY <1>1 DEF Server, ServerAdmits, ServerSends, ServerCloses
<1>2. CASE Connect \/ ReadEof \/ ReadNothing
  BY <1>2 DEF Connect, ReadEof, ReadNothing, ClientReads, Fires
<1>3. CASE PortEvent
  BY <1>3 DEF PortEvent, OtherFrame, PortEnds, Register, Fires
<1>4. CASE StaleEvent
  BY <1>4 DEF StaleEvent, StaleReopens, StaleReads, Fires
<1>5. CASE UNCHANGED vars
  BY <1>5 DEF vars
<1> QED
  BY <1>1, <1>2, <1>3, <1>4, <1>5

LEMMA LoopStep == ASSUME TypeInv, LoopInv, [Next]_vars PROVE LoopInv'
<1>1. CASE Server \/ Connect \/ ReadEof \/ ReadNothing \/ PortEvent \/ StaleEvent \/ UNCHANGED vars
  BY <1>1, OtherStepsAside, AsideKeepsLoop
<1>2. CASE \E k \in 1 .. MaxSent + 1, cut \in BOOLEAN : Read(k, cut)
  BY <1>2, ReadKeepsLoop
<1>3. CASE Tick \/ Drain
  BY <1>3, TickKeepsLoop, DrainKeepsLoop
<1> QED
  BY <1>1, <1>2, <1>3 DEF Next, LinkEvent

LEMMA LoopInit == ASSUME Init PROVE LoopInv
BY DEF Init, LoopInv, SessionMapsAgree, RoundShape, Young, Idle

LEMMA LoopInvariant == Spec => [](TypeInv /\ LoopInv)
BY TypeInit, TypeStep, LoopInit, LoopStep, PTL DEF Spec

(* session_map_ and key_map_ hold the same sessions at every moment, so    *)
(* that no assertion of ZSessionCtrl2Key fails and a number is free again  *)
(* as soon as its session has ended.                                       *)
THEOREM GatewaySessionMapsAgree == Spec => []SessionMapsAgree
<1>1. LoopInv => SessionMapsAgree
  BY DEF LoopInv
<1> QED
  BY <1>1, LoopInvariant, PTL

(* Between two rounds of the loop no request is under way in the gateway,  *)
(* whatever came on the connection and the port.                           *)
THEOREM GatewaySettledBetweenRounds == Spec => []SettledBetweenRounds
<1>1. LoopInv => SettledBetweenRounds
  BY DEF LoopInv, RoundShape, SettledBetweenRounds, Idle
<1> QED
  BY <1>1, LoopInvariant, PTL

-----------------------------------------------------------------------------
(* Answers and their requests                                              *)

(* A message the gateway would pass on is a request of the connection      *)
(* there is, with its number and kind.                                     *)
Faithful(m) ==
  /\ m.req # NoReq => m.seq = m.req.seq /\ m.kind = m.req.kind /\ m.req.conn = conn
  /\ m.kind \in Forwarded => m.req # NoReq

WireMatch == \A i \in DOMAIN wire : Faithful(wire[i])

(* A session of messages read together may be no request's: only its       *)
(* connection is known.  One of a request read alone has its number.       *)
SessionMatch ==
  \A i \in Inner : session[i] # NoSession =>
    /\ session[i].req # NoReq => session[i].req.conn = conn
    /\ session[i].alone => session[i].req # NoReq /\ session[i].ext = session[i].req.seq

KindKnown(s, k) == s # NoSession /\ s.alone => k = s.req.kind
KindMatch ==
  /\ \A q \in Ask : serialQ = <<q>> => KindKnown(session[q.inner], q.kind)
  /\ \A r \in Reply : clientQ = <<r>> => KindKnown(session[r.inner], r.kind)

MatchInv == WireMatch /\ SessionMatch /\ KindMatch /\ AnswersMatch

(* The positions of a sequence that an element was put before.             *)
LEMMA PrefixPositions ==
  ASSUME NEW S, NEW x \in S, NEW q \in Seq(S)
  PROVE  /\ Len(<<x>> \o q) = 1 + Len(q) /\ (<<x>> \o q)[1] = x
         /\ \A j \in 2 .. 1 + Len(q) : (<<x>> \o q)[j] = q[j - 1]
OBVIOUS

(* What is left on the wire was there or is no message.                    *)
LEMMA UnreadElements ==
  ASSUME TypeOK, NEW k \in 1 .. Len(wire), NEW cut \in BOOLEAN, NEW i \in DOMAIN Unread(k, cut)
  PROVE  \/ Unread(k, cut)[i] = Junk
         \/ LET n == IF cut THEN i + k - 1 ELSE i + k IN
            n \in k + 1 .. Len(wire) /\ n \in DOMAIN wire /\ Unread(k, cut)[i] = wire[n]
<1> DEFINE rest == SubSeq(wire, k + 1, Len(wire))
<1>1. wire \in Seq(Msg) /\ Len(wire) \in Nat
  BY DEF TypeOK
<1>2. /\ rest \in Seq(Msg) /\ Len(rest) = Len(wire) - k
      /\ \A j \in 1 .. Len(wire) - k : rest[j] = wire[j + k]
  BY <1>1
<1> HIDE DEF rest
<1>3. CASE cut
  <2>1. Unread(k, cut) = <<Junk>> \o rest
    BY <1>3 DEF Unread, rest
  <2>2. Junk \in Msg
    BY JunkType
  <2>3. Len(Unread(k, cut)) = 1 + Len(rest) /\ Unread(k, cut)[1] = Junk
        /\ \A j \in 2 .. 1 + Len(rest) : Unread(k, cut)[j] = rest[j - 1]
    BY <1>2, <2>1, <2>2, PrefixPositions
  <2>4. Unread(k, cut) \in Seq(Msg)
    BY UnreadType
  <2>5. i \in 1 .. Len(Unread(k, cut))
    BY <2>4
  <2>6. CASE i = 1
    BY <2>3, <2>6
  <2>7. CASE i # 1
    <3>1. i \in 2 .. 1 + Len(rest) /\ i - 1 \in 1 .. Len(wire) - k
      BY <1>1, <1>2, <2>3, <2>5, <2>7
    <3>2. Unread(k, cut)[i] = wire[i - 1 + k]
      BY <1>2, <2>3, <3>1
    <3>3. i - 1 + k = i + k - 1 /\ i + k - 1 \in k + 1 .. Len(wire) /\ i + k - 1 \in DOMAIN wire
      BY <1>1, <3>1, SMTT(30)
    <3> QED
      BY <1>3, <3>2, <3>3
  <2> QED
    BY <2>6, <2>7
<1>4. CASE ~cut
  <2>1. Unread(k, cut) = rest
    BY <1>2, <1>4, SMTT(30) DEF Unread, rest
  <2> QED
    BY <1>1, <1>2, <1>4, <2>1
<1> QED
  BY <1>3, <1>4

LEMMA JunkFaithful == Faithful(Junk) /\ Faithful(LoginRsp) /\ Junk.req = NoReq /\ LoginRsp.req = NoReq
BY DEF Faithful, Junk, LoginRsp, Forwarded

LEMMA ServerKeepsWireMatch == ASSUME TypeInv, WireMatch, Server PROVE WireMatch' /\ conn' = conn
<1>0. wire \in Seq(Msg) /\ Len(wire) \in Nat
  BY DEF TypeInv, TypeOK
<1>1. ASSUME NEW m, m \in Msg, Faithful(m), wire' = Append(wire, m), conn' = conn
      PROVE  WireMatch' /\ conn' = conn
  <2>1. Len(wire') = Len(wire) + 1 /\ wire'[Len(wire) + 1] = m /\ wire' \in Seq(Msg)
        /\ \A i \in 1 .. Len(wire) : wire'[i] = wire[i]
    BY <1>0, <1>1
  <2>2. ASSUME NEW i \in DOMAIN wire' PROVE Faithful(wire'[i])
    <3>1. i \in 1 .. Len(wire) \/ i = Len(wire) + 1
      BY <1>0, <2>1
    <3> QED
      BY <1>0, <1>1, <2>1, <3>1 DEF WireMatch
  <2> QED
    BY <1>1, <2>2 DEF WireMatch, Faithful
<1>2. CASE ServerAdmits
  BY <1>1, <1>2, JunkType, JunkFaithful DEF ServerAdmits
<1>3. ASSUME NEW s \in Seqs, NEW k \in Kinds, ServerSends(s, k) PROVE WireMatch' /\ conn' = conn
  <2> DEFINE m == [req |-> [id |-> sent + 1, conn |-> conn, seq |-> s, kind |-> k], seq |-> s, kind |-> k]
  <2>1. sent + 1 \in 1 .. MaxSent /\ conn \in 1 .. MaxConn
    BY <1>3, GatewayAssumption DEF ServerSends, TypeInv, TypeOK
  <2>2. m \in Msg
    BY <2>1, ReqType
  <2>3. Faithful(m) /\ wire' = Append(wire, m) /\ conn' = conn
    BY <1>3, <2>1, ReqType DEF ServerSends, Faithful
  <2> HIDE DEF m
  <2> QED
    BY <1>1, <2>2, <2>3
<1>4. CASE ServerCloses
  BY <1>4 DEF ServerCloses, WireMatch, Faithful
<1> QED
  BY <1>2, <1>3, <1>4 DEF Server

(* What neither queues nor sessions notice, if the connection is the same. *)
LEMMA AsideKeepsMatch ==
  ASSUME MatchInv, Aside, answer' = answer, conn' = conn, WireMatch'
  PROVE  MatchInv'
BY DEF MatchInv, Aside, SessionMatch, KindMatch, KindKnown, AnswersMatch

LEMMA ConnectKeepsMatch == ASSUME LoopInv, MatchInv, Connect PROVE MatchInv'
<1>1. Idle
  BY ReadsWhenIdle DEF Connect
<1>2. wire' = <<>> /\ UNCHANGED <<session, serialQ, clientQ, answer>>
  BY DEF Connect, sessVars, queues, history
<1>3. WireMatch'
  BY <1>2 DEF WireMatch
<1>4. SessionMatch'
  BY <1>1, <1>2 DEF SessionMatch, Idle
<1>5. KindMatch'
  BY <1>2 DEF MatchInv, KindMatch, KindKnown
<1> QED
  BY <1>2, <1>3, <1>4, <1>5 DEF MatchInv, AnswersMatch

LEMMA ReadKeepsMatch ==
  ASSUME TypeInv, LoopInv, MatchInv, NEW k \in 1 .. MaxSent + 1, NEW cut \in BOOLEAN, Read(k, cut)
  PROVE  MatchInv'
<1>1. Fires("link") /\ k \in 1 .. Len(wire) /\ UNCHANGED <<clientQ, conn, answer>> /\ wire' = Unread(k, cut)
  BY DEF Read, ClientReads, history
<1>2. Idle /\ keyMap = {}
  BY <1>1, ReadsWhenIdle
<1>3. PICK m \in Decoded(SubSeq(wire, 1, k), cut) : Handle(m, Whole(k, cut))
  BY DEF Read
<1>4. m \in Msg
  BY <1>1, UnreadType, DecodedType DEF TypeInv
<1>5. WireMatch'
  <2>1. ASSUME NEW i \in DOMAIN wire' PROVE Faithful(wire'[i])
    BY <1>1, UnreadElements, JunkFaithful DEF MatchInv, WireMatch, TypeInv
  <2> QED
    BY <1>1, <2>1 DEF WireMatch, Faithful
<1>6. m.req # NoReq => m.req.conn = conn
  <2> DEFINE ms == SubSeq(wire, 1, k)
  <2>1. ms \in Seq(Msg) /\ ms # <<>>
    BY <1>1, UnreadType DEF TypeInv
  <2>2. \A i \in DOMAIN ms : i \in DOMAIN wire /\ ms[i] = wire[i]
    BY <1>1 DEF TypeInv, TypeOK
  <2> HIDE DEF ms
  <2>3. m \in Decoded(ms, cut)
    BY <1>3 DEF ms
  <2>4. m.req # NoReq => \E i \in DOMAIN ms : m.req = ms[i].req
    BY <2>1, <2>3, DecodedType
  <2> QED
    BY <2>2, <2>4 DEF MatchInv, WireMatch, Faithful
<1>0. Whole(k, cut) /\ m.kind \in Forwarded => m.req # NoReq /\ m.seq = m.req.seq /\ m.kind = m.req.kind
  BY <1>1, <1>3, DecodedWhole DEF MatchInv, WireMatch, Faithful, TypeInv
<1>7. SessionMatch' /\ KindMatch'
  <2>1. CASE UNCHANGED <<session, keyMap, serialQ>>
    BY <1>1, <2>1 DEF MatchInv, SessionMatch, KindMatch, KindKnown
  <2>2. ASSUME NEW q \in Ask, q.kind = m.kind, serialQ' = <<q>>,
               session' = [session EXCEPT ![q.inner] = [req |-> m.req, alone |-> Whole(k, cut), ext |-> m.seq, age |-> 0]]
        PROVE  SessionMatch' /\ KindMatch'
    <3> DEFINE s == [req |-> m.req, alone |-> Whole(k, cut), ext |-> m.seq, age |-> 0]
    <3>1. s.req = m.req /\ s.ext = m.seq /\ s.alone = Whole(k, cut)
      OBVIOUS
    <3>2. q.inner \in Inner /\ q.kind \in Forwarded /\ session \in [Inner -> Session \cup {NoSession}]
      BY DEF Ask, TypeInv, TypeOK
    <3>0. s.alone => s.req # NoReq /\ s.ext = s.req.seq /\ q.kind = s.req.kind
      BY <1>0, <2>2, <3>1, <3>2
    <3> HIDE DEF s
    <3>3. \A j \in Inner : session'[j] = IF j = q.inner THEN s ELSE NoSession
      BY <1>2, <2>2, <3>2 DEF Idle, s
    <3>4. SessionMatch'
      BY <1>1, <1>6, <3>0, <3>1, <3>3 DEF SessionMatch
    <3>5. \A p \in Ask : serialQ' = <<p>> => p = q
      BY <2>2
    <3>6. clientQ' = <<>>
      BY <1>1, <1>2 DEF Idle
    <3>7. KindKnown(s, q.kind)
      BY <3>0 DEF KindKnown
    <3>8. KindMatch'
      BY <3>2, <3>3, <3>5, <3>6, <3>7 DEF KindMatch, KindKnown
    <3> QED
      BY <3>4, <3>8
  <2> QED
    BY <1>2, <1>3, <1>4, <2>1, <2>2, WholeType, HandleWhenIdle
<1> QED
  BY <1>1, <1>5, <1>7 DEF MatchInv, AnswersMatch

LEMMA TickKeepsMatch == ASSUME TypeInv, MatchInv, Tick PROVE MatchInv'
<1>1. UNCHANGED <<wire, conn, serialQ, clientQ, answer>>
  BY DEF Tick, linkVars, queues, history
<1>2. ASSUME NEW i \in Inner, session'[i] # NoSession
      PROVE  /\ session[i] # NoSession
             /\ session'[i].req = session[i].req /\ session'[i].ext = session[i].ext
             /\ session'[i].alone = session[i].alone
  <2>1. session[i] # NoSession /\ session'[i] = [session[i] EXCEPT !.age = session[i].age + 1]
    BY <1>2 DEF Tick
  <2>2. session[i] \in Session
    BY <2>1 DEF TypeInv, TypeOK
  <2> QED
    BY <2>1, <2>2 DEF Session
<1>3. SessionMatch'
  BY <1>1, <1>2 DEF MatchInv, SessionMatch
<1>4. KindMatch'
  <2>1. \A q \in Ask : q.inner \in Inner
    BY DEF Ask
  <2>2. \A r \in Reply : r.inner \in Inner
    BY DEF Reply
  <2> QED
    BY <1>1, <1>2, <2>1, <2>2 DEF MatchInv, KindMatch, KindKnown
<1> QED
  BY <1>1, <1>3, <1>4 DEF MatchInv, WireMatch, Faithful, AnswersMatch

LEMMA DrainKeepsMatch == ASSUME TypeInv, LoopInv, MatchInv, Drain PROVE MatchInv'
<1>1. UNCHANGED <<wire, conn>>
  BY DEF Drain, EndEvents, SerialAnswers, EndSerial, ClientAnswers, EndRound, linkVars
<1>2. WireMatch'
  BY <1>1 DEF MatchInv, WireMatch, Faithful
<1>3. CASE EndEvents \/ EndSerial
  BY <1>1, <1>2, <1>3 DEF EndEvents, EndSerial, sessVars, queues, history,
                          MatchInv, SessionMatch, KindMatch, KindKnown, AnswersMatch
<1>4. CASE SerialAnswers
  <2>1. PICK q \in Ask, r \in Reply :
           /\ serialQ = <<q>> /\ serialQ' = <<>> /\ clientQ' = <<r>>
           /\ r.inner = q.inner /\ r.kind = q.kind /\ OnlySession(q.inner)
    BY <1>4, SerialAnswersWhenAsked
  <2>2. UNCHANGED <<session, answer>>
    BY <1>4 DEF SerialAnswers, sessVars, history
  <2>3. \A p \in Reply : clientQ' = <<p>> => p = r
    BY <2>1
  <2>4. KindMatch'
    BY <2>1, <2>2, <2>3 DEF MatchInv, KindMatch, KindKnown
  <2> QED
    BY <1>1, <1>2, <2>2, <2>4 DEF MatchInv, SessionMatch, AnswersMatch
<1>5. CASE ClientAnswers
  <2>1. PICK r \in Reply :
           /\ clientQ = <<r>> /\ Head(clientQ) = r /\ serialQ' = <<>> /\ clientQ' = <<>>
           /\ OnlySession(r.inner) /\ session[r.inner] \in Session
           /\ \A j \in Inner : session'[j] = NoSession
    BY <1>5, ClientAnswersWhenReplied
  <2> DEFINE s == session[r.inner]
  <2>2. r.inner \in Inner /\ s # NoSession
    BY <2>1, NullAssumption DEF Reply
  <2>3. AnswersMatch'
    <3>1. CASE answer' = answer
      BY <3>1 DEF MatchInv, AnswersMatch
    <3>2. CASE SendAnswer(r, s)
      <4>1. /\ answer'.req = s.req /\ answer'.alone = s.alone /\ answer'.conn = conn
            /\ answer'.seq = s.ext /\ answer'.kind = r.kind
        BY <3>2 DEF SendAnswer
      <4>2. /\ s.req # NoReq => s.req.conn = conn
            /\ s.alone => s.req # NoReq /\ s.ext = s.req.seq /\ r.kind = s.req.kind
        BY <1>1, <2>1, <2>2 DEF MatchInv, SessionMatch, KindMatch, KindKnown
      <4> QED
        BY <4>1, <4>2 DEF AnswersMatch
    <3> QED
      BY <1>5, <2>1, <3>1, <3>2 DEF ClientAnswers
  <2>4. SessionMatch' /\ KindMatch'
    BY <2>1 DEF SessionMatch, KindMatch
  <2> QED
    BY <1>2, <2>3, <2>4 DEF MatchInv
<1>6. CASE EndRound
  BY <1>1, <1>2, <1>6 DEF EndRound, sessVars, queues,
                          MatchInv, SessionMatch, KindMatch, KindKnown, AnswersMatch
<1> QED
  BY <1>3, <1>4, <1>5, <1>6 DEF Drain

LEMMA MatchStep == ASSUME TypeInv, LoopInv, MatchInv, [Next]_vars PROVE MatchInv'
<1>1. CASE Server
  <2>1. answer' = answer
    BY <1>1 DEF Server, ServerAdmits, ServerSends, ServerCloses, history
  <2> QED
    BY <1>1, <2>1, ServerKeepsWireMatch, OtherStepsAside, AsideKeepsMatch DEF MatchInv
<1>2. CASE Connect
  BY <1>2, ConnectKeepsMatch
<1>3. CASE \E k \in 1 .. MaxSent + 1, cut \in BOOLEAN : Read(k, cut)
  BY <1>3, ReadKeepsMatch
<1>4. CASE ReadEof \/ ReadNothing \/ PortEvent \/ StaleEvent \/ UNCHANGED vars
  <2>1. UNCHANGED <<conn, answer>> /\ wire' \in {wire, <<>>}
    <3>1. CASE ReadEof \/ ReadNothing
      BY <3>1 DEF ReadEof, ReadNothing, history
    <3>2. CASE PortEvent
      BY <3>2 DEF PortEvent, Register, OtherFrame, PortEnds, linkVars, history
    <3>3. CASE StaleEvent
      BY <3>3 DEF StaleEvent, StaleReopens, StaleReads, linkVars, history
    <3>4. CASE UNCHANGED vars
      BY <3>4 DEF vars, linkVars, history
    <3> QED
      BY <1>4, <3>1, <3>2, <3>3, <3>4
  <2>2. WireMatch'
    BY <2>1 DEF MatchInv, WireMatch, Faithful
  <2> QED
    BY <1>4, <2>1, <2>2, OtherStepsAside, AsideKeepsMatch
<1>5. CASE Tick \/ Drain
  BY <1>5, TickKeepsMatch, DrainKeepsMatch
<1> QED
  BY <1>1, <1>2, <1>3, <1>4, <1>5 DEF Next, LinkEvent

LEMMA MatchInit == ASSUME Init PROVE MatchInv
BY DEF Init, MatchInv, WireMatch, SessionMatch, KindMatch, KindKnown, AnswersMatch

LEMMA GatewayInvariant == Spec => [](TypeInv /\ LoopInv /\ MatchInv)
BY TypeInit, TypeStep, LoopInit, LoopStep, MatchInit, MatchStep, PTL DEF Spec

(* The answer to a request read whole and by itself goes out under that    *)
(* request's number and is of its kind, whatever numbers the server uses   *)
(* again; however messages are read, the answer a request gets comes on    *)
(* the request's own connection.                                           *)
THEOREM GatewayAnswersMatch == Spec => []AnswersMatch
<1>1. MatchInv => AnswersMatch
  BY DEF MatchInv
<1> QED
  BY <1>1, GatewayInvariant, PTL

-----------------------------------------------------------------------------
(* The service                                                             *)

OnWire(r) == \E i \in DOMAIN wire : Carries(wire[i], r)
InSession(r) == \E i \in Inner : session[i] # NoSession /\ Carries(session[i], r)

(* A request is in one place at most: on the wire once, in a session, or   *)
(* answered.                                                               *)
OnceInv ==
  /\ \A i, j \in DOMAIN wire : wire[i].req # NoReq /\ wire[j].req # NoReq
                               /\ wire[i].req.id = wire[j].req.id => i = j
  /\ \A r \in Request : OnWire(r) => ~InSession(r)
  /\ \A r \in Request : OnWire(r) \/ InSession(r) => r <= sent /\ replies[r] = 0
  /\ \A r \in Request : replies[r] > 0 => r <= sent

LEMMA UnderWayIs == ASSUME NEW r PROVE UnderWay(r) <=> OnWire(r) \/ InSession(r)
BY DEF UnderWay, OnWire, InSession

ServiceStep == [Service!Next]_(Service!vars)

(* A step that answers nothing and sends nothing loses what is under way   *)
(* no longer.                                                              *)
LEMMA LosesSome ==
  ASSUME TypeInv, OnceInv, sent' = sent, replies' = replies,
         \A r \in Request : UnderWay(r)' => UnderWay(r)
  PROVE  ServiceStep
<1> DEFINE R == {r \in Request : UnderWay(r) /\ ~UnderWay(r)'}
<1>1. \A r \in R : Phase[r] = "pending" /\ Phase'[r] = "lost"
  <2>1. \A r \in R : replies[r] = 0 /\ replies'[r] = 0 /\ r <= sent' /\ r \in Nat /\ sent' \in Nat
    BY UnderWayIs, GatewayAssumption DEF OnceInv, TypeInv, TypeOK, Request
  <2> QED
    BY <2>1 DEF Phase
<1>2. \A r \in Request \ R : Phase'[r] = Phase[r]
  BY DEF Phase
<1>3. Phase' = [r \in Request |-> IF r \in R THEN "lost" ELSE Phase[r]]
  BY <1>1, <1>2 DEF Phase
<1> HIDE DEF R
<1>4. Service!Turn(R, "pending", "lost")
  BY <1>1, <1>3 DEF Service!Turn
<1>5. R \in SUBSET Request
  BY DEF R
<1> QED
  BY <1>4, <1>5 DEF ServiceStep, Service!Next, Service!Lose

(* Steps that put no request anywhere.                                     *)
Shrinks ==
  /\ sent' = sent /\ replies' = replies /\ wire' \in {wire, <<>>}
  /\ \A r \in Request : InSession(r)' => InSession(r)

LEMMA ShrinksIsServiceStep == ASSUME TypeInv, OnceInv, Shrinks PROVE OnceInv' /\ ServiceStep
<1>1. \A r \in Request : OnWire(r)' => OnWire(r)
  BY DEF Shrinks, OnWire, Carries
<1>2. \A r \in Request : UnderWay(r)' => UnderWay(r)
  BY <1>1, UnderWayIs DEF Shrinks, UnderWay, OnWire, InSession
<1>3. OnceInv'
  BY <1>1 DEF OnceInv, Shrinks
<1> QED
  BY <1>2, <1>3, LosesSome DEF Shrinks

LEMMA AppendOnWire ==
  ASSUME TypeOK, NEW m, m \in Msg, wire' = Append(wire, m)
  PROVE  /\ \A i \in DOMAIN wire' : (i \in DOMAIN wire /\ wire'[i] = wire[i])
                                   \/ (i = Len(wire) + 1 /\ wire'[i] = m)
         /\ \A i \in DOMAIN wire : i \in DOMAIN wire' /\ wire'[i] = wire[i]
         /\ Len(wire) + 1 \in DOMAIN wire' /\ wire'[Len(wire) + 1] = m
         /\ Len(wire) + 1 \notin DOMAIN wire
<1>1. wire \in Seq(Msg) /\ Len(wire) \in Nat
  BY DEF TypeOK
<1>2. Len(wire') = Len(wire) + 1 /\ wire'[Len(wire) + 1] = m /\ wire' \in Seq(Msg)
      /\ \A i \in 1 .. Len(wire) : wire'[i] = wire[i]
  BY <1>1
<1>3. DOMAIN wire = 1 .. Len(wire) /\ DOMAIN wire' = 1 .. Len(wire) + 1
  BY <1>1, <1>2
<1> QED
  BY <1>1, <1>2, <1>3

LEMMA AdmitsIsServiceStep == ASSUME TypeInv, OnceInv, ServerAdmits PROVE OnceInv' /\ ServiceStep
<1>1. wire' = Append(wire, LoginRsp) /\ UNCHANGED <<session, sent, replies>>
  BY DEF ServerAdmits, sessVars, history
<1>2. LoginRsp \in Msg /\ LoginRsp.req = NoReq
  BY JunkType, JunkFaithful
<1>3. \A i \in DOMAIN wire' : (i \in DOMAIN wire /\ wire'[i] = wire[i]) \/ wire'[i].req = NoReq
  BY <1>1, <1>2, AppendOnWire DEF TypeInv
<1>4. \A r \in Request : (OnWire(r)' => OnWire(r)) /\ (InSession(r)' <=> InSession(r))
  BY <1>1, <1>3 DEF OnWire, InSession, Carries
<1>5. OnceInv'
  BY <1>1, <1>3, <1>4 DEF OnceInv
<1>6. \A r \in Request : UnderWay(r)' => UnderWay(r)
  BY <1>4, UnderWayIs DEF UnderWay, OnWire, InSession
<1> QED
  BY <1>1, <1>5, <1>6, LosesSome

LEMMA SendsIsServiceStep ==
  ASSUME TypeInv, OnceInv, NEW s \in Seqs, NEW k \in Kinds, ServerSends(s, k)
  PROVE  OnceInv' /\ ServiceStep
<1> DEFINE q == [id |-> sent + 1, conn |-> conn, seq |-> s, kind |-> k]
           m == [req |-> q, seq |-> s, kind |-> k]
<1>1. sent + 1 \in Request /\ sent \in Nat /\ conn \in 1 .. MaxConn
  BY GatewayAssumption DEF ServerSends, TypeInv, TypeOK, Request
<1>2. q \in Req /\ q.id = sent + 1 /\ m \in Msg /\ m.req = q
  BY <1>1, ReqType DEF Request
<1>3. wire' = Append(wire, m) /\ sent' = sent + 1 /\ UNCHANGED <<session, replies>>
  BY DEF ServerSends, sessVars
<1> HIDE DEF q, m
<1>4. m.req # NoReq
  BY <1>2, NullAssumption
<1>5. \A r \in Request : r > sent => ~OnWire(r) /\ ~InSession(r) /\ replies[r] = 0
  <2>1. \A r \in Request : r \in Nat /\ replies[r] \in Nat
    BY GatewayAssumption DEF Request, TypeInv, TypeOK
  <2> QED
    BY <1>1, <2>1 DEF OnceInv
<1>6. \A r \in Request : OnWire(r)' <=> OnWire(r) \/ r = sent + 1
  <2>1. ASSUME NEW r \in Request, OnWire(r)' PROVE OnWire(r) \/ r = sent + 1
    <3>1. PICK i \in DOMAIN wire' : wire'[i].req # NoReq /\ wire'[i].req.id = r
      BY <2>1 DEF OnWire, Carries
    <3>2. (i \in DOMAIN wire /\ wire'[i] = wire[i]) \/ wire'[i] = m
      BY <1>2, <1>3, AppendOnWire DEF TypeInv
    <3> QED
      BY <1>2, <3>1, <3>2 DEF OnWire, Carries
  <2>2. ASSUME NEW r \in Request, OnWire(r) PROVE OnWire(r)'
    BY <1>2, <1>3, <2>2, AppendOnWire DEF OnWire, Carries, TypeInv
  <2>3. ASSUME NEW r \in Request, r = sent + 1 PROVE OnWire(r)'
    BY <2>3, <1>2, <1>3, <1>4, AppendOnWire DEF OnWire, Carries, TypeInv
  <2> QED
    BY <2>1, <2>2, <2>3
<1>7. \A r \in Request : InSession(r)' <=> InSession(r)
  BY <1>3 DEF InSession, Carries
<1>8. OnceInv'
  <2>1. \A i, j \in DOMAIN wire' : wire'[i].req # NoReq /\ wire'[j].req # NoReq
                                  /\ wire'[i].req.id = wire'[j].req.id => i = j
    <3> SUFFICES ASSUME NEW i \in DOMAIN wire', NEW j \in DOMAIN wire',
                        wire'[i].req # NoReq, wire'[j].req # NoReq, wire'[i].req.id = wire'[j].req.id
                 PROVE  i = j
      OBVIOUS
    <3>1. \A n \in DOMAIN wire' : (n \in DOMAIN wire /\ wire'[n] = wire[n]) \/ (n = Len(wire) + 1 /\ wire'[n] = m)
      BY <1>2, <1>3, AppendOnWire DEF TypeInv
    <3>2. \A n \in DOMAIN wire : wire[n].req # NoReq => wire[n].req.id # sent + 1
      BY <1>1, <1>5 DEF OnWire, Carries
    <3> QED
      BY <1>2, <3>1, <3>2 DEF OnceInv
  <2>2. \A r \in Request : r \in Nat
    BY GatewayAssumption DEF Request
  <2> QED
    BY <1>1, <1>3, <1>5, <1>6, <1>7, <2>1, <2>2 DEF OnceInv
<1>9. ServiceStep
  <2>1. \A r \in Request : UnderWay(r)' <=> UnderWay(r) \/ r = sent + 1
    BY <1>6, <1>7, UnderWayIs DEF UnderWay, OnWire, InSession
  <2>2. \A r \in Request : r \in Nat /\ (r > sent + 1 <=> r > sent /\ r # sent + 1)
    BY <1>1, GatewayAssumption DEF Request
  <2>3. Phase[sent + 1] = "unsent" /\ Phase'[sent + 1] = "pending"
    BY <1>1, <1>3, <1>5, <2>1, UnderWayIs DEF Phase
  <2>4. \A r \in Request \ {sent + 1} : Phase'[r] = Phase[r]
    BY <1>3, <2>1, <2>2 DEF Phase
  <2>5. Phase' = [r \in Request |-> IF r \in {sent + 1} THEN "pending" ELSE Phase[r]]
    BY <2>3, <2>4 DEF Phase
  <2>6. Service!Turn({sent + 1}, "unsent", "pending")
    BY <2>3, <2>5 DEF Service!Turn
  <2> QED
    BY <1>1, <1>3, <2>6 DEF ServiceStep, Service!Next, Service!Send
<1> QED
  BY <1>8, <1>9

(* What was decoded is from one of the messages that were read.            *)
LEMMA DecodedCarries ==
  ASSUME TypeOK, NEW k \in 1 .. Len(wire), NEW cut \in BOOLEAN,
         NEW m \in Decoded(SubSeq(wire, 1, k), cut), m.req # NoReq
  PROVE  \E i \in 1 .. k : i \in DOMAIN wire /\ m.req = wire[i].req
<1> DEFINE ms == SubSeq(wire, 1, k)
<1>1. ms \in Seq(Msg) /\ ms # <<>> /\ DOMAIN ms = 1 .. k
  BY UnreadType
<1>2. \A i \in 1 .. k : i \in DOMAIN wire /\ ms[i] = wire[i]
  BY DEF TypeOK
<1>3. m \in Decoded(ms, cut)
  OBVIOUS
<1> HIDE DEF ms
<1> QED
  BY <1>1, <1>2, <1>3, DecodedType

LEMMA ReadIsServiceStep ==
  ASSUME TypeInv, LoopInv, OnceInv, NEW k \in 1 .. MaxSent + 1, NEW cut \in BOOLEAN, Read(k, cut)
  PROVE  OnceInv' /\ ServiceStep
<1>1. Fires("link") /\ k \in 1 .. Len(wire) /\ UNCHANGED <<sent, replies>> /\ wire' = Unread(k, cut)
  BY DEF Read, ClientReads, history
<1>2. Idle /\ keyMap = {}
  BY <1>1, ReadsWhenIdle
<1>3. PICK m \in Decoded(SubSeq(wire, 1, k), cut) : Handle(m, Whole(k, cut))
  BY DEF Read
<1>4. m \in Msg
  BY <1>1, UnreadType, DecodedType DEF TypeInv
<1> DEFINE place(i) == IF cut THEN i + k - 1 ELSE i + k
<1>5. \A i \in DOMAIN wire' :
        \/ wire'[i].req = NoReq
        \/ place(i) \in k + 1 .. Len(wire) /\ place(i) \in DOMAIN wire /\ wire'[i] = wire[place(i)]
  BY <1>1, UnreadElements, JunkFaithful DEF TypeInv
<1>6. wire' \in Seq(Msg) /\ Len(wire) \in Nat
  BY <1>1, UnreadType DEF TypeInv, TypeOK
<1>7. \A i, j \in DOMAIN wire' : place(i) = place(j) => i = j
  BY <1>1, <1>6
<1> HIDE DEF place
<1>8. \A r \in Request : OnWire(r)' => \E n \in k + 1 .. Len(wire) : n \in DOMAIN wire /\ Carries(wire[n], r)
  BY <1>5 DEF OnWire, Carries
<1>9. \A r \in Request : InSession(r)' => \E n \in 1 .. k : n \in DOMAIN wire /\ Carries(wire[n], r)
  <2>1. CASE UNCHANGED <<session, keyMap, serialQ>>
    BY <1>2, <2>1 DEF InSession, Idle
  <2>2. ASSUME NEW q \in Ask,
               session' = [session EXCEPT ![q.inner] = [req |-> m.req, alone |-> Whole(k, cut), ext |-> m.seq, age |-> 0]]
        PROVE  \A r \in Request : InSession(r)' => \E n \in 1 .. k : n \in DOMAIN wire /\ Carries(wire[n], r)
    <3> SUFFICES ASSUME NEW r \in Request, InSession(r)'
                 PROVE  \E n \in 1 .. k : n \in DOMAIN wire /\ Carries(wire[n], r)
      OBVIOUS
    <3>1. \A j \in Inner : j # q.inner => session'[j] = NoSession
      BY <1>2, <2>2 DEF Idle, TypeInv, TypeOK
    <3>2. session'[q.inner].req = m.req
      BY <2>2 DEF TypeInv, TypeOK, Ask
    <3>3. m.req # NoReq /\ m.req.id = r
      BY <3>1, <3>2 DEF InSession, Carries
    <3>4. PICK n \in 1 .. k : n \in DOMAIN wire /\ m.req = wire[n].req
      BY <1>1, <1>3, <3>3, DecodedCarries DEF TypeInv
    <3> QED
      BY <3>3, <3>4 DEF Carries
  <2> QED
    BY <1>2, <1>3, <1>4, <2>1, <2>2, WholeType, HandleWhenIdle
<1>10. \A r \in Request : OnWire(r)' \/ InSession(r)' => OnWire(r)
  BY <1>8, <1>9 DEF OnWire
<1>11. \A r \in Request : OnWire(r)' => ~InSession(r)'
  <2> SUFFICES ASSUME NEW r \in Request, OnWire(r)', InSession(r)' PROVE FALSE
    OBVIOUS
  <2>1. PICK a \in k + 1 .. Len(wire) : a \in DOMAIN wire /\ Carries(wire[a], r)
    BY <1>8
  <2>2. PICK b \in 1 .. k : b \in DOMAIN wire /\ Carries(wire[b], r)
    BY <1>9
  <2>3. a = b
    BY <2>1, <2>2 DEF OnceInv, Carries
  <2> QED
    BY <1>1, <1>6, <2>1, <2>2, <2>3
<1>12. \A i, j \in DOMAIN wire' : wire'[i].req # NoReq /\ wire'[j].req # NoReq
                                 /\ wire'[i].req.id = wire'[j].req.id => i = j
  BY <1>5, <1>7 DEF OnceInv
<1>13. OnceInv'
  BY <1>1, <1>10, <1>11, <1>12 DEF OnceInv
<1>14. \A r \in Request : UnderWay(r)' => UnderWay(r)
  BY <1>10, UnderWayIs DEF UnderWay, OnWire, InSession
<1> QED
  BY <1>1, <1>13, <1>14, LosesSome

LEMMA AnswersIsServiceStep ==
  ASSUME TypeInv, LoopInv, OnceInv, ClientAnswers
  PROVE  OnceInv' /\ ServiceStep
<1>1. PICK r \in Reply :
         /\ clientQ = <<r>> /\ Head(clientQ) = r /\ serialQ' = <<>> /\ clientQ' = <<>>
         /\ OnlySession(r.inner) /\ session[r.inner] \in Session
         /\ \A j \in Inner : session'[j] = NoSession
  BY ClientAnswersWhenReplied
<1> DEFINE s == session[r.inner]
<1>2. UNCHANGED <<wire, sent>> /\ r.inner \in Inner
  BY DEF ClientAnswers, linkVars, Reply
<1>3. \A i \in Request : ~InSession(i)'
  BY <1>1 DEF InSession
<1>4. CASE replies' = replies
  BY <1>2, <1>3, <1>4, ShrinksIsServiceStep DEF Shrinks
<1>5. CASE replies' # replies
  <2>1. SendAnswer(r, s)
    BY <1>1, <1>5 DEF ClientAnswers
  <2>2. s.req # NoReq /\ s.req \in Req
    <3>1. s.req = NoReq => replies' = replies
      BY <2>1 DEF SendAnswer, Counted, TypeInv, TypeOK
    <3> QED
      BY <1>1, <1>5, <3>1 DEF Session
  <2> DEFINE a == s.req.id
  <2>3. a \in Request
    BY <2>2 DEF Req
  <2>4. replies' = [replies EXCEPT ![a] = replies[a] + 1]
    BY <1>5, <2>1, <2>2, <2>3 DEF SendAnswer, Counted, TypeInv, TypeOK
  <2>5. s # NoSession
    BY <1>1, NullAssumption
  <2> HIDE DEF s
  <2>6. InSession(a)
    BY <1>2, <2>2, <2>5 DEF InSession, Carries, s
  <2> HIDE DEF a
  <2>7. replies[a] = 0 /\ a <= sent /\ ~OnWire(a)
    BY <2>3, <2>6 DEF OnceInv
  <2>8. replies' = [replies EXCEPT ![a] = 1]
    BY <2>4, <2>7
  <2>9. \A i \in Request : OnWire(i)' <=> OnWire(i)
    BY <1>2 DEF OnWire, Carries
  <2>10. \A i \in Request : InSession(i) => i = a
    BY <1>1, <2>2 DEF InSession, Carries, OnlySession, a, s
  <2>11. replies'[a] = 1 /\ \A i \in Request \ {a} : replies'[i] = replies[i]
    BY <2>3, <2>8 DEF TypeInv, TypeOK
  <2>12. OnceInv'
    BY <1>2, <1>3, <2>7, <2>9, <2>11 DEF OnceInv
  <2>13. \A i \in Request : UnderWay(i)' <=> OnWire(i)
    BY <1>2, <1>3 DEF UnderWay, OnWire, InSession, Carries
  <2>14. Phase[a] = "pending" /\ Phase'[a] = "answered"
    <3>1. UnderWay(a)
      BY <2>6, UnderWayIs
    <3>2. Phase[a] = "pending"
      BY <2>3, <2>7, <3>1 DEF Phase
    <3>3. Phase'[a] = "answered"
      BY <2>3, <2>11 DEF Phase
    <3> QED
      BY <3>2, <3>3
  <2>15. \A i \in Request \ {a} : Phase'[i] = Phase[i]
    <3>1. ASSUME NEW i \in Request \ {a} PROVE UnderWay(i)' <=> UnderWay(i)
      BY <2>10, <2>13, UnderWayIs
    <3> QED
      BY <1>2, <2>11, <3>1 DEF Phase
  <2>16. Phase' = [i \in Request |-> IF i \in {a} THEN "answered" ELSE Phase[i]]
    BY <2>14, <2>15 DEF Phase
  <2>17. Service!Turn({a}, "pending", "answered")
    BY <2>14, <2>16 DEF Service!Turn
  <2> QED
    BY <2>3, <2>8, <2>12, <2>17 DEF ServiceStep, Service!Next, Service!Reply
<1> QED
  BY <1>4, <1>5

LEMMA TickShrinks == ASSUME TypeInv, Tick PROVE Shrinks
<1>1. UNCHANGED <<wire, sent, replies>>
  BY DEF Tick, linkVars, history
<1>2. ASSUME NEW i \in Inner, session'[i] # NoSession
      PROVE  session[i] # NoSession /\ session'[i].req = session[i].req
  <2>1. session[i] # NoSession /\ session'[i] = [session[i] EXCEPT !.age = session[i].age + 1]
    BY <1>2 DEF Tick
  <2>2. session[i] \in Session
    BY <2>1 DEF TypeInv, TypeOK
  <2> QED
    BY <2>1, <2>2 DEF Session
<1> QED
  BY <1>1, <1>2 DEF Shrinks, InSession, Carries

LEMMA ServiceSteps ==
  ASSUME TypeInv, LoopInv, OnceInv, [Next]_vars
  PROVE  OnceInv' /\ ServiceStep
<1>1. CASE ServerAdmits \/ \E s \in Seqs, k \in Kinds : ServerSends(s, k)
  BY <1>1, AdmitsIsServiceStep, SendsIsServiceStep
<1>2. CASE \E k \in 1 .. MaxSent + 1, cut \in BOOLEAN : Read(k, cut)
  BY <1>2, ReadIsServiceStep
<1>3. CASE ClientAnswers
  BY <1>3, AnswersIsServiceStep
<1>4. CASE Tick
  BY <1>4, TickShrinks, ShrinksIsServiceStep
<1>5. CASE \/ ServerCloses \/ Connect \/ ReadEof \/ ReadNothing \/ PortEvent \/ StaleEvent
           \/ EndEvents \/ SerialAnswers \/ EndSerial \/ EndRound \/ UNCHANGED vars
  <2>1. UNCHANGED <<session, sent, replies>> /\ wire' \in {wire, <<>>}
    <3> USE DEF linkVars, sessVars, history
    <3>1. CASE ServerCloses \/ Connect \/ ReadEof \/ ReadNothing
      BY <3>1 DEF ServerCloses, Connect, ReadEof, ReadNothing
    <3>2. CASE PortEvent
      BY <3>2 DEF PortEvent, Register, OtherFrame, PortEnds
    <3>3. CASE StaleEvent
      BY <3>3 DEF StaleEvent, StaleReopens, StaleReads
    <3>4. CASE EndEvents \/ SerialAnswers \/ EndSerial \/ EndRound
      BY <3>4 DEF EndEvents, SerialAnswers, EndSerial, EndRound
    <3>5. CASE UNCHANGED vars
      BY <3>5 DEF vars
    <3> QED
      BY <1>5, <3>1, <3>2, <3>3, <3>4, <3>5
  <2>2. Shrinks
    BY <2>1 DEF Shrinks, InSession
  <2> QED
    BY <2>2, ShrinksIsServiceStep
<1> QED
  BY <1>1, <1>2, <1>3, <1>4, <1>5 DEF Next, Server, LinkEvent, Drain

LEMMA ServiceInit == ASSUME Init PROVE OnceInv /\ Service!Init
<1>1. replies = [r \in Request |-> 0] /\ sent = 0 /\ wire = <<>> /\ session = [i \in Inner |-> NoSession]
  BY DEF Init
<1>2. \A r \in Request : ~OnWire(r) /\ ~InSession(r)
  BY <1>1 DEF OnWire, InSession
<1>3. OnceInv
  BY <1>1, <1>2 DEF OnceInv
<1>4. \A r \in Request : r > sent
  BY <1>1, GatewayAssumption DEF Request
<1>5. \A r \in Request : Phase[r] = "unsent"
  BY <1>1, <1>2, <1>4, UnderWayIs DEF Phase
<1>6. Phase = [r \in Request |-> "unsent"]
  BY <1>5 DEF Phase
<1> QED
  BY <1>1, <1>3, <1>6 DEF Service!Init

(* The gateway implements FgwService: it answers no request twice, and     *)
(* none that was lost with its connection, in a message that was read with *)
(* others or in part, or in an answer that does not fit.                   *)
THEOREM GatewayImplementsService == Spec => ImplementsService
<1>1. Init => OnceInv /\ Service!Init
  BY ServiceInit
<1>2. TypeInv /\ LoopInv /\ OnceInv /\ [Next]_vars => OnceInv' /\ [Service!Next]_(Service!vars)
  BY ServiceSteps DEF ServiceStep
<1> QED
  BY <1>1, <1>2, LoopInvariant, PTL DEF Spec, ImplementsService, Service!Spec
=============================================================================
