-------------------------- MODULE RpcSessionProofs --------------------------
(***************************************************************************)
(* Theorems of the RPC session, for every set of Chain services, every set *)
(* of reply headers and every number of accepted states.  The argument is  *)
(* the inductive invariant SessionInv: it says what is on the stream and   *)
(* who holds the lock at each point of a call.                             *)
(***************************************************************************)
EXTENDS RpcSession, SequenceTheorems, TLAPS

-----------------------------------------------------------------------------
(* The connection functions.                                               *)

\* Giving the lock back never leaves an RPC active and changes nothing else
\* about the connection.
LEMMA ReleaseRpcFacts ==
  ASSUME NEW c \in ConnType, c.active => c.holds > 0
  PROVE  /\ ReleaseRpc(c) \in ConnType
         /\ ~ReleaseRpc(c).active
         /\ ReleaseRpc(c).connected = c.connected
         /\ ReleaseRpc(c).mutex = c.mutex
         /\ c.active => /\ ReleaseRpc(c).remaining = 0
                        /\ ReleaseRpc(c).holds = c.holds - 1
         /\ ~c.active => ReleaseRpc(c) = c
  BY DEF ReleaseRpc, ConnType, Connection, Lengths

\* A failed connection is closed and no RPC is active on it.
LEMMA NetworkFailFacts ==
  ASSUME NEW c \in ConnType, c.active => c.holds > 0
  PROVE  /\ NetworkFail(c) \in ConnType
         /\ ~NetworkFail(c).connected
         /\ ~NetworkFail(c).active
<1> DEFINE closed == [c EXCEPT !.connected = FALSE]
<1>1. /\ closed \in ConnType
      /\ ~closed.connected
      /\ closed.active => closed.holds > 0
  BY DEF ConnType
<1> HIDE DEF closed
<1>2. QED
  BY <1>1, ReleaseRpcFacts DEF NetworkFail, closed

\* A disconnected connection is closed and no RPC is active on it.
LEMMA NetworkDisconnectFacts ==
  ASSUME NEW c \in ConnType, c.active => c.holds > 0
  PROVE  /\ NetworkDisconnect(c) \in ConnType
         /\ ~NetworkDisconnect(c).connected
         /\ ~NetworkDisconnect(c).active
<1>1. NetworkFail(c).remaining \in Lengths
  BY NetworkFailFacts DEF ConnType
<1>2. QED
  BY <1>1 DEF NetworkDisconnect, Connection, ConnType

\* Reading a header keeps the session locked exactly while a payload is owed.
LEMMA ReceiveHeaderFacts ==
  ASSUME NEW c \in ConnType, c.active, c.holds > 0, c.connected,
         NEW length \in Lengths
  PROVE  LET r == ReceiveHeader(c, length)
         IN  /\ r \in ConnType /\ r.connected /\ r.mutex = c.mutex
             /\ length # 0 => r.active /\ r.holds = c.holds
                              /\ r.remaining = length
             /\ length = 0 => ~r.active /\ r.holds = c.holds - 1
                              /\ r.remaining = 0
<1> DEFINE taken == [c EXCEPT !.remaining = length]
<1>1. /\ taken \in ConnType
      /\ taken.active /\ taken.connected
      /\ taken.mutex = c.mutex /\ taken.holds = c.holds
      /\ taken.remaining = length
  BY DEF ConnType
<1>2. ReceiveHeader(c, length) = IF length = 0 THEN ReleaseRpc(taken) ELSE taken
  BY DEF ReceiveHeader
<1> HIDE DEF taken
<1>3. QED
  BY <1>1, <1>2, ReleaseRpcFacts

\* Reading the payload that is owed gives the lock back.
LEMMA ReceivePayloadFacts ==
  ASSUME NEW c \in ConnType, c.active, c.holds > 0, c.connected
  PROVE  LET r == ReceivePayload(c, c.remaining)
         IN  /\ r \in ConnType /\ r.connected /\ r.mutex = c.mutex
             /\ ~r.active /\ r.remaining = 0 /\ r.holds = c.holds - 1
<1> DEFINE taken == [c EXCEPT !.remaining = c.remaining - c.remaining]
<1>1. c.remaining \in Nat
  BY DEF ConnType, Lengths
<1>2. /\ taken \in ConnType
      /\ taken.active /\ taken.connected
      /\ taken.mutex = c.mutex /\ taken.holds = c.holds
      /\ taken.remaining = 0
  BY <1>1 DEF ConnType, Lengths
<1>3. ReceivePayload(c, c.remaining) = ReleaseRpc(taken)
  BY <1>1, <1>2 DEF ReceivePayload
<1> HIDE DEF taken
<1>4. QED
  BY <1>2, <1>3, ReleaseRpcFacts

\* Whatever a call does to the session when it fails leaves it well formed.
LEMMA SessionAfterErrorFacts ==
  ASSUME NEW c \in ConnType, c.active => c.holds > 0, NEW kind \in KindType
  PROVE  LET r == SessionAfterError(kind, c)
         IN  /\ r \in ConnType
             /\ ~c.connected => ~r.connected
             /\ kind.onError # "keep" => ~r.connected
             /\ r.connected => r = c
             /\ ~r.connected /\ ~c.active => ~r.active
  BY NetworkDisconnectFacts DEF SessionAfterError, KindType

\* The kinds of call are what their type says.
LEMMA KindsTyped == Kinds \cup {Qualify} \subseteq KindType
  BY DEF Kinds, KindType, Lengths, Codes, CallKind, Plain, Submission,
     Qualify, RefreshChainState, AddressQuery, DeriveAddress, Pending,
     MiningContext, CheckWorkBase, MiningTemplate, SubmitWork,
     SubmitBlockEvidence, SubmitHistoryEvidence, SubmitSuffixEvidence,
     SubmitTransaction, ChainBlock, StageControl, StageCommit, StageAbort

LEMMA QualifyFacts ==
  /\ Qualify \in KindType
  /\ Qualify.onError = "close"
  /\ Qualify.empty = {} /\ Qualify.lengths = {1} /\ Qualify.learns = "all"
  BY DEF Qualify, CallKind, KindType, Lengths, Codes

-----------------------------------------------------------------------------
(* The end of a call.                                                      *)

Invariant == TypeOK /\ SessionInv

\* What the transport and the stream look like when a call is over: closed,
\* free and empty, or locked with the unread payload of this call.
Over(c, rest) ==
  /\ c \in ConnType
  /\ rest \in Seq(Segment)
  /\ ~c.connected => ~c.active
  /\ c.active => c.holds > 0
  /\ c.connected =>
       /\ c.mutex /\ ~request.pending
       /\ \/ rest = <<>> /\ c.holds = 0 /\ ~c.active /\ c.remaining = 0
          \/ /\ Len(rest) = 1 /\ rest[1].part = "payload"
             /\ rest[1].for = call.serial /\ c.holds > 0 /\ c.active

\* A session that settles between two calls satisfies the invariant as soon as
\* an open session presents the state of the Chain service it is connected to.
LEMMA SettleInv ==
  ASSUME TypeOK, SessionInv, NEW c, NEW rest, Over(c, rest),
         Settle(c, rest), EndCall, UNCHANGED <<at, chainTip>>,
         known' \in KnownType, KnownInv',
         c.connected => known'.available /\ known'.chain = at,
         result' \in ResultType, OwnAnswer'
  PROVE  TypeOK' /\ SessionInv'
<1>1. call' = Idle(call.serial) /\ call' \in CallType /\ call'.pc = "idle"
      /\ call'.serial = call.serial
  BY QualifyFacts DEF EndCall, Idle, TypeOK, CallType, Lengths
<1>2. conn' = c /\ at' = at /\ chainTip' = chainTip
  BY DEF Settle
<1>3. inbound' \in Seq(Segment) /\ request' \in RequestType
  BY DEF Settle, Over, TypeOK, NoRequest, RequestType
<1>4. TypeOK'
  BY <1>1, <1>2, <1>3 DEF TypeOK, Over
<1>5. ClosedInv'
  BY <1>1, <1>2 DEF ClosedInv, Settle, Over, NoRequest
<1>6. IdleInv'
  BY <1>1, <1>2 DEF IdleInv, Settle, Over, Unlocked, Locked, LeftOver
<1>7. QualifyInv' /\ HeaderInv' /\ PayloadInv' /\ ExchangeInv'
  BY <1>1 DEF QualifyInv, HeaderInv, PayloadInv, ExchangeInv
<1>8. conn'.connected => conn'.mutex
  BY <1>2 DEF Over
<1>9. QED
  BY <1>4, <1>5, <1>6, <1>7, <1>8 DEF SessionInv

LEMMA NoResultFacts == NoResult \in ResultType /\ ~NoResult.ok
  BY DEF NoResult, ResultType, Serials

LEMMA ClearedFacts == Cleared \in KnownType /\ ~Cleared.available
  BY DEF Cleared, KnownType

\* A failed call keeps the invariant.
LEMMA CallFailsInv ==
  ASSUME TypeOK, SessionInv, call.pc \in {"header", "payload"},
         NEW c, NEW rest, Over(c, rest),
         CallFails(c, rest), UNCHANGED <<at, chainTip>>
  PROVE  TypeOK' /\ SessionInv'
<1> DEFINE r == SessionAfterError(call.kind, c)
<1>0. call.kind \in KindType
  BY DEF TypeOK, CallType
<1>1. /\ r \in ConnType
      /\ ~c.connected => ~r.connected
      /\ call.kind.onError # "keep" => ~r.connected
      /\ r.connected => r = c
      /\ ~r.connected /\ ~c.active => ~r.active
      /\ ~r.connected => r = c \/ ~r.active
  <2>1. c \in ConnType /\ (c.active => c.holds > 0)
    BY DEF Over
  <2>2. QED
    BY <1>0, <2>1, SessionAfterErrorFacts, NetworkDisconnectFacts
       DEF SessionAfterError
<1>2. Over(r, rest)
  <2>1. CASE r.connected
    BY <1>1, <2>1 DEF Over
  <2>2. CASE ~r.connected
    <3>1. ~r.active
      BY <1>1, <2>2 DEF Over
    <3>2. QED
      BY <1>1, <2>2, <3>1 DEF Over
  <2>3. QED
    BY <2>1, <2>2
<1>3. known' \in KnownType /\ KnownInv'
  BY ClearedFacts DEF CallFails, TypeOK, SessionInv, KnownInv
<1>4. r.connected => known'.available /\ known'.chain = at
  <2>1. r.connected => call.kind.onError = "keep"
    BY <1>1
  <2>2. call.kind.onError = "keep" => call.kind # Qualify
    BY QualifyFacts
  <2>3. QED
    BY <2>1, <2>2 DEF CallFails, ClosesOnError, SessionInv, ExchangeInv
<1>5. result' \in ResultType /\ OwnAnswer'
  BY NoResultFacts DEF CallFails, OwnAnswer
<1> HIDE DEF r
<1>6. Settle(r, rest) /\ EndCall
  BY DEF CallFails, r
<1>7. QED
  BY <1>2, <1>3, <1>4, <1>5, <1>6, SettleInv

\* A refused call keeps the invariant.
LEMMA CallRefusedInv ==
  ASSUME TypeOK, SessionInv, call.pc \in {"header", "payload"},
         NEW c, NEW rest, Over(c, rest),
         CallRefused(c, rest), UNCHANGED <<at, chainTip>>
  PROVE  TypeOK' /\ SessionInv'
<1>1. CASE call.kind.onError # "retire"
  BY <1>1, CallFailsInv DEF CallRefused
<1>2. CASE call.kind.onError = "retire"
  <2>1. known' = known /\ Settle(c, rest) /\ EndCall /\ result' = NoResult
    BY <1>2 DEF CallRefused
  <2>2. known' \in KnownType /\ KnownInv'
    BY <2>1 DEF TypeOK, SessionInv, KnownInv
  <2>3. known'.available /\ known'.chain = at
    BY <1>2, <2>1, QualifyFacts DEF SessionInv, ExchangeInv
  <2>4. result' \in ResultType /\ OwnAnswer'
    BY <2>1, NoResultFacts DEF OwnAnswer
  <2>5. QED
    BY <2>1, <2>2, <2>3, <2>4, SettleInv
<1>3. QED
  BY <1>1, <1>2

\* A call that succeeds on its own answer keeps the invariant.
LEMMA CallSucceedsInv ==
  ASSUME TypeOK, SessionInv, call.pc \in {"header", "payload"},
         NEW c, NEW rest, Over(c, rest),
         CallSucceeds(c, rest, call.serial, call.serial),
         UNCHANGED <<at, chainTip>>,
         known' \in KnownType, KnownInv',
         known'.available, known'.chain = at
  PROVE  TypeOK' /\ SessionInv'
<1>1. Settle(c, rest) /\ EndCall
  BY DEF CallSucceeds
<1>2. call'.serial = call.serial
  BY <1>1 DEF EndCall, Idle
<1>3. result' \in ResultType /\ OwnAnswer'
  BY DEF CallSucceeds, ResultType, OwnAnswer, TypeOK, CallType
<1>4. QED
  BY <1>1, <1>3, SettleInv

-----------------------------------------------------------------------------
(* One lemma for each action.                                              *)

LEMMA InitInv == Init => TypeOK /\ SessionInv
<1> SUFFICES ASSUME Init PROVE TypeOK /\ SessionInv
  OBVIOUS
<1>1. TypeOK
  BY QualifyFacts, NoResultFacts, ClearedFacts
     DEF Init, TypeOK, Unconnected, Connection, ConnType, Lengths, NoRequest,
         RequestType, Idle, CallType, Serials
<1>2. /\ ~conn.connected /\ ~conn.active /\ call.pc = "idle"
      /\ ~request.pending /\ inbound = <<>>
  BY DEF Init, Unconnected, Connection, Idle, NoRequest
<1>3. OwnAnswer /\ KnownInv
  BY NoResultFacts, ClearedFacts DEF Init, OwnAnswer, KnownInv
<1>4. QED
  BY <1>1, <1>2, <1>3
     DEF SessionInv, ClosedInv, QualifyInv, IdleInv, HeaderInv, PayloadInv,
         ExchangeInv

LEMMA ConnectPeerInv ==
  ASSUME TypeOK, SessionInv, NEW c \in Chains, ConnectPeer(c)
  PROVE  TypeOK' /\ SessionInv'
<1>1. /\ call.pc = "idle" /\ ~conn.connected /\ inbound = <<>>
      /\ ~request.pending /\ ~conn.active
      /\ UNCHANGED <<request, inbound, chainTip, known, result>>
  BY DEF ConnectPeer, SessionInv, ClosedInv
<1>2. OwnAnswer' /\ KnownInv'
  BY <1>1 DEF SessionInv, OwnAnswer, KnownInv
<1>3. CASE /\ conn' = NetworkConnect
           /\ at' = c
           /\ call' = [call EXCEPT !.pc = "qualify"]
  <2>1. /\ conn' \in ConnType /\ conn'.connected /\ conn'.mutex
        /\ conn'.holds = 0 /\ ~conn'.active /\ conn'.remaining = 0
    BY <1>3 DEF NetworkConnect, Connection, ConnType, Lengths
  <2>2. call' \in CallType /\ call'.pc = "qualify"
    BY <1>3 DEF TypeOK, CallType
  <2>3. TypeOK'
    BY <1>1, <1>3, <2>1, <2>2 DEF TypeOK
  <2>4. QED
    BY <1>1, <1>2, <2>1, <2>2, <2>3
       DEF SessionInv, ClosedInv, QualifyInv, IdleInv, HeaderInv, PayloadInv,
           ExchangeInv, Unlocked
<1>4. CASE conn' = NetworkDisconnect(conn) /\ UNCHANGED <<at, call>>
  <2>1. conn' \in ConnType /\ ~conn'.connected /\ ~conn'.active
    BY <1>1, <1>4, NetworkDisconnectFacts DEF TypeOK
  <2>2. TypeOK'
    BY <1>1, <1>4, <2>1 DEF TypeOK
  <2>3. QED
    BY <1>1, <1>2, <1>4, <2>1, <2>2
       DEF SessionInv, ClosedInv, QualifyInv, IdleInv, HeaderInv, PayloadInv,
           ExchangeInv
<1>5. QED
  BY <1>3, <1>4 DEF ConnectPeer

LEMMA NextSerialFacts ==
  \A s \in Serials : NextSerial(s) \in Serials /\ NextSerial(s) # s
  BY DEF Serials, NextSerial

\* A call starts on an open session.
LEMMA BeginCallFacts ==
  ASSUME TypeOK, SessionInv, NEW kind \in Kinds \cup {Qualify}, BeginCall(kind)
  PROVE  /\ conn.connected /\ conn.mutex /\ ~request.pending
         /\ kind = Qualify \/ (known.available /\ known.chain = at)
         /\ \/ inbound = <<>> /\ conn.holds = 0
            \/ /\ Len(inbound) = 1 /\ inbound[1].part = "payload"
               /\ inbound[1].for = call.serial
         /\ call.pc \in {"idle", "qualify"}
  BY DEF BeginCall, SessionInv, IdleInv, QualifyInv, LeftOver, Unlocked

LEMMA SendRequestInv ==
  ASSUME TypeOK, SessionInv, NEW kind \in Kinds \cup {Qualify},
         SendRequest(kind)
  PROVE  TypeOK' /\ SessionInv'
<1>1. /\ conn' = NetworkSend(conn)
      /\ call' = [pc |-> "header", kind |-> kind,
                  serial |-> NextSerial(call.serial), expect |-> 0]
      /\ request' = [pending |-> TRUE, learns |-> kind.learns]
      /\ result' = NoResult
      /\ UNCHANGED <<at, inbound, chainTip, known>>
      /\ BeginCall(kind)
  BY DEF SendRequest
<1>2. conn \in ConnType /\ call.serial \in Serials /\ kind \in KindType
  BY KindsTyped DEF TypeOK, CallType
<1>3. /\ conn' \in ConnType /\ conn'.connected /\ conn'.mutex
      /\ conn'.active /\ conn'.remaining = 0
      /\ conn'.holds = conn.holds + 1 /\ conn'.holds > 0
  BY <1>1, <1>2, BeginCallFacts DEF NetworkSend, Connection, ConnType, Lengths
<1>4. /\ call' \in CallType /\ call'.pc = "header" /\ call'.kind = kind
      /\ call'.serial # call.serial
  BY <1>1, <1>2, NextSerialFacts DEF CallType, Lengths
<1>5. request' \in RequestType /\ request'.pending
  BY <1>1, <1>2 DEF RequestType, KindType
<1>6. TypeOK'
  BY <1>1, <1>3, <1>4, <1>5, NoResultFacts DEF TypeOK
<1>7. HeaderInv'
  BY <1>1, <1>3, <1>4, <1>5, BeginCallFacts DEF HeaderInv, Locked, LeftOver
<1>8. ExchangeInv'
  BY <1>1, <1>4, BeginCallFacts DEF ExchangeInv
<1>9. OwnAnswer' /\ KnownInv'
  BY <1>1, NoResultFacts DEF OwnAnswer, KnownInv, SessionInv
<1>10. QED
  BY <1>3, <1>4, <1>6, <1>7, <1>8, <1>9
     DEF SessionInv, ClosedInv, QualifyInv, IdleInv, PayloadInv

LEMMA SendFailsInv ==
  ASSUME TypeOK, SessionInv, NEW kind \in Kinds \cup {Qualify}, SendFails(kind)
  PROVE  TypeOK' /\ SessionInv'
<1>1. conn \in ConnType /\ call.serial \in Serials /\ kind \in KindType
  BY KindsTyped DEF TypeOK, CallType
<1> DEFINE sent == NetworkSend(conn)
           r == SessionAfterError(kind, NetworkFail(sent))
<1>2. sent \in ConnType /\ sent.holds > 0
  BY <1>1 DEF NetworkSend, Connection, ConnType, Lengths
<1>3. /\ NetworkFail(sent) \in ConnType
      /\ ~NetworkFail(sent).connected /\ ~NetworkFail(sent).active
  BY <1>2, NetworkFailFacts
<1>4. r \in ConnType /\ ~r.connected /\ ~r.active
  BY <1>1, <1>3, SessionAfterErrorFacts
<1> HIDE DEF r
<1>5. /\ conn' = r /\ inbound' = <<>> /\ request' = NoRequest
      /\ call' = Idle(NextSerial(call.serial)) /\ result' = NoResult
      /\ known' \in {known, Cleared}
      /\ UNCHANGED <<at, chainTip>>
  BY <1>4 DEF SendFails, Settle, r
<1>6. call' \in CallType /\ call'.pc = "idle"
  BY <1>1, <1>5, NextSerialFacts, QualifyFacts DEF Idle, CallType, Lengths
<1>7. TypeOK'
  BY <1>4, <1>5, <1>6, NoResultFacts, ClearedFacts
     DEF TypeOK, NoRequest, RequestType
<1>8. OwnAnswer' /\ KnownInv'
  BY <1>5, NoResultFacts, ClearedFacts DEF OwnAnswer, KnownInv, SessionInv
<1>9. QED
  BY <1>4, <1>5, <1>6, <1>7, <1>8
     DEF SessionInv, ClosedInv, QualifyInv, IdleInv, HeaderInv, PayloadInv,
         ExchangeInv, NoRequest

LEMMA RefreshFindsClosedInv ==
  ASSUME TypeOK, SessionInv, RefreshFindsClosed
  PROVE  TypeOK' /\ SessionInv'
<1>1. /\ known' = Cleared /\ call.pc = "idle" /\ ~conn.connected
      /\ UNCHANGED <<conn, at, request, inbound, chainTip, call, result>>
  BY DEF RefreshFindsClosed
<1>2. TypeOK'
  BY <1>1, ClearedFacts DEF TypeOK
<1>3. QED
  BY <1>1, <1>2, ClearedFacts
     DEF SessionInv, ClosedInv, QualifyInv, IdleInv, HeaderInv, PayloadInv,
         ExchangeInv, OwnAnswer, KnownInv

\* A read during a call that closes the socket: nothing is left on it.
LEMMA FailedReadInv ==
  ASSUME TypeOK, SessionInv, call.pc \in {"header", "payload"},
         CallFails(NetworkFail(conn), <<>>), UNCHANGED <<at, chainTip>>
  PROVE  TypeOK' /\ SessionInv'
<1>1. conn \in ConnType /\ conn.holds > 0
  BY DEF TypeOK, SessionInv, HeaderInv, PayloadInv, Locked
<1>2. /\ NetworkFail(conn) \in ConnType
      /\ ~NetworkFail(conn).connected /\ ~NetworkFail(conn).active
  BY <1>1, NetworkFailFacts
<1>3. Over(NetworkFail(conn), <<>>)
  BY <1>2 DEF Over
<1>4. QED
  BY <1>3, CallFailsInv

LEMMA ReadFailsInv ==
  ASSUME TypeOK, SessionInv, ReadFails
  PROVE  TypeOK' /\ SessionInv'
  BY FailedReadInv DEF ReadFails

LEMMA ReadHeaderRejectedInv ==
  ASSUME TypeOK, SessionInv, ReadHeaderRejected
  PROVE  TypeOK' /\ SessionInv'
  BY FailedReadInv DEF ReadHeaderRejected

\* A stream of one segment.
LEMMA OneSegment ==
  ASSUME NEW q \in Seq(Segment), Len(q) = 1
  PROVE  q[1] \in Segment /\ Head(q) = q[1] /\ Tail(q) = <<>>
<1>1. q # <<>>
  BY EmptySeq
<1>2. q[1] \in Segment /\ Head(q) = q[1]
  BY <1>1
<1> DEFINE t == Tail(q)
<1>3. t \in Seq(Segment) /\ Len(t) = 0
  BY <1>1
<1> HIDE DEF t
<1>4. t = <<>>
  BY <1>3, EmptySeq
<1>5. QED
  BY <1>2, <1>4 DEF t

\* When the oldest segment is a header, the stream is this call's answer.
LEMMA HeaderFirst ==
  ASSUME TypeOK, SessionInv, call.pc = "header", inbound # <<>>,
         Head(inbound).part = "header"
  PROVE  /\ AnswerFrom(1) /\ ~request.pending
         /\ Head(inbound) = inbound[1] /\ Head(inbound) \in Segment
         /\ Tail(inbound) \in Seq(Segment)
         /\ Len(Tail(inbound)) = Len(inbound) - 1
         /\ Len(inbound) = 1 => Tail(inbound) = <<>>
         /\ Len(inbound) = 2 => Tail(inbound)[1] = inbound[2]
<1>1. inbound \in Seq(Segment)
  BY DEF TypeOK
<1>2. Head(inbound) = inbound[1] /\ Head(inbound) \in Segment
  BY <1>1
<1>3. /\ Tail(inbound) \in Seq(Segment)
      /\ Len(Tail(inbound)) = Len(inbound) - 1
      /\ Len(inbound) = 2 => Tail(inbound)[1] = inbound[2]
  BY <1>1
<1>4. Len(inbound) = 1 => Tail(inbound) = <<>>
  BY <1>1, OneSegment
<1>5. ~LeftOver
  BY <1>2 DEF LeftOver
<1>6. QED
  BY <1>2, <1>3, <1>4, <1>5 DEF SessionInv, HeaderInv

LEMMA ReadHeaderInv ==
  ASSUME TypeOK, SessionInv, ReadHeader
  PROVE  TypeOK' /\ SessionInv'
<1> DEFINE seg == Head(inbound)
           rest == Tail(inbound)
           c == ReceiveHeader(conn, seg.length)
           wanted == /\ seg.echo /\ seg.code = "OK"
                     /\ seg.length \in call.kind.lengths
<1>1. /\ call.pc = "header" /\ inbound # <<>> /\ seg.part = "header"
      /\ UNCHANGED <<at, chainTip>>
  BY DEF ReadHeader
<1>2. /\ AnswerFrom(1) /\ ~request.pending
      /\ seg = inbound[1] /\ seg \in Segment /\ seg.for = call.serial
      /\ rest \in Seq(Segment)
  BY <1>1, HeaderFirst DEF AnswerFrom
<1>3. conn \in ConnType /\ conn.active /\ conn.holds > 0 /\ conn.connected
      /\ conn.mutex /\ seg.length \in Lengths
  BY <1>1, <1>2 DEF TypeOK, SessionInv, HeaderInv, ClosedInv, Locked, Segment
<1>4. /\ c \in ConnType /\ c.connected /\ c.mutex
      /\ seg.length # 0 => /\ c.active /\ c.holds = conn.holds
                           /\ c.remaining = seg.length
      /\ seg.length = 0 => /\ ~c.active /\ c.holds = conn.holds - 1
                           /\ c.remaining = 0
  BY <1>3, ReceiveHeaderFacts
<1>5. seg.length = 0 => rest = <<>>
  <2>1. SUFFICES ASSUME seg.length = 0 PROVE rest = <<>>
    OBVIOUS
  <2>2. Len(inbound) = 1
    BY <1>2, <2>1 DEF AnswerFrom
  <2>3. QED
    BY <1>1, <1>2, <2>2, HeaderFirst
<1>6. seg.length # 0 =>
        /\ Len(rest) = 1 /\ OwnPayload(rest[1], seg.length)
  <2>1. SUFFICES ASSUME seg.length # 0
                 PROVE  Len(rest) = 1 /\ OwnPayload(rest[1], seg.length)
    OBVIOUS
  <2>2. Len(inbound) = 2 /\ OwnPayload(inbound[2], seg.length)
    BY <1>2, <2>1 DEF AnswerFrom
  <2>3. QED
    BY <1>1, <2>2, HeaderFirst
<1>7. ~LeftOver
  BY <1>2, <1>1 DEF LeftOver
<1>8. conn.holds = 1
  BY <1>1, <1>7 DEF SessionInv, HeaderInv
<1>9. Over(c, rest)
  <2>1. CASE seg.length = 0
    BY <1>2, <1>4, <1>5, <1>8, <2>1 DEF Over
  <2>2. CASE seg.length # 0
    <3>1. /\ c.active /\ c.holds > 0 /\ c \in ConnType
          /\ c.connected /\ c.mutex
      BY <1>3, <1>4, <2>2
    <3>2. Len(rest) = 1 /\ rest[1].part = "payload" /\ rest[1].for = call.serial
      BY <1>6, <2>2 DEF OwnPayload
    <3> HIDE DEF c, rest
    <3>3. QED
      BY <1>2, <3>1, <3>2 DEF Over
  <2>3. QED
    BY <2>1, <2>2
<1> HIDE DEF seg, rest, c
<1>10. CASE CallSucceeds(c, rest, seg.for, seg.for) /\ UNCHANGED known
            /\ (seg.code \in call.kind.empty \/ wanted) /\ seg.length = 0
  <2>1. call.kind # Qualify
    BY <1>10, QualifyFacts
  <2>2. known.available /\ known.chain = at
    BY <1>1, <2>1 DEF SessionInv, ExchangeInv
  <2>3. known' \in KnownType /\ KnownInv' /\ known'.available /\ known'.chain = at
    BY <1>1, <1>10, <2>2 DEF TypeOK, SessionInv, KnownInv
  <2>4. QED
    BY <1>1, <1>2, <1>9, <1>10, <2>3, CallSucceedsInv
<1>11. CASE CallRefused(c, rest)
  BY <1>1, <1>9, <1>11, CallRefusedInv
<1>12. CASE CallFails(c, rest)
  BY <1>1, <1>9, <1>12, CallFailsInv
<1>13. CASE /\ wanted /\ seg.length # 0
            /\ conn' = c /\ inbound' = rest
            /\ call' = [call EXCEPT !.pc = "payload", !.expect = seg.length]
            /\ result' = [NoResult EXCEPT !.header = seg.for]
            /\ UNCHANGED <<request, known>>
  <2>1. /\ call' \in CallType /\ call'.pc = "payload"
        /\ call'.serial = call.serial /\ call'.kind = call.kind
        /\ call'.expect = seg.length
    BY <1>3, <1>13 DEF TypeOK, CallType
  <2>2. result' \in ResultType /\ ~result'.ok /\ result'.header = call.serial
    BY <1>2, <1>13, NoResultFacts DEF NoResult, ResultType, TypeOK, CallType
  <2>3. TypeOK'
    BY <1>1, <1>2, <1>4, <1>13, <2>1, <2>2 DEF TypeOK
  <2>4. /\ Len(inbound') = 1
        /\ inbound'[1].part = "payload" /\ inbound'[1].for = call'.serial
        /\ inbound'[1].length = call'.expect
        /\ inbound'[1].tip <= chainTip'[at']
        /\ known'.available /\ known'.chain = at' =>
             known'.tip <= inbound'[1].tip
    BY <1>1, <1>6, <1>13, <2>1 DEF OwnPayload
  <2>5. PayloadInv'
    <3>1. conn'.active /\ conn'.holds = 1 /\ conn'.remaining = call'.expect
      BY <1>4, <1>8, <1>13, <2>1
    <3>2. call'.expect > 0
      BY <1>3, <1>13, <2>1 DEF Lengths
    <3>3. ~request'.pending
      BY <1>2, <1>13
    <3>4. QED
      BY <2>2, <2>1, <2>4, <3>1, <3>2, <3>3 DEF PayloadInv, Locked, OwnPayload
  <2>6. ExchangeInv' /\ KnownInv' /\ OwnAnswer'
    BY <1>1, <1>13, <2>1, <2>2
       DEF SessionInv, ExchangeInv, KnownInv, OwnAnswer
  <2>7. conn'.connected /\ conn'.mutex
    BY <1>4, <1>13
  <2>8. QED
    BY <2>1, <2>3, <2>5, <2>6, <2>7
       DEF SessionInv, ClosedInv, QualifyInv, IdleInv, HeaderInv
<1>14. QED
  BY <1>10, <1>11, <1>12, <1>13 DEF ReadHeader, seg, rest, c

LEMMA LearnFacts ==
  ASSUME TypeOK, SessionInv, call.pc = "payload", NEW tip \in Nat,
         tip <= chainTip[at]
  PROVE  LET k == Learn(call.kind, tip)
         IN  /\ k \in KnownType /\ k.available /\ k.chain = at
             /\ k.tip <= chainTip[at]
<1>1. call.kind \in KindType /\ known \in KnownType /\ at \in Chains
  BY DEF TypeOK, CallType
<1>2. call.kind.learns # "all" => known.available /\ known.chain = at
  BY QualifyFacts DEF SessionInv, ExchangeInv
<1>3. known.available => known.tip <= chainTip[known.chain]
  BY DEF SessionInv, KnownInv
<1>4. CASE call.kind.learns = "all"
  BY <1>1, <1>4 DEF Learn, KnownType
<1>5. CASE call.kind.learns = "tip"
  BY <1>1, <1>2, <1>5 DEF Learn, KnownType
<1>6. CASE call.kind.learns = "nothing"
  BY <1>1, <1>2, <1>3, <1>6 DEF Learn
<1>7. QED
  BY <1>1, <1>4, <1>5, <1>6 DEF KindType

LEMMA ReadPayloadInv ==
  ASSUME TypeOK, SessionInv, ReadPayload
  PROVE  TypeOK' /\ SessionInv'
<1> DEFINE seg == Head(inbound)
           rest == Tail(inbound)
           c == ReceivePayload(conn, call.expect)
<1>1. call.pc = "payload" /\ UNCHANGED <<at, chainTip>>
  BY DEF ReadPayload
<1>2. /\ conn.active /\ conn.holds = 1 /\ conn.remaining = call.expect
      /\ ~request.pending /\ Len(inbound) = 1
      /\ OwnPayload(inbound[1], call.expect)
      /\ result.header = call.serial
  BY <1>1 DEF SessionInv, PayloadInv, Locked
<1>3. /\ conn \in ConnType /\ conn.connected /\ conn.mutex
      /\ inbound \in Seq(Segment)
  BY <1>1 DEF TypeOK, SessionInv, ClosedInv
<1>4. /\ c \in ConnType /\ c.connected /\ c.mutex
      /\ ~c.active /\ c.remaining = 0 /\ c.holds = 0
  BY <1>2, <1>3, ReceivePayloadFacts
<1>5. seg \in Segment /\ seg = inbound[1] /\ rest = <<>>
  BY <1>2, <1>3, OneSegment
<1>6. seg.for = call.serial /\ seg.tip \in Nat /\ seg.tip <= chainTip[at]
  BY <1>2, <1>5 DEF OwnPayload, Segment
<1> HIDE DEF seg, rest, c
<1>7. Over(c, rest)
  BY <1>2, <1>4, <1>5, EmptySeq DEF Over
<1>8. CASE CallRefused(c, rest)
  BY <1>1, <1>7, <1>8, CallRefusedInv
<1>9. CASE /\ CallSucceeds(c, rest, result.header, seg.for)
            /\ known' = Learn(call.kind, seg.tip)
  <2>1. /\ known' \in KnownType /\ known'.available /\ known'.chain = at
        /\ known'.tip <= chainTip[at]
    BY <1>1, <1>6, <1>9, LearnFacts
  <2>2. KnownInv'
    BY <1>1, <2>1 DEF KnownInv, TypeOK
  <2>3. CallSucceeds(c, rest, call.serial, call.serial)
    BY <1>2, <1>6, <1>9
  <2>4. QED
    BY <1>1, <1>7, <2>1, <2>2, <2>3, CallSucceedsInv
<1>10. QED
  BY <1>4, <1>8, <1>9 DEF ReadPayload, seg, rest, c

LEMMA ChainAdvancesInv ==
  ASSUME TypeOK, SessionInv, NEW b \in Chains, ChainAdvances(b)
  PROVE  TypeOK' /\ SessionInv'
<1>1. /\ chainTip' = [chainTip EXCEPT ![b] = chainTip[b] + 1]
      /\ UNCHANGED <<conn, at, request, inbound, known, call, result>>
  BY DEF ChainAdvances
<1>2. chainTip \in [Chains -> Nat] /\ at \in Chains
  BY DEF TypeOK
<1>3. /\ chainTip' \in [Chains -> Nat]
      /\ \A d \in Chains : chainTip'[d] >= chainTip[d]
  BY <1>1, <1>2
<1>4. TypeOK'
  BY <1>1, <1>3 DEF TypeOK
<1>5. KnownInv'
  BY <1>1, <1>2, <1>3 DEF SessionInv, KnownInv, TypeOK, KnownType
<1>6. PayloadInv'
  <2>1. SUFFICES ASSUME call.pc = "payload" PROVE PayloadInv'
    BY <1>1 DEF PayloadInv
  <2>2. Len(inbound) = 1 /\ inbound[1].tip <= chainTip[at]
    BY <2>1 DEF SessionInv, PayloadInv, OwnPayload
  <2>3. inbound'[1].tip <= chainTip'[at']
    <3>1. inbound[1] \in Segment
      BY <2>2, OneSegment DEF TypeOK
    <3>2. QED
      BY <1>1, <1>2, <1>3, <2>2, <3>1 DEF Segment
  <2>4. QED
    BY <1>1, <2>1, <2>3 DEF SessionInv, PayloadInv, OwnPayload, Locked
<1>7. HeaderInv'
  <2>1. SUFFICES ASSUME call.pc = "header" PROVE HeaderInv'
    BY <1>1 DEF HeaderInv
  <2>2. LeftOver' <=> LeftOver
    BY <1>1 DEF LeftOver
  <2>3. ASSUME NEW i \in {1, 2}, AnswerFrom(i) PROVE AnswerFrom(i)'
    <3>1. CASE inbound[i].length = 0
      BY <1>1, <2>3, <3>1 DEF AnswerFrom
    <3>2. CASE inbound[i].length # 0
      <4>1. Len(inbound) = i + 1 /\ OwnPayload(inbound[i + 1], inbound[i].length)
        BY <2>3, <3>2 DEF AnswerFrom
      <4>2. inbound[i + 1] \in Segment
        BY <4>1 DEF TypeOK
      <4>3. inbound'[i + 1].tip <= chainTip'[at']
        BY <1>1, <1>2, <1>3, <4>1, <4>2 DEF OwnPayload, Segment
      <4>4. QED
        BY <1>1, <2>3, <3>2, <4>1, <4>3 DEF AnswerFrom, OwnPayload
    <3>3. QED
      BY <3>1, <3>2
  <2>4. QED
    BY <1>1, <2>1, <2>2, <2>3 DEF SessionInv, HeaderInv, Locked
<1>8. QED
  BY <1>1, <1>4, <1>5, <1>6, <1>7
     DEF SessionInv, ClosedInv, QualifyInv, IdleInv, ExchangeInv, OwnAnswer,
         LeftOver, Locked, Unlocked

\* Appending a segment to the stream leaves what was there in place.
LEMMA HeaderAppended ==
  ASSUME NEW q \in Seq(Segment), NEW h \in Segment
  PROVE  /\ q \o <<h>> \in Seq(Segment)
         /\ Len(q \o <<h>>) = Len(q) + 1
         /\ \A i \in 1..Len(q) : (q \o <<h>>)[i] = q[i]
         /\ (q \o <<h>>)[Len(q) + 1] = h
<1>1. <<h>> \in Seq(Segment) /\ Len(<<h>>) = 1 /\ <<h>>[1] = h
  OBVIOUS
<1>2. QED
  BY <1>1

\* So does appending two.
LEMMA AnswerAppended ==
  ASSUME NEW q \in Seq(Segment), NEW h \in Segment, NEW p \in Segment
  PROVE  /\ q \o <<h, p>> \in Seq(Segment)
         /\ Len(q \o <<h, p>>) = Len(q) + 2
         /\ \A i \in 1..Len(q) : (q \o <<h, p>>)[i] = q[i]
         /\ (q \o <<h, p>>)[Len(q) + 1] = h
         /\ (q \o <<h, p>>)[Len(q) + 2] = p
<1>1. /\ <<h, p>> \in Seq(Segment) /\ Len(<<h, p>>) = 2
      /\ <<h, p>>[1] = h /\ <<h, p>>[2] = p
  OBVIOUS
<1>2. QED
  BY <1>1

LEMMA ChainAnswersInv ==
  ASSUME TypeOK, SessionInv, ChainAnswers
  PROVE  TypeOK' /\ SessionInv' /\ (LeftOver' <=> LeftOver)
<1>1. /\ request.pending /\ request' = NoRequest
      /\ UNCHANGED <<conn, at, known, call, result>>
  BY DEF ChainAnswers
<1>2. call.pc = "header" /\ conn.connected /\ conn.mutex /\ Locked
      /\ conn.remaining = 0 /\ (~LeftOver => conn.holds = 1)
      /\ (inbound = <<>> \/ (Len(inbound) = 1 /\ LeftOver))
  <2>1. conn.connected /\ call.pc \notin {"idle", "qualify", "payload"}
    BY <1>1 DEF SessionInv, ClosedInv, IdleInv, QualifyInv, PayloadInv
  <2>2. call.pc = "header"
    BY <2>1 DEF TypeOK, CallType
  <2>3. QED
    BY <1>1, <2>1, <2>2 DEF SessionInv, HeaderInv
<1>3. PICK shape \in Shapes :
        \E tip \in {chainTip[at], chainTip[at] + 1} :
          /\ chainTip' = [chainTip EXCEPT ![at] = tip]
          /\ inbound' = inbound \o
               (IF shape.length = 0
                THEN <<Header(call.serial, shape)>>
                ELSE <<Header(call.serial, shape),
                       Payload(call.serial, shape, tip)>>)
  BY DEF ChainAnswers
<1>4. PICK tip \in {chainTip[at], chainTip[at] + 1} :
        /\ chainTip' = [chainTip EXCEPT ![at] = tip]
        /\ inbound' = inbound \o
             (IF shape.length = 0
              THEN <<Header(call.serial, shape)>>
              ELSE <<Header(call.serial, shape),
                     Payload(call.serial, shape, tip)>>)
  BY <1>3
<1>5. /\ inbound \in Seq(Segment) /\ chainTip \in [Chains -> Nat]
      /\ at \in Chains /\ call.serial \in Serials /\ known \in KnownType
  BY DEF TypeOK, CallType
<1>6. /\ tip \in Nat /\ chainTip'[at] = tip
      /\ chainTip' \in [Chains -> Nat]
      /\ \A d \in Chains : chainTip'[d] >= chainTip[d]
  BY <1>4, <1>5
<1> DEFINE h == Header(call.serial, shape)
           p == Payload(call.serial, shape, tip)
<1>7. shape \in ReplyShape
  BY ShapesAssumption
<1>8. /\ h \in Segment /\ h.part = "header" /\ h.for = call.serial
      /\ h.length = shape.length
  BY <1>5, <1>7 DEF Header, Segment, ReplyShape, Codes
<1>9. /\ p \in Segment /\ p.part = "payload" /\ p.for = call.serial
      /\ p.length = shape.length /\ p.tip = tip
  BY <1>5, <1>6, <1>7 DEF Payload, Segment, ReplyShape, Codes
<1>10. inbound' = IF shape.length = 0 THEN inbound \o <<h>> ELSE inbound \o <<h, p>>
  BY <1>4
<1> HIDE DEF h, p
<1>11. PICK n \in {1, 2} : /\ n = Len(inbound) + 1
                           /\ n = 1 => inbound = <<>>
                           /\ n = 2 => LeftOver
  <2>1. CASE inbound = <<>>
    <3>1. Len(inbound) = 0
      BY <2>1, EmptySeq
    <3>2. QED
      BY <2>1, <3>1
  <2>2. CASE Len(inbound) = 1 /\ LeftOver
    BY <2>2
  <2>3. QED
    BY <1>2, <2>1, <2>2
<1>12. /\ inbound' \in Seq(Segment)
       /\ \A i \in 1..Len(inbound) : inbound'[i] = inbound[i]
       /\ inbound'[n] = h
       /\ shape.length = 0 => Len(inbound') = n
       /\ shape.length # 0 => Len(inbound') = n + 1 /\ inbound'[n + 1] = p
  <2>1. CASE shape.length = 0
    BY <1>5, <1>8, <1>10, <1>11, <2>1, HeaderAppended
  <2>2. CASE shape.length # 0
    <3>1. /\ inbound \o <<h, p>> \in Seq(Segment)
          /\ Len(inbound \o <<h, p>>) = Len(inbound) + 2
          /\ \A i \in 1..Len(inbound) : (inbound \o <<h, p>>)[i] = inbound[i]
          /\ (inbound \o <<h, p>>)[Len(inbound) + 1] = h
          /\ (inbound \o <<h, p>>)[Len(inbound) + 2] = p
      BY <1>5, <1>8, <1>9, AnswerAppended
    <3>2. Len(inbound) \in Nat
      BY <1>5
    <3>3. QED
      BY <1>10, <1>11, <2>2, <3>1, <3>2
  <2>3. QED
    BY <2>1, <2>2
<1>13. TypeOK'
  BY <1>1, <1>6, <1>12 DEF TypeOK, NoRequest, RequestType
<1>14. KnownInv'
  BY <1>1, <1>5, <1>6 DEF SessionInv, KnownInv, KnownType
<1>15. known.available /\ known.chain = at => known.tip <= tip
  BY <1>1, <1>6, <1>14 DEF KnownInv
<1>16. Len(inbound') >= n
  BY <1>12, <1>11
<1>17. AnswerFrom(n)'
  <2>1. CASE shape.length = 0
    BY <1>1, <1>8, <1>12, <1>11, <2>1 DEF AnswerFrom
  <2>2. CASE shape.length # 0
    <3>1. /\ inbound'[n + 1].part = "payload"
          /\ inbound'[n + 1].for = call'.serial
          /\ inbound'[n + 1].length = inbound'[n].length
          /\ inbound'[n + 1].tip <= chainTip'[at']
          /\ known'.available /\ known'.chain = at' =>
               known'.tip <= inbound'[n + 1].tip
      BY <1>1, <1>6, <1>8, <1>9, <1>12, <1>15, <2>2
    <3>2. QED
      BY <1>1, <1>8, <1>12, <1>16, <2>2, <3>1 DEF AnswerFrom, OwnPayload
  <2>3. QED
    BY <2>1, <2>2
<1>18. HeaderInv'
  <2>1. CASE n = 1
    BY <1>1, <1>2, <1>11, <1>17, <2>1, EmptySeq
       DEF HeaderInv, LeftOver, Locked, NoRequest
  <2>2. CASE n = 2
    <3>1. LeftOver /\ LeftOver'
      BY <1>1, <1>12, <1>11, <1>16, <2>2 DEF LeftOver
    <3>2. QED
      BY <1>1, <1>2, <1>17, <2>2, <3>1 DEF HeaderInv, Locked, NoRequest
  <2>3. QED
    BY <1>11, <2>1, <2>2
<1>19. LeftOver' <=> LeftOver
  <2>1. CASE n = 1
    <3>1. ~LeftOver
      BY <1>11, <2>1 DEF LeftOver
    <3>2. ~LeftOver'
      BY <1>8, <1>12, <2>1 DEF LeftOver
    <3>3. QED
      BY <3>1, <3>2
  <2>2. CASE n = 2
    BY <1>1, <1>11, <1>12, <1>16, <2>2 DEF LeftOver
  <2>3. QED
    BY <1>11, <2>1, <2>2
<1>20. QED
  BY <1>1, <1>2, <1>13, <1>14, <1>18, <1>19
     DEF SessionInv, ClosedInv, QualifyInv, IdleInv, PayloadInv, ExchangeInv,
         OwnAnswer

-----------------------------------------------------------------------------
(* The theorems.                                                           *)

\* Every step, stuttering included, keeps the invariant.
LEMMA NextInv ==
  ASSUME TypeOK, SessionInv, [Next]_vars
  PROVE  TypeOK' /\ SessionInv'
<1>1. CASE UNCHANGED vars
  BY <1>1
     DEF vars, TypeOK, SessionInv, ClosedInv, QualifyInv, IdleInv, HeaderInv,
         PayloadInv, ExchangeInv, KnownInv, OwnAnswer, LeftOver, AnswerFrom,
         OwnPayload, Locked, Unlocked
<1>2. ASSUME NEW c \in Chains, ConnectPeer(c) PROVE TypeOK' /\ SessionInv'
  BY <1>2, ConnectPeerInv
<1>3. ASSUME NEW c \in Chains, ChainAdvances(c) PROVE TypeOK' /\ SessionInv'
  BY <1>3, ChainAdvancesInv
<1>4. ASSUME NEW kind \in Kinds \cup {Qualify}, SendRequest(kind)
      PROVE  TypeOK' /\ SessionInv'
  BY <1>4, SendRequestInv
<1>5. ASSUME NEW kind \in Kinds \cup {Qualify}, SendFails(kind)
      PROVE  TypeOK' /\ SessionInv'
  BY <1>5, SendFailsInv
<1>6. CASE RefreshFindsClosed
  BY <1>6, RefreshFindsClosedInv
<1>7. CASE ReadFails
  BY <1>7, ReadFailsInv
<1>8. CASE ReadHeaderRejected
  BY <1>8, ReadHeaderRejectedInv
<1>9. CASE ReadHeader
  BY <1>9, ReadHeaderInv
<1>10. CASE ReadPayload
  BY <1>10, ReadPayloadInv
<1>11. CASE ChainAnswers
  BY <1>11, ChainAnswersInv
<1>12. QED
  BY <1>1, <1>2, <1>3, <1>4, <1>5, <1>6, <1>7, <1>8, <1>9, <1>10, <1>11
     DEF Next

\* The type invariant and the inductive invariant hold together: the stream,
\* the RPC lock and the presented state agree on where the call is.
THEOREM SessionInvariant == Spec => [](TypeOK /\ SessionInv)
<1>1. Init => TypeOK /\ SessionInv
  BY InitInv
<1>2. TypeOK /\ SessionInv /\ [Next]_vars => TypeOK' /\ SessionInv'
  BY NextInv
<1>3. QED
  BY <1>1, <1>2, PTL DEF Spec

\* The connection record, the stream and the presented state keep their types;
\* in particular no lock is given back that is not held.
THEOREM TypeCorrect == Spec => []TypeOK
  BY SessionInvariant, PTL

\* A call succeeds only on the answer to its own request, whatever an earlier
\* call left on the stream.
THEOREM AnswersAreOwn == Spec => []OwnAnswer
<1>1. SessionInv => OwnAnswer
  BY DEF SessionInv
<1>2. QED
  BY <1>1, SessionInvariant, PTL

\* A session without contamination is free, empty and usable between calls.
THEOREM SessionsIdleClean == Spec => []IdleSessionClean
<1>1. TypeOK /\ SessionInv => IdleSessionClean
  <2>1. SUFFICES ASSUME TypeOK, SessionInv, call.pc = "idle", conn.connected,
                        ~Stale
                 PROVE  conn.mutex /\ Unlocked
    BY DEF IdleSessionClean, Unlocked
  <2>2. inbound = <<>>
    BY <2>1 DEF Stale
  <2>3. QED
    BY <2>1, <2>2, EmptySeq DEF SessionInv, IdleInv
<1>2. QED
  BY <1>1, SessionInvariant, PTL

\* The RPC lock is held from the request to the end of its answer.
THEOREM ExchangesLocked == Spec => []LockCoversExchange
<1>1. TypeOK /\ SessionInv => LockCoversExchange
  BY DEF SessionInv, LockCoversExchange, HeaderInv, PayloadInv, ClosedInv,
         Locked
<1>2. QED
  BY <1>1, SessionInvariant, PTL

\* The lock and the exchange begin and end together.
THEOREM LockFollows == Spec => []LockFollowsExchange
BY ExchangesLocked, SessionsIdleClean, PTL DEF LockFollowsExchange

\* An open session presents the state of the Chain service it is connected to.
THEOREM OpenSessionsQualified == Spec => []OpenSessionQualified
<1>1. SessionInv => OpenSessionQualified
  BY DEF SessionInv, OpenSessionQualified, IdleInv
<1>2. QED
  BY <1>1, SessionInvariant, PTL

\* Core presents only what the Chain it names has accepted.
THEOREM PresentedStateReal == Spec => []NeverInvented
<1>1. SessionInv => NeverInvented
  BY DEF SessionInv, NeverInvented, KnownInv
<1>2. QED
  BY <1>1, SessionInvariant, PTL

-----------------------------------------------------------------------------
(* Action properties and the refinement of RpcChannel.                     *)

\* A failed or refused call presents what was presented before, or nothing,
\* and nothing only when it also closes the session.
LEMMA UnsuccessfulFacts ==
  ASSUME TypeOK, NEW c \in ConnType, c.active => c.holds > 0, NEW rest,
         CallFails(c, rest) \/ CallRefused(c, rest)
  PROVE  /\ known' \in {known, Cleared}
         /\ conn'.connected => known' = known
         /\ call'.pc = "idle"
         /\ ~c.connected => ~conn'.connected
<1>1. call.kind \in KindType
  BY DEF TypeOK, CallType
<1>2. CASE CallFails(c, rest)
  <2>1. /\ ~c.connected => ~SessionAfterError(call.kind, c).connected
        /\ call.kind.onError # "keep" =>
             ~SessionAfterError(call.kind, c).connected
    BY <1>1, SessionAfterErrorFacts
  <2>2. QED
    BY <1>2, <2>1 DEF CallFails, Settle, ClosesOnError, EndCall, Idle
<1>3. CASE CallRefused(c, rest) /\ call.kind.onError = "retire"
  BY <1>3 DEF CallRefused, Settle, EndCall, Idle
<1>4. QED
  BY <1>2, <1>3 DEF CallRefused

\* Reading a header: the stream was the answer to this call.
LEMMA ReadHeaderStep ==
  ASSUME TypeOK, SessionInv, ReadHeader
  PROVE  /\ conn.connected /\ ~Stale /\ at' = at
         /\ known' \in {known, Cleared}
         /\ conn'.connected => known' = known
<1> DEFINE seg == Head(inbound)
           c == ReceiveHeader(conn, seg.length)
<1>1. call.pc = "header" /\ inbound # <<>> /\ seg.part = "header" /\ at' = at
  BY DEF ReadHeader
<1>2. seg.for = call.serial /\ seg \in Segment
  BY <1>1, HeaderFirst DEF AnswerFrom
<1>3. conn \in ConnType /\ conn.active /\ conn.holds > 0 /\ conn.connected
      /\ seg.length \in Lengths
  BY <1>1, <1>2 DEF TypeOK, SessionInv, HeaderInv, ClosedInv, Locked, Segment
<1>4. c \in ConnType /\ (c.active => c.holds > 0)
  BY <1>3, ReceiveHeaderFacts
<1>5. ~Stale
  BY <1>1, <1>2 DEF Stale
<1> HIDE DEF seg, c
<1>6. \/ known' = known
      \/ \E rest : CallFails(c, rest) \/ CallRefused(c, rest)
  BY DEF ReadHeader, seg, c
<1>7. QED
  BY <1>1, <1>3, <1>4, <1>5, <1>6, UnsuccessfulFacts

\* Reading a payload: the call ends, and what is learned is its own.
LEMMA ReadPayloadStep ==
  ASSUME TypeOK, SessionInv, ReadPayload
  PROVE  /\ conn.connected /\ ~Stale /\ at' = at
         /\ \/ /\ known' \in {known, Cleared}
               /\ conn'.connected => known' = known
            \/ /\ conn'.connected /\ ~Stale'
               /\ known' = Learn(call.kind, inbound[1].tip)
               /\ call.kind.learns # "all" =>
                    known.available /\ known.chain = at
               /\ inbound[1].tip \in Nat
               /\ known.available /\ known.chain = at =>
                    known.tip <= inbound[1].tip
<1> DEFINE seg == Head(inbound)
           rest == Tail(inbound)
           c == ReceivePayload(conn, call.expect)
<1>1. call.pc = "payload" /\ inbound # <<>> /\ at' = at
  BY DEF ReadPayload
<1>2. /\ conn.active /\ conn.holds = 1 /\ conn.remaining = call.expect
      /\ Len(inbound) = 1 /\ OwnPayload(inbound[1], call.expect)
  BY <1>1 DEF SessionInv, PayloadInv, Locked
<1>3. conn \in ConnType /\ conn.connected /\ inbound \in Seq(Segment)
  BY <1>1 DEF TypeOK, SessionInv, ClosedInv
<1>4. c \in ConnType /\ c.connected /\ ~c.active
  BY <1>2, <1>3, ReceivePayloadFacts
<1>5. seg \in Segment /\ seg = inbound[1] /\ rest = <<>>
  BY <1>2, <1>3, OneSegment
<1>6. /\ ~Stale /\ inbound[1].tip \in Nat
      /\ known.available /\ known.chain = at => known.tip <= inbound[1].tip
  BY <1>1, <1>2, <1>5 DEF Stale, OwnPayload, Segment
<1>7. call.kind.learns # "all" => known.available /\ known.chain = at
  BY <1>1, QualifyFacts DEF SessionInv, ExchangeInv
<1> HIDE DEF seg, rest, c
<1>8. CASE CallRefused(c, rest)
  BY <1>1, <1>3, <1>4, <1>6, <1>8, UnsuccessfulFacts
<1>9. CASE /\ CallSucceeds(c, rest, result.header, seg.for)
           /\ known' = Learn(call.kind, seg.tip)
  <2>1. conn'.connected /\ inbound' = <<>>
    BY <1>4, <1>5, <1>9 DEF CallSucceeds, Settle
  <2>2. ~Stale'
    BY <2>1 DEF Stale
  <2>3. QED
    BY <1>1, <1>3, <1>5, <1>6, <1>7, <1>9, <2>1, <2>2
<1>10. QED
  BY <1>4, <1>8, <1>9 DEF ReadPayload, seg, rest, c

\* The other actions present what was presented before, or nothing.
LEMMA KnownStep ==
  ASSUME TypeOK, SessionInv, [Next]_vars, ~ReadPayload
  PROVE  known' \in {known, Cleared}
<1>1. CASE ReadHeader
  BY <1>1, ReadHeaderStep
<1>2. CASE ~ReadHeader
  BY <1>2
     DEF Next, vars, ConnectPeer, ChainAdvances, SendRequest, SendFails,
         RefreshFindsClosed, ReadFails, ReadHeaderRejected, ChainAnswers,
         CallFails
<1>3. QED
  BY <1>1, <1>2

\* The presented state of one Chain never goes back.
THEOREM PresentedStateNeverGoesBack == Spec => PresentedStateMonotone
<1> DEFINE A == known.available /\ known'.available /\ known'.chain = known.chain
                  => known'.tip >= known.tip
<1>1. ASSUME TypeOK, SessionInv, [Next]_vars PROVE A
  <2>1. known.tip \in Nat /\ ~Cleared.available
    BY <1>1, ClearedFacts DEF TypeOK, KnownType
  <2>2. CASE known' \in {known, Cleared}
    BY <2>1, <2>2
  <2>3. CASE /\ ReadPayload
             /\ known' = Learn(call.kind, inbound[1].tip)
             /\ call.kind.learns # "all" => known.available /\ known.chain = at
             /\ inbound[1].tip \in Nat
             /\ known.available /\ known.chain = at =>
                  known.tip <= inbound[1].tip
    <3>1. CASE call.kind.learns = "all"
      BY <2>1, <2>3, <3>1 DEF Learn
    <3>2. CASE call.kind.learns = "tip"
      BY <2>1, <2>3, <3>2 DEF Learn
    <3>3. CASE call.kind.learns = "nothing"
      BY <2>1, <2>3, <3>3 DEF Learn
    <3>4. QED
      BY <1>1, <3>1, <3>2, <3>3 DEF TypeOK, CallType, KindType
  <2>4. QED
    BY <1>1, <2>2, <2>3, ReadPayloadStep, KnownStep
<1>2. TypeOK /\ SessionInv /\ [Next]_vars => [A]_vars
  BY <1>1
<1>3. QED
  BY <1>2, SessionInvariant, PTL DEF Spec, PresentedStateMonotone

\* A call on a contaminated session closes it.
THEOREM ContaminationNeverSurvives == Spec => ContaminationClosesNextCall
<1> DEFINE A == Stale /\ call.pc = "header" /\ call'.pc # "header"
                  => ~conn'.connected /\ call'.pc = "idle"
<1>1. ASSUME TypeOK, SessionInv, [Next]_vars PROVE A
  <2>1. SUFFICES ASSUME Stale, call.pc = "header", call'.pc # "header"
                 PROVE  ~conn'.connected /\ call'.pc = "idle"
    OBVIOUS
  <2>2. ~ReadHeader
    BY <1>1, <2>1, ReadHeaderStep
  <2>3. ReadFails \/ ReadHeaderRejected
    BY <1>1, <2>1, <2>2
       DEF Next, vars, ConnectPeer, ChainAdvances, SendRequest, SendFails,
           BeginCall, RefreshFindsClosed, ReadPayload, ChainAnswers
  <2>4. CallFails(NetworkFail(conn), <<>>)
    BY <2>3 DEF ReadFails, ReadHeaderRejected
  <2>5. conn \in ConnType /\ conn.holds > 0
    BY <1>1, <2>1 DEF TypeOK, SessionInv, HeaderInv, Locked
  <2>6. /\ NetworkFail(conn) \in ConnType
        /\ ~NetworkFail(conn).connected /\ ~NetworkFail(conn).active
    BY <2>5, NetworkFailFacts
  <2> DEFINE closed == NetworkFail(conn)
  <2> HIDE DEF closed
  <2>7. closed \in ConnType /\ ~closed.connected /\ ~closed.active
        /\ CallFails(closed, <<>>)
    BY <2>4, <2>6 DEF closed
  <2>8. QED
    BY <1>1, <2>7, UnsuccessfulFacts
<1>2. TypeOK /\ SessionInv /\ [Next]_vars => [A]_vars
  BY <1>1
<1>3. QED
  BY <1>2, SessionInvariant, PTL DEF Spec, ContaminationClosesNextCall

-----------------------------------------------------------------------------
(* Every step of the session is a step of the channel, or none.            *)

\* A session that is closed after a step was dropped.
LEMMA DropStep ==
  ASSUME ~conn'.connected, known' \in {known, Cleared}, at' = at
  PROVE  Channel!Drop
  BY DEF Channel!Drop, Channel!Cleared, Cleared

\* A clean session that presents the same state, or was closed.
LEMMA CleanStep ==
  ASSUME conn.connected, ~Stale, known' \in {known, Cleared}, at' = at,
         conn'.connected => known' = known
  PROVE  [Channel!Next]_Channel!vars
<1>1. CASE ~conn'.connected
  BY <1>1, DropStep DEF Channel!Next
<1>2. CASE conn'.connected /\ Stale'
  <2>1. Channel!Abandon
    BY <1>2 DEF Channel!Abandon
  <2>2. QED
    BY <2>1 DEF Channel!Next
<1>3. CASE conn'.connected /\ ~Stale'
  BY <1>3 DEF Channel!vars
<1>4. QED
  BY <1>1, <1>2, <1>3

LEMMA ChannelLearns ==
  ASSUME TypeOK, SessionInv, ReadPayload
  PROVE  [Channel!Next]_Channel!vars
<1>1. CASE /\ known' \in {known, Cleared}
           /\ conn'.connected => known' = known
  BY <1>1, ReadPayloadStep, CleanStep
<1>2. CASE /\ conn'.connected /\ ~Stale'
           /\ known' = Learn(call.kind, inbound[1].tip)
           /\ call.kind.learns # "all" => known.available /\ known.chain = at
           /\ inbound[1].tip \in Nat
           /\ known.available /\ known.chain = at => known.tip <= inbound[1].tip
  <2>1. conn.connected /\ ~Stale /\ at' = at /\ known \in KnownType
    BY ReadPayloadStep DEF TypeOK
  <2>2. CASE call.kind.learns \in {"all", "tip"}
    <3>1. known' = [available |-> TRUE, chain |-> at, tip |-> inbound[1].tip]
      BY <1>2, <2>1, <2>2 DEF Learn
    <3>2. Channel!Learn
      BY <1>2, <2>1, <3>1 DEF Channel!Learn, Channel!Newer, KnownType
    <3>3. QED
      BY <3>2 DEF Channel!Next
  <2>3. CASE call.kind.learns = "nothing"
    BY <1>2, <2>1, <2>3, CleanStep DEF Learn
  <2>4. QED
    BY <2>2, <2>3 DEF TypeOK, CallType, KindType
<1>3. QED
  BY <1>1, <1>2, ReadPayloadStep

\* The answer of Chain arrives behind what is already on the stream.
LEMMA ChannelAnswers ==
  ASSUME TypeOK, SessionInv, ChainAnswers
  PROVE  UNCHANGED Channel!vars
<1>1. /\ request.pending /\ UNCHANGED <<conn, at, known, call>>
      /\ inbound \in Seq(Segment)
  BY DEF ChainAnswers, TypeOK
<1>2. call.pc = "header" /\ conn.connected
      /\ (inbound = <<>> \/ (Len(inbound) = 1 /\ LeftOver))
  <2>1. conn.connected /\ call.pc \notin {"idle", "qualify", "payload"}
    BY <1>1 DEF SessionInv, ClosedInv, IdleInv, QualifyInv, PayloadInv
  <2>2. call.pc = "header"
    BY <2>1 DEF TypeOK, CallType
  <2>3. QED
    BY <1>1, <2>1, <2>2 DEF SessionInv, HeaderInv
<1>3. TypeOK' /\ SessionInv' /\ (LeftOver' <=> LeftOver) /\ ~request'.pending
  BY ChainAnswersInv DEF ChainAnswers, NoRequest
<1>4. AnswerFrom(1)' \/ (LeftOver' /\ AnswerFrom(2)')
  BY <1>1, <1>2, <1>3 DEF SessionInv, HeaderInv
<1>5. inbound' \in Seq(Segment) /\ inbound' # <<>>
  BY <1>3, <1>4, EmptySeq DEF TypeOK, AnswerFrom
<1>6. Stale' <=> LeftOver'
  <2>1. Head(inbound') = inbound'[1]
    BY <1>5
  <2>2. QED
    BY <1>1, <1>2, <1>4, <1>5, <2>1 DEF Stale, LeftOver, AnswerFrom
<1>7. Stale <=> LeftOver
  <2>1. CASE inbound = <<>>
    BY <2>1, EmptySeq DEF Stale, LeftOver
  <2>2. CASE Len(inbound) = 1 /\ LeftOver
    <3>1. Head(inbound) = inbound[1] /\ inbound # <<>>
      BY <1>1, <2>2, OneSegment, EmptySeq
    <3>2. QED
      BY <1>2, <2>2, <3>1 DEF Stale, LeftOver
  <2>3. QED
    BY <1>2, <2>1, <2>2
<1>8. QED
  BY <1>1, <1>2, <1>3, <1>6, <1>7 DEF Channel!vars

LEMMA ChannelStep ==
  ASSUME TypeOK, SessionInv, [Next]_vars
  PROVE  [Channel!Next]_Channel!vars
<1>1. CASE UNCHANGED vars
  BY <1>1 DEF vars, Channel!vars, Stale
<1>2. ASSUME NEW c \in Chains, ConnectPeer(c)
      PROVE  [Channel!Next]_Channel!vars
  <2>1. /\ call.pc = "idle" /\ ~conn.connected /\ inbound' = <<>>
        /\ known' = known
    BY <1>2 DEF ConnectPeer, SessionInv, ClosedInv
  <2>2. CASE conn' = NetworkConnect /\ at' = c
    <3>1. conn'.connected /\ ~Stale'
      BY <2>1, <2>2 DEF NetworkConnect, Connection, Stale
    <3>2. Channel!Open(c)
      BY <2>1, <2>2, <3>1 DEF Channel!Open
    <3>3. QED
      BY <3>2 DEF Channel!Next
  <2>3. CASE conn' = NetworkDisconnect(conn) /\ at' = at
    <3>1. ~conn'.connected
      BY <2>3 DEF NetworkDisconnect, Connection
    <3>2. QED
      BY <2>1, <2>3, <3>1 DEF Channel!vars
  <2>4. QED
    BY <1>2, <2>2, <2>3 DEF ConnectPeer
<1>3. ASSUME NEW c \in Chains, ChainAdvances(c)
      PROVE  [Channel!Next]_Channel!vars
  BY <1>3 DEF ChainAdvances, Channel!vars, Stale
<1>4. ASSUME NEW kind \in Kinds \cup {Qualify}, SendRequest(kind)
      PROVE  [Channel!Next]_Channel!vars
  <2>1. /\ UNCHANGED <<at, inbound, known>>
        /\ conn' = NetworkSend(conn)
        /\ call'.pc = "header" /\ call'.serial = NextSerial(call.serial)
        /\ BeginCall(kind)
    BY <1>4 DEF SendRequest
  <2>2. conn.connected /\ conn'.connected
    BY <1>4, <2>1, BeginCallFacts DEF NetworkSend, Connection
  <2>3. Stale' <=> Stale
    <3>1. CASE inbound = <<>>
      BY <2>1, <3>1 DEF Stale
    <3>2. CASE inbound # <<>>
      <4>1. Len(inbound) = 1 /\ inbound[1].for = call.serial
        BY <1>4, <2>1, <3>2, BeginCallFacts
      <4>2. Head(inbound).for = call.serial
        BY <4>1, OneSegment DEF TypeOK
      <4>3. call'.serial # call.serial
        BY <2>1, NextSerialFacts DEF TypeOK, CallType
      <4>4. call.pc \in {"idle", "qualify"}
        BY <1>4, <2>1, BeginCallFacts
      <4>5. QED
        BY <2>1, <3>2, <4>2, <4>3, <4>4 DEF Stale
    <3>3. QED
      BY <3>1, <3>2
  <2>4. QED
    BY <2>1, <2>2, <2>3 DEF Channel!vars
<1>5. ASSUME NEW kind \in Kinds \cup {Qualify}, SendFails(kind)
      PROVE  [Channel!Next]_Channel!vars
  <2> DEFINE sent == NetworkFail(NetworkSend(conn))
  <2>1. conn \in ConnType /\ kind \in KindType
    BY KindsTyped DEF TypeOK
  <2>2. NetworkSend(conn) \in ConnType /\ NetworkSend(conn).holds > 0
    BY <2>1 DEF NetworkSend, Connection, ConnType, Lengths
  <2>3. sent \in ConnType /\ ~sent.connected /\ ~sent.active
    BY <2>2, NetworkFailFacts
  <2> HIDE DEF sent
  <2>4. ~SessionAfterError(kind, sent).connected
    BY <2>1, <2>3, SessionAfterErrorFacts
  <2>5. ~conn'.connected /\ known' \in {known, Cleared} /\ at' = at
    BY <1>5, <2>4 DEF SendFails, Settle, sent
  <2>6. QED
    BY <2>5, DropStep DEF Channel!Next
<1>6. CASE RefreshFindsClosed
  <2>1. ~conn'.connected /\ known' \in {known, Cleared} /\ at' = at
    BY <1>6 DEF RefreshFindsClosed
  <2>2. QED
    BY <2>1, DropStep DEF Channel!Next
<1>7. CASE ReadFails \/ ReadHeaderRejected
  <2> DEFINE closed == NetworkFail(conn)
  <2>1. /\ CallFails(closed, <<>>) /\ at' = at
        /\ call.pc \in {"header", "payload"}
    BY <1>7 DEF ReadFails, ReadHeaderRejected
  <2>2. conn \in ConnType /\ conn.holds > 0
    BY <2>1 DEF TypeOK, SessionInv, HeaderInv, PayloadInv, Locked
  <2>3. closed \in ConnType /\ ~closed.connected /\ ~closed.active
    BY <2>2, NetworkFailFacts
  <2> HIDE DEF closed
  <2>4. ~conn'.connected /\ known' \in {known, Cleared}
    BY <2>1, <2>3, UnsuccessfulFacts
  <2>5. QED
    BY <2>1, <2>4, DropStep DEF Channel!Next
<1>8. CASE ReadHeader
  BY <1>8, ReadHeaderStep, CleanStep
<1>9. CASE ReadPayload
  BY <1>9, ChannelLearns
<1>10. CASE ChainAnswers
  BY <1>10, ChannelAnswers
<1>11. QED
  BY <1>1, <1>2, <1>3, <1>4, <1>5, <1>6, <1>7, <1>8, <1>9, <1>10 DEF Next

\* The session implements the channel: accepted state is learned from a clean
\* link to the Chain service it is attributed to, and a link with an answer
\* left on it does nothing until it is dropped.
THEOREM SessionImplementsChannel == Spec => ImplementsChannel
<1>1. Init => Channel!Init
  BY DEF Init, Channel!Init, Unconnected, Connection, Cleared, Channel!Cleared
<1>2. TypeOK /\ SessionInv /\ [Next]_vars => [Channel!Next]_Channel!vars
  BY ChannelStep
<1>3. QED
  BY <1>1, <1>2, SessionInvariant, PTL DEF Spec, ImplementsChannel, Channel!Spec
=============================================================================
