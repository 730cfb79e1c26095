----------------------------- MODULE RpcSession -----------------------------
(***************************************************************************)
(* The STNC RPC session between Core and its configured Chain service:     *)
(* the connection record of stnc_network.c and every call of stnc_core.c   *)
(* that uses it.  One owner thread makes the calls, one after another; the *)
(* concurrency is with the Chain service, whose answers travel through a   *)
(* byte stream that survives from one call to the next.                    *)
(*                                                                         *)
(* A frame is a header segment followed, when its length is not zero, by   *)
(* one payload segment.  Lengths are classes: 0 is an empty payload, 1 the *)
(* length the called method expects, 2 any other length.  Chain payloads   *)
(* never begin with the four bytes "STNC", so a header-sized read that     *)
(* starts inside a payload never passes the magic check.                   *)
(***************************************************************************)
EXTENDS Naturals, Sequences

CONSTANTS
  Chains,     \* Chain services the configuration can point at
  NoChain,    \* the all-zero network and genesis identifiers
  Shapes,     \* the reply headers a Chain service can produce
  MaxTip      \* bound: accepted states each Chain goes through

Codes == {"OK", "STALE", "CURRENT", "ERROR"}
Lengths == 0..2
ReplyShape == [code : Codes, length : Lengths, echo : BOOLEAN]

ASSUME ChainsAssumption == NoChain \notin Chains
ASSUME ShapesAssumption == Shapes \subseteq ReplyShape
ASSUME MaxTipAssumption == MaxTip \in Nat

VARIABLES
  conn,       \* stnc_network_connection chain_connection
  at,         \* the Chain service behind the socket
  request,    \* the request the service has not answered yet
  inbound,    \* segments on their way to Core, oldest first
  chainTip,   \* accepted state number of each Chain
  known,      \* stnc_core_chain_state chain_state
  call,       \* the call the owner thread is in
  result      \* what the last finished call was made of

vars == <<conn, at, request, inbound, chainTip, known, call, result>>

-----------------------------------------------------------------------------
(* What each call of stnc_core.c asks of its reply.                        *)
(*   lengths  payload lengths accepted with OK                             *)
(*   empty    codes that are results of their own with an empty payload    *)
(*   alloc    the payload buffer is allocated after the header was read    *)
(*   onError  what the code does to the session when the call fails        *)
(*   learns   what a decoded payload changes in chain_state                *)

CallKind(lengths, empty, alloc, onError, learns) ==
  [lengths |-> lengths, empty |-> empty, alloc |-> alloc,
   onError |-> onError, learns |-> learns]

Plain == CallKind({1}, {}, FALSE, "keep", "nothing")
Submission == CallKind({1}, {}, FALSE, "keep", "tip")

Qualify == CallKind({1}, {}, FALSE, "close", "all")
RefreshChainState == CallKind({1}, {}, FALSE, "closeIfOpen", "all")
AddressQuery == CallKind({1}, {}, FALSE, "retire", "nothing")
DeriveAddress == Plain
Pending == Plain
MiningContext == Plain
CheckWorkBase == CallKind({1}, {"STALE"}, FALSE, "keep", "nothing")
MiningTemplate == CallKind({1}, {}, TRUE, "keep", "nothing")
SubmitWork == Submission
SubmitBlockEvidence == Submission
SubmitHistoryEvidence == CallKind({1}, {}, TRUE, "keep", "tip")
SubmitSuffixEvidence == CallKind({1}, {"CURRENT"}, TRUE, "keep", "tip")
SubmitTransaction == Plain
ChainBlock == CallKind({1}, {}, TRUE, "keep", "nothing")
StageControl == CallKind({0}, {}, FALSE, "keep", "nothing")
StageCommit == CallKind({1}, {"CURRENT"}, TRUE, "keep", "tip")
StageAbort == CallKind({}, {}, FALSE, "keep", "nothing")

Kinds == {RefreshChainState, AddressQuery, DeriveAddress, Pending,
          MiningContext, CheckWorkBase, MiningTemplate, SubmitWork,
          SubmitBlockEvidence, SubmitHistoryEvidence, SubmitSuffixEvidence,
          SubmitTransaction, ChainBlock, StageControl, StageCommit, StageAbort}

KindType ==
  [lengths : SUBSET Lengths, empty : SUBSET Codes, alloc : BOOLEAN,
   onError : {"keep", "retire", "close", "closeIfOpen"},
   learns : {"nothing", "tip", "all"}]

-----------------------------------------------------------------------------
(* The connection record and the functions of stnc_network.c on it.        *)
(* holds counts the acquisitions of the recursive critical section.        *)

ConnType ==
  [connected : BOOLEAN, mutex : BOOLEAN, holds : Nat, active : BOOLEAN,
   remaining : Lengths]

Connection(connected, mutex, holds, active, remaining) ==
  [connected |-> connected, mutex |-> mutex, holds |-> holds,
   active |-> active, remaining |-> remaining]

Unconnected == Connection(FALSE, FALSE, 0, FALSE, 0)

ReleaseRpc(c) ==
  IF c.active THEN Connection(c.connected, c.mutex, c.holds - 1, FALSE, 0) ELSE c

\* Fault: the lock is given back and the socket kept.
FailKeepsSocket(c) == ReleaseRpc(c)

NetworkFail(c) == ReleaseRpc([c EXCEPT !.connected = FALSE])

\* The critical section is destroyed, whether it is held or not.
NetworkDisconnect(c) ==
  Connection(FALSE, FALSE, 0, FALSE, NetworkFail(c).remaining)

NetworkConnect == Connection(TRUE, TRUE, 0, FALSE, 0)

NetworkSend(c) == Connection(c.connected, c.mutex, c.holds + 1, TRUE, 0)

\* A header of the right magic was read while an RPC is active.
ReceiveHeader(c, length) ==
  LET taken == [c EXCEPT !.remaining = length]
  IN  IF length = 0 THEN ReleaseRpc(taken) ELSE taken

\* Fault: the last byte of the payload does not give the lock back.
ReceivePayloadKeepsLock(c, length) ==
  IF length > c.remaining THEN NetworkFail(c) ELSE [c EXCEPT !.remaining = @ - length]

\* A payload of the given length was read.
ReceivePayload(c, length) ==
  IF length > c.remaining
  THEN NetworkFail(c)
  ELSE LET taken == [c EXCEPT !.remaining = @ - length]
       IN  IF taken.remaining = 0 THEN ReleaseRpc(taken) ELSE taken

-----------------------------------------------------------------------------
Serials == 0..2   \* names of the last calls, reused in turn
NextSerial(s) == IF s = 2 THEN 0 ELSE s + 1

Header(serial, shape) ==
  [part |-> "header", for |-> serial, code |-> shape.code,
   length |-> shape.length, echo |-> shape.echo, tip |-> 0]
Payload(serial, shape, tip) ==
  [part |-> "payload", for |-> serial, code |-> "OK",
   length |-> shape.length, echo |-> TRUE, tip |-> tip]
Segment ==
  [part : {"header", "payload"}, for : Serials, code : Codes,
   length : Lengths, echo : BOOLEAN, tip : Nat]

Cleared == [available |-> FALSE, chain |-> NoChain, tip |-> 0]
KnownType == [available : BOOLEAN, chain : Chains \cup {NoChain}, tip : Nat]

\* pc: between calls, about to send INFO on a new socket, or blocked in a read
CallType ==
  [pc : {"idle", "qualify", "header", "payload"}, kind : KindType,
   serial : Serials, expect : Lengths]
Idle(serial) ==
  [pc |-> "idle", kind |-> Qualify, serial |-> serial, expect |-> 0]
NoRequest == [pending |-> FALSE, learns |-> "nothing"]
RequestType == [pending : BOOLEAN, learns : {"nothing", "tip", "all"}]
NoResult == [ok |-> FALSE, serial |-> 0, header |-> 0, payload |-> 0]
ResultType ==
  [ok : BOOLEAN, serial : Serials, header : Serials, payload : Serials]

Init ==
  /\ conn = Unconnected
  /\ at \in Chains
  /\ request = NoRequest
  /\ inbound = <<>>
  /\ chainTip = [c \in Chains |-> 0]
  /\ known = Cleared
  /\ call = Idle(0)
  /\ result = NoResult

-----------------------------------------------------------------------------
(* How a call ends.                                                        *)

ClosesOnError(kind) == kind.onError # "keep"

\* The session after a failed call whose transport left it as c.
SessionAfterError(kind, c) ==
  IF \/ kind.onError \in {"close", "retire"}
     \/ kind.onError = "closeIfOpen" /\ c.connected
  THEN NetworkDisconnect(c) ELSE c

\* Fault: what was under way on a closed socket is read on the next one.
SettleKeepsStream(c, rest) ==
  /\ conn' = c
  /\ inbound' = rest \o IF c.connected THEN <<>> ELSE inbound
  /\ request' = IF c.connected THEN request ELSE NoRequest

\* Closing the socket drops whatever was under way on it.
Settle(c, rest) ==
  /\ conn' = c
  /\ inbound' = IF c.connected THEN rest ELSE <<>>
  /\ request' = IF c.connected THEN request ELSE NoRequest

EndCall == call' = Idle(call.serial)

CallFails(c, rest) ==
  /\ Settle(SessionAfterError(call.kind, c), rest)
  /\ known' = IF ClosesOnError(call.kind) THEN Cleared ELSE known
  /\ EndCall
  /\ result' = NoResult

\* An address query that ends on an empty error or on a payload it cannot
\* decode returns without touching the session; other calls do as ever.
CallRefused(c, rest) ==
  IF call.kind.onError = "retire"
  THEN /\ Settle(c, rest)
       /\ EndCall
       /\ result' = NoResult
       /\ UNCHANGED known
  ELSE CallFails(c, rest)

Learn(kind, tip) ==
  CASE kind.learns = "all" -> [available |-> TRUE, chain |-> at, tip |-> tip]
    [] kind.learns = "tip" -> [available |-> TRUE, chain |-> known.chain, tip |-> tip]
    [] OTHER               -> known

CallSucceeds(c, rest, header, payload) ==
  /\ Settle(c, rest)
  /\ EndCall
  /\ result' = [ok |-> TRUE, serial |-> call.serial, header |-> header,
                 payload |-> payload]

-----------------------------------------------------------------------------
(* The owner thread.                                                       *)

\* stnc_core_connect_configured_peer up to its INFO request: the previous
\* connection is disconnected and its record overwritten.
ConnectPeer(c) ==
  /\ call.pc = "idle"
  /\ ~conn.connected
  /\ \/ /\ conn' = NetworkConnect
        /\ at' = c
        /\ call' = [call EXCEPT !.pc = "qualify"]
     \/ /\ conn' = NetworkDisconnect(conn)   \* the connect was refused
        /\ UNCHANGED <<at, call>>
  /\ UNCHANGED <<request, inbound, chainTip, known, result>>

\* Fault: a call gives up when the lock is taken, instead of entering again.
BeginCallWhenFree(kind) ==
  \/ call.pc = "idle" /\ conn.connected /\ conn.holds = 0 /\ kind \in Kinds
  \/ call.pc = "qualify" /\ kind = Qualify

BeginCall(kind) ==
  \/ call.pc = "idle" /\ conn.connected /\ kind \in Kinds
  \/ call.pc = "qualify" /\ kind = Qualify

SendRequest(kind) ==
  /\ BeginCall(kind)
  /\ conn' = NetworkSend(conn)
  /\ request' = [pending |-> TRUE, learns |-> kind.learns]
  /\ call' = [pc |-> "header", kind |-> kind,
               serial |-> NextSerial(call.serial), expect |-> 0]
  /\ result' = NoResult
  /\ UNCHANGED <<at, inbound, chainTip, known>>

\* The socket timeout could not be set or the request not be sent.
SendFails(kind) ==
  /\ BeginCall(kind)
  /\ call' = Idle(NextSerial(call.serial))
  /\ result' = NoResult
  /\ Settle(SessionAfterError(kind, NetworkFail(NetworkSend(conn))), <<>>)
  /\ known' = IF ClosesOnError(kind) THEN Cleared ELSE known
  /\ UNCHANGED <<at, chainTip>>

\* The periodic refresh finds the socket closed by an earlier call of the tick.
RefreshFindsClosed ==
  /\ call.pc = "idle"
  /\ ~conn.connected
  /\ known' = Cleared
  /\ UNCHANGED <<conn, at, request, inbound, chainTip, call, result>>

\* Fault: only the reads of payloads have a timeout.
ReadFailsInPayload ==
  /\ call.pc = "payload"
  /\ CallFails(NetworkFail(conn), <<>>)
  /\ UNCHANGED <<at, chainTip>>

\* A read times out, or the service closed the socket.
ReadFails ==
  /\ call.pc \in {"header", "payload"}
  /\ CallFails(NetworkFail(conn), <<>>)
  /\ UNCHANGED <<at, chainTip>>

\* The header-sized read meets bytes without the magic.
ReadHeaderRejected ==
  /\ call.pc = "header"
  /\ inbound # <<>>
  /\ Head(inbound).part # "header"
  /\ CallFails(NetworkFail(conn), <<>>)
  /\ UNCHANGED <<at, chainTip>>

ReadHeader ==
  /\ call.pc = "header"
  /\ inbound # <<>>
  /\ Head(inbound).part = "header"
  /\ LET seg == Head(inbound)
         rest == Tail(inbound)
         c == ReceiveHeader(conn, seg.length)
         kind == call.kind
         wanted == seg.echo /\ seg.code = "OK" /\ seg.length \in kind.lengths
     IN  \/ /\ seg.echo
            /\ seg.length = 0
            /\ seg.code \in kind.empty \/ wanted
            /\ CallSucceeds(c, rest, seg.for, seg.for)
            /\ UNCHANGED known
         \/ /\ seg.echo
            /\ seg.length = 0
            /\ seg.code # "OK"
            /\ seg.code \notin kind.empty
            /\ CallRefused(c, rest)
         \/ /\ \/ ~wanted /\ ~(seg.echo /\ seg.length = 0 /\ seg.code # "OK")
               \/ wanted /\ seg.length # 0 /\ kind.alloc   \* malloc failed
            /\ CallFails(c, rest)
         \/ /\ wanted
            /\ seg.length # 0
            /\ conn' = c
            /\ inbound' = rest
            /\ call' = [call EXCEPT !.pc = "payload", !.expect = seg.length]
            /\ result' = [NoResult EXCEPT !.header = seg.for]
            /\ UNCHANGED <<request, known>>
  /\ UNCHANGED <<at, chainTip>>

ReadPayload ==
  /\ call.pc = "payload"
  /\ inbound # <<>>
  /\ LET seg == Head(inbound)
         c == ReceivePayload(conn, call.expect)
     IN  IF ~c.connected
         THEN CallFails(c, <<>>)
         ELSE \/ CallRefused(c, Tail(inbound))   \* the contents do not decode
              \/ /\ CallSucceeds(c, Tail(inbound), result.header, seg.for)
                 /\ known' = Learn(call.kind, seg.tip)
  /\ UNCHANGED <<at, chainTip>>

-----------------------------------------------------------------------------
(* The Chain service, external.                                            *)

\* The service answers the request; accepted evidence advances its state.
ChainAnswers ==
  /\ request.pending
  /\ \E shape \in Shapes :
       LET advance == /\ request.learns = "tip"
                      /\ shape.code = "OK"
                      /\ chainTip[at] < MaxTip
           tip == IF advance THEN chainTip[at] + 1 ELSE chainTip[at]
       IN  /\ chainTip' = [chainTip EXCEPT ![at] = tip]
           /\ inbound' = inbound \o
                (IF shape.length = 0
                 THEN <<Header(call.serial, shape)>>
                 ELSE <<Header(call.serial, shape),
                        Payload(call.serial, shape, tip)>>)
  /\ request' = NoRequest
  /\ UNCHANGED <<conn, at, known, call, result>>

\* Other clients and peers, and requests whose socket is gone, advance a Chain.
ChainAdvances(c) ==
  /\ chainTip[c] < MaxTip
  /\ chainTip' = [chainTip EXCEPT ![c] = @ + 1]
  /\ UNCHANGED <<conn, at, request, inbound, known, call, result>>

Next ==
  \/ \E c \in Chains : ConnectPeer(c) \/ ChainAdvances(c)
  \/ \E kind \in Kinds \cup {Qualify} : SendRequest(kind) \/ SendFails(kind)
  \/ RefreshFindsClosed
  \/ ReadFails
  \/ ReadHeaderRejected
  \/ ReadHeader
  \/ ReadPayload
  \/ ChainAnswers

Spec == Init /\ [][Next]_vars

\* Reads end within the socket timeout, the INFO request follows the connect,
\* and the tick sends INFO every ten seconds on a connection it finds open.
Fairness ==
  /\ WF_vars(ReadFails)
  /\ WF_vars(SendRequest(Qualify) \/ SendFails(Qualify))
  /\ WF_vars(SendRequest(RefreshChainState) \/ SendFails(RefreshChainState))

FairSpec == Spec /\ Fairness

-----------------------------------------------------------------------------
(* Properties.                                                             *)

\* Every variable keeps its type.
TypeOK ==
  /\ conn \in ConnType
  /\ at \in Chains
  /\ request \in RequestType
  /\ inbound \in Seq(Segment)
  /\ chainTip \in [Chains -> Nat]
  /\ known \in KnownType
  /\ call \in CallType
  /\ result \in ResultType

\* The oldest segment on its way belongs to a call that is over.
Stale ==
  /\ inbound # <<>>
  /\ call.pc \in {"idle", "qualify"} \/ Head(inbound).for # call.serial

\* A call succeeds only on the header and the payload that Chain sent in
\* answer to that very call, also after an earlier call left its payload
\* unread on the stream (stnc_network_receive, magic and length checks).
OwnAnswer ==
  result.ok => /\ result.header = result.serial
               /\ result.payload = result.serial

\* Between two calls a session whose stream is not contaminated holds no lock,
\* expects no payload and has a live critical section: the next call neither
\* blocks nor misreads (stnc_network_send, stnc_network_release_rpc).
IdleSessionClean ==
  call.pc = "idle" /\ conn.connected /\ ~Stale =>
    conn.mutex /\ conn.holds = 0 /\ ~conn.active /\ conn.remaining = 0

\* Once a call is between its request and the end of its answer, the session
\* holds the RPC lock: a second request cannot be sent into the exchange.
LockCoversExchange ==
  call.pc \in {"header", "payload"} =>
    conn.mutex /\ conn.active /\ conn.holds > 0

\* The lock follows the exchange over every way a call can end: it is held from
\* the request to the last byte of the answer and free between two calls.
LockFollowsExchange == LockCoversExchange /\ IdleSessionClean

\* While the session stays open between calls, Core presents accepted state,
\* and its network and genesis identifiers are those of the Chain service at
\* the other end: evidence results, which set available without them, are
\* never written over cleared identifiers.
OpenSessionQualified ==
  call.pc = "idle" /\ conn.connected => known.available /\ known.chain = at

\* Presented state was reported by the Chain it is attributed to: never ahead
\* of what that Chain accepted, and never without its identifiers.
NeverInvented ==
  known.available =>
    known.chain \in Chains /\ known.tip <= chainTip[known.chain]

\* The presented state of one Chain never goes back, whatever answers are
\* late, abandoned or lost on the way (accepted states are numbered in the
\* order in which Chain adopts them).
PresentedStateMonotone ==
  [][known.available /\ known'.available /\ known'.chain = known.chain
       => known'.tip >= known.tip]_vars

\* A contaminated stream does not survive the next call: the call reads what
\* was left over, fails and closes the socket.
ContaminationClosesNextCall ==
  [][Stale /\ call.pc = "header" /\ call'.pc # "header"
       => ~conn'.connected /\ call'.pc = "idle"]_vars

\* A read blocked on Chain ends, and the owner thread gets its control back.
CallReturns == call.pc # "idle" ~> call.pc = "idle"

\* A contaminated session is eventually dropped, even when nobody calls: the
\* periodic INFO runs into the left-over bytes.
ContaminationRetired == Stale ~> ~conn.connected

-----------------------------------------------------------------------------
(* The inductive invariant behind the properties.                          *)

\* A segment is the payload of the current call's answer, not older than what
\* Core presents and not newer than what Chain accepted.
OwnPayload(seg, length) ==
  /\ seg.part = "payload" /\ seg.for = call.serial /\ seg.length = length
  /\ seg.tip <= chainTip[at]
  /\ known.available /\ known.chain = at => known.tip <= seg.tip

\* From position i on, the stream is exactly the answer to the current call.
AnswerFrom(i) ==
  /\ Len(inbound) >= i
  /\ inbound[i].part = "header" /\ inbound[i].for = call.serial
  /\ IF inbound[i].length = 0
     THEN Len(inbound) = i
     ELSE Len(inbound) = i + 1 /\ OwnPayload(inbound[i + 1], inbound[i].length)

\* The stream starts with the payload of an earlier call.
LeftOver ==
  /\ Len(inbound) >= 1
  /\ inbound[1].part = "payload"
  /\ call.pc = "header" <=> inbound[1].for # call.serial

Unlocked == conn.holds = 0 /\ ~conn.active /\ conn.remaining = 0
Locked == conn.holds > 0 /\ conn.active

ClosedInv ==
  ~conn.connected =>
    /\ call.pc = "idle" /\ inbound = <<>> /\ ~request.pending /\ ~conn.active
QualifyInv ==
  call.pc = "qualify" =>
    /\ conn.connected /\ Unlocked /\ inbound = <<>> /\ ~request.pending
IdleInv ==
  call.pc = "idle" /\ conn.connected =>
    /\ ~request.pending
    /\ known.available /\ known.chain = at
    /\ \/ inbound = <<>> /\ Unlocked
       \/ Len(inbound) = 1 /\ LeftOver /\ Locked
HeaderInv ==
  call.pc = "header" =>
    /\ Locked /\ conn.remaining = 0
    /\ ~LeftOver => conn.holds = 1
    /\ request.pending => inbound = <<>> \/ (Len(inbound) = 1 /\ LeftOver)
    /\ ~request.pending => AnswerFrom(1) \/ (LeftOver /\ AnswerFrom(2))
PayloadInv ==
  call.pc = "payload" =>
    /\ Locked /\ conn.holds = 1 /\ ~request.pending
    /\ conn.remaining = call.expect /\ call.expect > 0
    /\ Len(inbound) = 1 /\ OwnPayload(inbound[1], call.expect)
    /\ result.header = call.serial
ExchangeInv ==
  call.pc \in {"header", "payload"} =>
    /\ call.kind \in Kinds \cup {Qualify}
    /\ call.kind = Qualify \/ (known.available /\ known.chain = at)
KnownInv ==
  known.available =>
    known.chain \in Chains /\ known.tip <= chainTip[known.chain]

\* What holds between any two steps of the owner thread and of Chain: the
\* stream, the lock and the presented state agree on where the call is.
SessionInv ==
  /\ conn.connected => conn.mutex
  /\ ClosedInv /\ QualifyInv /\ IdleInv /\ HeaderInv /\ PayloadInv
  /\ ExchangeInv /\ KnownInv /\ OwnAnswer

-----------------------------------------------------------------------------
\* The session implements the channel the rest of Core relies on.
Channel ==
  INSTANCE RpcChannel
    WITH link <- IF ~conn.connected THEN "down"
                 ELSE IF Stale THEN "poisoned" ELSE "clean",
         to <- at
ImplementsChannel == Channel!Spec

=============================================================================
