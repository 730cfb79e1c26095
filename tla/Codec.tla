-------------------------------- MODULE Codec --------------------------------
(***************************************************************************)
(* The codecs at work: Core encodes one request after another into buffers *)
(* of any capacity, and decodes answers a service has written by the       *)
(* layouts of the protocol, with any values, cut off, grown or altered.    *)
(***************************************************************************)
EXTENDS StnpCodec

CONSTANTS
  Calls,        \* calls of an encoder
  Capacities,   \* capacities of its buffer
  Answers,      \* values a service writes
  Alterations   \* bytes that take the place of another one

StncOps == {"empty", "work_base", "submit_work", "height", "derive", "address", "transaction",
            "block", "history", "suffix", "begin", "append", "control"}
StnpOps == {"hello", "get_headers", "get_block", "bare"}
StncKinds == {"header", "info", "context", "template", "accepted", "pending", "submission",
              "contract", "balance", "identity", "contract_address", "wallet"}
StnpKinds == {"hello", "state", "headers", "block", "peers", "contracts"}
Framed == StnpKinds \ {"contracts"}
Listed == {"template", "identity", "contract_address", "wallet",
           "headers", "block", "peers", "contracts"}   \* those with rows

LayoutOf(kind) == IF kind \in StnpKinds THEN StnpLayout(kind) ELSE StncLayout(kind)
WrittenAs(a) == Written(LayoutOf(a.kind), a.head, a.rows)

\* Calls have the types of the encoders' parameters.
ASSUME CallsAssumption ==
  \A c \in Calls :
    /\ c \in [op : StncOps \cup StnpOps, id : Nat, method : STRING, data : Seq(Byte),
               blocks : Seq(Seq(Byte)), identity : Seq(Byte),
               parent : Nat, work : Nat, type : Nat, number : Nat, count : Nat]
    /\ c.op = "bare" => c.method \in {"state", "get_peers"}
    /\ Fits(c.id, W64) /\ Fits(c.parent, IdSize) /\ Fits(c.work, IdSize)
    /\ Fits(c.type, W16) /\ Fits(c.count, W32)
    /\ Fits(c.number, IF c.op = "height" THEN W64 ELSE W32)

\* A service writes what a structure of the kind can hold.
ASSUME AnswersAssumption ==
  \A a \in Answers :
    /\ a \in [kind : StncKinds \cup StnpKinds, head : Seq(Nat), rows : Seq(Seq(Nat))]
    /\ Holds(LayoutOf(a.kind).head, a.head)
    /\ \A r \in 1..Len(a.rows) : Holds(LayoutOf(a.kind).row, a.rows[r])
    /\ a.kind \notin Listed => a.rows = <<>>

ASSUME BufferAssumption == Capacities \subseteq Nat /\ Alterations \subseteq Byte

VARIABLES
  pc,        \* idle, answered, header, read
  sent,      \* the last calls and what they put on the wire
  answer,    \* what the service means
  wire,      \* what arrives
  follow,    \* payload bytes the header announces
  decoded    \* the decoder's result

vars == <<pc, sent, answer, wire, follow, decoded>>

NoAnswer == [kind |-> "balance", head |-> <<>>, rows |-> <<>>]

Init ==
  /\ pc = "idle"
  /\ sent = <<>>
  /\ answer = NoAnswer
  /\ wire = <<>>
  /\ follow = 0
  /\ decoded = Rejected

Frame(c, capacity) ==
  IF c.op \in StnpOps THEN EncodeStnp(c, capacity) ELSE EncodeStnc(c, capacity)

Ask(c, capacity) ==
  /\ pc = "idle"
  /\ Len(sent) < 2
  /\ \A i \in 1..Len(sent) : sent[i].capacity = capacity   \* one buffer
  /\ sent' = Append(sent, [call |-> c, capacity |-> capacity, frame |-> Frame(c, capacity)])
  /\ UNCHANGED <<pc, answer, wire, follow, decoded>>

Answer(a) ==
  /\ pc = "idle" /\ sent = <<>>
  /\ answer' = a
  /\ wire' = WrittenAs(a)
  /\ pc' = IF a.kind \in Framed THEN "header" ELSE "answered"
  /\ UNCHANGED <<sent, follow, decoded>>

\* One fault on the way.
Cut == SubSeq(wire, 1, Len(wire) - 1)
Damage ==
  /\ pc \in {"answered", "header"}
  /\ wire = WrittenAs(answer)
  /\ \/ wire' = Cut
     \/ wire' = Append(wire, 0)
     \/ \E i \in 1..Len(wire), b \in Alterations : wire' = [wire EXCEPT ![i] = b]
  /\ UNCHANGED <<pc, sent, answer, follow, decoded>>

\* Read the header first; without as many bytes as it wants the read fails.
ReadHeader ==
  /\ pc = "header"
  /\ follow' = IF Len(wire) < StnpHeaderSize THEN NoLength
               ELSE Follows(answer.kind, SubSeq(wire, 1, StnpHeaderSize))
  /\ pc' = IF follow' = NoLength \/ StnpHeaderSize + follow' > Len(wire) THEN "failed" ELSE "answered"
  /\ wire' = IF pc' = "failed" THEN wire ELSE SubSeq(wire, 1, StnpHeaderSize + follow')
  /\ UNCHANGED <<sent, answer, decoded>>

DecodeOf(kind, b) == IF kind \in StnpKinds THEN DecodeStnp(kind, b) ELSE DecodeStnc(kind, b)

Decode ==
  /\ pc = "answered"
  /\ decoded' = DecodeOf(answer.kind, wire)
  /\ pc' = "read"
  /\ UNCHANGED <<sent, answer, wire, follow>>

\* The next exchange.
Again ==
  /\ pc \in {"read", "failed"} \/ Len(sent) = 2
  /\ pc' = "idle"
  /\ sent' = <<>>
  /\ answer' = NoAnswer
  /\ wire' = <<>>
  /\ follow' = 0
  /\ decoded' = Rejected

Next ==
  \/ \E c \in Calls, n \in Capacities : Ask(c, n)
  \/ \E a \in Answers : Answer(a)
  \/ Damage \/ ReadHeader \/ Decode \/ Again

Spec == Init /\ [][Next]_vars

(***************************************************************************)
(* Properties                                                              *)
(***************************************************************************)
\* Types; and no header makes the caller read more than its buffer holds.
TypeOK ==
  /\ pc \in {"idle", "answered", "header", "read", "failed"}
  /\ \A i \in 1..Len(sent) :
       /\ sent[i].call \in Calls
       /\ sent[i].frame \in Seq(Byte)
  /\ wire \in Seq(Byte)
  /\ follow # NoLength /\ answer.kind \in Framed => follow \in 0..PayloadMax(answer.kind)
  /\ decoded.ok \in BOOLEAN

\* No encoder writes more than its buffer holds, whatever the arguments.
FramesFit == \A i \in 1..Len(sent) : Len(sent[i].frame) <= sent[i].capacity

\* What an encoder reads of a call.
Arguments(op) ==
  CASE op \in {"empty", "control"}                   -> {"id", "method"}
    [] op \in {"work_base", "transaction", "block"}  -> {"id", "data"}
    [] op = "submit_work"                            -> {"id", "parent", "work", "identity", "data"}
    [] op = "height"                                 -> {"id", "number"}
    [] op = "derive"                                 -> {"id", "type", "data"}
    [] op = "address"                                -> {"id", "method", "data"}
    [] op = "history"                                -> {"id", "blocks"}
    [] op \in {"suffix", "append"}                   -> {"id", "number", "blocks"}
    [] op = "begin"                                  -> {"id", "number", "count"}
    [] op = "hello"                                  -> {"parent", "work", "number"}
    [] op = "get_headers"                            -> {"number", "count"}
    [] op = "get_block"                              -> {"number"}
    [] OTHER                                         -> {"method"}   \* bare
SaysTheSame(c, d) == c.op = d.op /\ \A f \in Arguments(c.op) : c[f] = d[f]

\* A frame never exceeds its buffer, and what goes over the stream says what
\* was asked: no frame is that of another call or begins another call's, so a
\* reader that knows only the layouts finds every frame's end and arguments.
Unambiguous ==
  /\ FramesFit
  /\ Len(sent) = 2 =>
       \/ SaysTheSame(sent[1].call, sent[2].call)
       \/ Refused \in {sent[1].frame, sent[2].frame}
       \/ ~IsPrefix(sent[1].frame, sent[2].frame)

Means(v) == [kind |-> answer.kind, head |-> v.head, rows |-> v.rows]
Valid(a) ==
  IF a.kind \in StnpKinds THEN StnpValid(a.kind, a.head, a.rows)
  ELSE StncValid(a.kind, a.head, a.rows)

\* What a decoder accepts is a value the protocol allows, and the bytes are
\* those, all of those and only those that a service writes for it: no field
\* is read from the wrong place, no byte is ignored, nothing out of range or of
\* another length gets through.
AcceptsOnlyWritten ==
  pc = "read" /\ decoded.ok =>
    /\ Valid(Means(decoded))
    /\ WrittenAs(Means(decoded)) = wire

\* An answer that arrives as it was written, and that the protocol allows, is
\* accepted as what the service meant.
AcceptsWritten ==
  pc \in {"read", "failed"} /\ wire = WrittenAs(answer) /\ Valid(answer) =>
    pc = "read" /\ decoded = Decoded(answer.head, answer.rows)
=============================================================================
