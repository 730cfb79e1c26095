------------------------------ MODULE StncCodec ------------------------------
(***************************************************************************)
(* stnc_stnc.c: the requests Core writes and the answers it reads.         *)
(***************************************************************************)
EXTENDS Wire

CONSTANTS
  StncMagic,                   \* the number of the four bytes "STNC"
  Method,                      \* number of each method by name
  SourceMax,                   \* STNC_STNC_DERIVE_SOURCE_MAX
  IdentityLen, TypedLen,       \* lengths of the two kinds of address
  IdentityMark, ContractMark, WalletMark,   \* first byte standing for a prefix
  TransactionMin, TransactionMax,
  ParticipantsMax, TermsMax    \* STNC_STNC_CONTRACT_MAX_*

Methods ==
  {"mining_context", "mining_template", "check_work_base", "submit_work",
   "block_height", "derive_address", "balance", "contract_state",
   "submit_transaction", "submit_block_evidence", "submit_history_evidence",
   "submit_suffix_evidence", "suffix_stage_begin", "suffix_stage_append",
   "suffix_stage_commit", "suffix_stage_abort"}

ASSUME StncAssumption ==
  /\ StncMagic \in Nat /\ Fits(StncMagic, 4)
  /\ Method \in [Methods -> Nat]
  /\ \A m \in Methods : Fits(Method[m], W16)
  /\ \A m, n \in Methods : Method[m] = Method[n] => m = n
  /\ TypedLen \in Nat
  /\ IdentityLen \in 1..TypedLen   \* one buffer takes either
  /\ {ParticipantsMax, TermsMax} \subseteq Nat

Request == 1
Response == 2
OK == 0

HeaderLayout == Fixed(<<4, W16, W16, W16, W16, W64, W32>>)
HeaderSize == 4 + 4 * W16 + W64 + W32

InfoSize == 4 * IdSize + WorkSize + W64 + 2 * W32
ContextSize == 2 * IdSize + W64 + W32
TemplatePrefixSize == 2 * IdSize + W32
AcceptedSize == IdSize + W64 + WorkSize
PendingSize == 4 * W32
SubmissionSize == 2 * W16 + IdSize
ContractStateSize == 3 * W16 + 2 * W64 + W32

\* What the structures of stnc_stnc.h hold, in the order of the wire.
StncLayout(kind) ==
  CASE kind = "header"     -> HeaderLayout
    [] kind = "info"       -> Fixed(<<IdSize, IdSize, W64, IdSize, WorkSize, IdSize, W32, W32>>)
    [] kind = "context"    -> Fixed(<<IdSize, IdSize, W64, W32>>)
    [] kind = "template"   -> Fixed(<<IdSize, IdSize, W32>>)
    [] kind = "accepted"   -> Fixed(<<IdSize, W64, WorkSize>>)
    [] kind = "pending"    -> Fixed(<<W32, W32, W32, W32>>)
    [] kind = "submission" -> Fixed(<<W16, W16, IdSize>>)
    [] kind = "contract"   -> Fixed(<<W16, W16, W64, W64, W16, W32>>)
    [] kind = "balance"    -> Fixed(<<W64>>)
    [] OTHER               -> Fixed(<<>>)   \* an address

-----------------------------------------------------------------------------
(* Requests.                                                               *)

\* stnc_stnc_encode
Encode(method, id, payload, capacity) ==
  IF \/ Len(payload) > U32Max
     \/ capacity < HeaderSize
     \/ Len(payload) > capacity - HeaderSize
  THEN Refused
  ELSE Packed(HeaderLayout.head,
         <<StncMagic, Version, Request, Method[method], OK, id, Len(payload)>>) \o payload

EncodeEmpty(c, capacity) ==
  IF c.method \notin {"mining_context", "mining_template"} THEN Refused
  ELSE Encode(c.method, c.id, <<>>, capacity)

EncodeWorkBase(c, capacity) == Encode("check_work_base", c.id, c.data, capacity)

BlockFits(block) == Len(block) \in BlockHeaderSize..BlockMax

EncodeSubmitWork(c, capacity) ==
  IF \/ Len(c.identity) # IdentityLen
     \/ c.identity[1] # IdentityMark
     \/ ~BlockFits(c.data)
     \/ TemplatePrefixSize + IdentityLen + Len(c.data) > U32Max
  THEN Refused
  ELSE Encode("submit_work", c.id,
         Packed(<<IdSize, IdSize, W32>>, <<c.parent, c.work, Len(c.data)>>)
           \o c.identity \o c.data, capacity)

EncodeBlockHeight(c, capacity) ==
  Encode("block_height", c.id, Bytes(c.number, W64), capacity)

EncodeDerive(c, capacity) ==
  IF c.type \notin 1..3 \/ Len(c.data) \notin 1..SourceMax THEN Refused
  ELSE Encode("derive_address", c.id,
         Packed(<<W16, W32>>, <<c.type, Len(c.data)>>) \o c.data, capacity)

EncodeAddressQuery(c, capacity) ==
  IF \/ c.method \notin {"balance", "contract_state"}
     \/ Len(c.data) # TypedLen
     \/ c.data[1] # IF c.method = "balance" THEN WalletMark ELSE ContractMark
  THEN Refused
  ELSE Encode(c.method, c.id, c.data, capacity)

EncodeTransaction(c, capacity) ==
  IF Len(c.data) \notin TransactionMin..TransactionMax THEN Refused
  ELSE Encode("submit_transaction", c.id, c.data, capacity)

EncodeBlockEvidence(c, capacity) ==
  IF ~BlockFits(c.data) THEN Refused
  ELSE Encode("submit_block_evidence", c.id, c.data, capacity)

\* The length of a list of blocks, each behind its own length, or TooLong.
\* size_t is wider than the 32 bits every sum must fit: nothing wraps here.
TooLong == -1
ListLength(blocks, start) ==
  LET sum[i \in 0..Len(blocks)] ==
        IF i = 0 THEN start
        ELSE IF \/ sum[i - 1] = TooLong
                \/ ~BlockFits(blocks[i])
                \/ sum[i - 1] > U32Max - W32
                \/ Len(blocks[i]) > U32Max - sum[i - 1] - W32
             THEN TooLong
             ELSE sum[i - 1] + W32 + Len(blocks[i])
  IN  sum[Len(blocks)]

\* Mutant: blocks follow each other without their lengths.
ListWithoutLengths(blocks) == FlattenSeq(blocks)

List(blocks) ==
  FlattenSeq([i \in 1..Len(blocks) |-> Bytes(Len(blocks[i]), W32) \o blocks[i]])

EncodeList(method, id, numbers, blocks, capacity) ==
  LET fixed == W32 * Len(numbers)
      length == ListLength(blocks, fixed)
  IN  IF Len(blocks) \notin 1..U32Max \/ length = TooLong \/ length > capacity - HeaderSize
      THEN Refused
      ELSE Encode(method, id,
             Packed([i \in 1..Len(numbers) |-> W32], numbers) \o List(blocks), capacity)

EncodeHistory(c, capacity) ==
  EncodeList("submit_history_evidence", c.id, <<Len(c.blocks)>>, c.blocks, capacity)

EncodeSuffix(c, capacity) ==
  IF c.number = 0 THEN Refused
  ELSE EncodeList("submit_suffix_evidence", c.id, <<c.number, Len(c.blocks)>>, c.blocks, capacity)

EncodeStageAppend(c, capacity) ==
  EncodeList("suffix_stage_append", c.id, <<c.number, Len(c.blocks)>>, c.blocks, capacity)

EncodeStageBegin(c, capacity) ==
  IF c.number = 0 \/ c.count = 0 THEN Refused
  ELSE Encode("suffix_stage_begin", c.id, Packed(<<W32, W32>>, <<c.number, c.count>>), capacity)

EncodeStageControl(c, capacity) ==
  IF c.method \notin {"suffix_stage_commit", "suffix_stage_abort"} THEN Refused
  ELSE Encode(c.method, c.id, <<>>, capacity)

EncodeStnc(c, capacity) ==
  CASE c.op = "empty"       -> EncodeEmpty(c, capacity)
    [] c.op = "work_base"   -> EncodeWorkBase(c, capacity)
    [] c.op = "submit_work" -> EncodeSubmitWork(c, capacity)
    [] c.op = "height"      -> EncodeBlockHeight(c, capacity)
    [] c.op = "derive"      -> EncodeDerive(c, capacity)
    [] c.op = "address"     -> EncodeAddressQuery(c, capacity)
    [] c.op = "transaction" -> EncodeTransaction(c, capacity)
    [] c.op = "block"       -> EncodeBlockEvidence(c, capacity)
    [] c.op = "history"     -> EncodeHistory(c, capacity)
    [] c.op = "suffix"      -> EncodeSuffix(c, capacity)
    [] c.op = "begin"       -> EncodeStageBegin(c, capacity)
    [] c.op = "append"      -> EncodeStageAppend(c, capacity)
    [] OTHER                -> EncodeStageControl(c, capacity)

-----------------------------------------------------------------------------
(* Answers.                                                                *)

DecodeHeader(b) ==
  IF \/ Len(b) # HeaderSize
     \/ At(b, 0, 4) # StncMagic
     \/ At(b, 4, W16) # Version
     \/ At(b, 4 + W16, W16) # Response
  THEN Rejected
  ELSE Decoded(<<StncMagic, Version, Response, At(b, 4 + 2 * W16, W16),
                 At(b, 4 + 3 * W16, W16), At(b, 4 + 4 * W16, W64),
                 At(b, 4 + 4 * W16 + W64, W32)>>, <<>>)

DecodeInfo(b) ==
  LET tail == 3 * IdSize + W64 + WorkSize
  IN  IF Len(b) # InfoSize THEN Rejected
      ELSE Decoded(
        <<At(b, 0, IdSize), At(b, IdSize, IdSize), At(b, 2 * IdSize, W64),
          At(b, 2 * IdSize + W64, IdSize), At(b, 3 * IdSize + W64, WorkSize),
          At(b, tail, IdSize), At(b, tail + IdSize, W32),
          At(b, tail + IdSize + W32, W32)>>, <<>>)

DecodeContext(b) ==
  LET available == At(b, 2 * IdSize + W64, W32)
  IN  IF Len(b) # ContextSize \/ available > 1 THEN Rejected
      ELSE Decoded(<<At(b, 0, IdSize), At(b, IdSize, IdSize),
                     At(b, 2 * IdSize, W64), available>>, <<>>)

DecodeTemplate(b) ==
  LET length == At(b, 2 * IdSize, W32)
  IN  IF \/ Len(b) < TemplatePrefixSize
         \/ length \notin BlockHeaderSize..BlockMax
         \/ length # Len(b) - TemplatePrefixSize
      THEN Rejected
      ELSE Decoded(<<At(b, 0, IdSize), At(b, IdSize, IdSize), length>>,
                   Singles(From(b, TemplatePrefixSize)))

DecodeAccepted(b) ==
  IF Len(b) # AcceptedSize THEN Rejected
  ELSE Decoded(<<At(b, 0, IdSize), At(b, IdSize, W64), At(b, IdSize + W64, WorkSize)>>, <<>>)

\* Mutant: only the entries are compared with their limit.
DecodePendingEntries(b) ==
  LET f == [i \in 1..4 |-> At(b, (i - 1) * W32, W32)]
  IN  IF Len(b) # PendingSize \/ f[2] = 0 \/ f[1] > f[2] THEN Rejected ELSE Decoded(f, <<>>)

DecodePending(b) ==
  LET f == [i \in 1..4 |-> At(b, (i - 1) * W32, W32)]
  IN  IF Len(b) # PendingSize \/ f[2] = 0 \/ f[4] = 0 \/ f[1] > f[2] \/ f[3] > f[4]
      THEN Rejected ELSE Decoded(f, <<>>)

\* Results 0 and 1 carry a transaction; for any other its place is zero.
DecodeSubmission(b) ==
  LET result == At(b, W16, W16)
  IN  IF \/ Len(b) # SubmissionSize
         \/ At(b, 0, W16) # 1
         \/ result > 8
         \/ result > 1 /\ \E i \in 2 * W16 + 1..Len(b) : b[i] # 0
      THEN Rejected
      ELSE Decoded(<<1, result, At(b, 2 * W16, IdSize)>>, <<>>)

DecodeContractState(b) ==
  LET f == <<At(b, 0, W16), At(b, W16, W16), At(b, 2 * W16, W64),
             At(b, 2 * W16 + W64, W64), At(b, 2 * W16 + 2 * W64, W16),
             At(b, 3 * W16 + 2 * W64, W32)>>
  IN  IF \/ Len(b) # ContractStateSize
         \/ f[1] \notin 1..9 \/ f[2] \notin 1..6
         \/ f[5] > ParticipantsMax \/ f[6] > TermsMax
      THEN Rejected ELSE Decoded(f, <<>>)

DecodeBalance(b) ==
  IF Len(b) # W64 THEN Rejected ELSE Decoded(<<At(b, 0, W64)>>, <<>>)

\* The caller's buffer takes the address and a terminating zero.
DecodeAddress(kind, b, capacity) ==
  LET length == IF kind = "identity" THEN IdentityLen ELSE TypedLen
      mark == CASE kind = "identity" -> IdentityMark
                [] kind = "contract_address" -> ContractMark
                [] OTHER -> WalletMark
  IN  IF Len(b) # length \/ capacity <= Len(b) \/ b[1] # mark THEN Rejected
      ELSE Decoded(<<>>, Singles(b))

DecodeStnc(kind, b) ==
  CASE kind = "header"     -> DecodeHeader(b)
    [] kind = "info"       -> DecodeInfo(b)
    [] kind = "context"    -> DecodeContext(b)
    [] kind = "template"   -> DecodeTemplate(b)
    [] kind = "accepted"   -> DecodeAccepted(b)
    [] kind = "pending"    -> DecodePending(b)
    [] kind = "submission" -> DecodeSubmission(b)
    [] kind = "contract"   -> DecodeContractState(b)
    [] kind = "balance"    -> DecodeBalance(b)
    [] OTHER               -> DecodeAddress(kind, b, TypedLen + 1)

\* The values a Chain service means, as stnc_stnc.h and its limits define them.
StncValid(kind, head, rows) ==
  CASE kind = "header" ->
         head[1] = StncMagic /\ head[2] = Version /\ head[3] = Response
    [] kind = "context" -> head[4] \in {0, 1}
    [] kind = "template" -> head[3] = Len(rows) /\ Len(rows) \in BlockHeaderSize..BlockMax
    [] kind = "pending" -> {head[2], head[4]} \cap {0} = {} /\ head[1] <= head[2] /\ head[3] <= head[4]
    [] kind = "submission" -> head[1] = 1 /\ (head[2] \in {0, 1} \/ (head[2] \in 2..8 /\ head[3] = 0))
    [] kind = "contract" ->
         head[1] \in 1..9 /\ head[2] \in 1..6 /\ head[5] <= ParticipantsMax /\ head[6] <= TermsMax
    [] kind = "identity" -> Len(rows) = IdentityLen /\ rows[1][1] = IdentityMark
    [] kind = "contract_address" -> Len(rows) = TypedLen /\ rows[1][1] = ContractMark
    [] kind = "wallet" -> Len(rows) = TypedLen /\ rows[1][1] = WalletMark
    [] OTHER -> TRUE
=============================================================================
