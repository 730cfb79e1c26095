------------------------------ MODULE StnpCodec ------------------------------
(***************************************************************************)
(* stnc_stnp.c and stnc_contract_list.c: the frames of the peer protocol,  *)
(* and the list of contracts, which Chain answers in the same style.       *)
(***************************************************************************)
EXTENDS StncCodec

CONSTANTS
  StnpMagic,        \* the number of the four bytes "STNP"
  HeaderWire,       \* STNC_STNP_HEADER_WIRE_SIZE
  HeadersMax,       \* STNC_STNP_HEADERS_MAX
  PeersMax,         \* STNC_STNP_PEER_MAX
  ContractsMax,     \* STNC_CONTRACT_LIST_MAX
  IpSize,           \* bytes of an address of a peer: 4
  HexDigits         \* bytes an address may have behind its prefix

Type == [hello |-> 1, state |-> 2, get_headers |-> 3, headers |-> 4,
         get_block |-> 5, block |-> 6, get_peers |-> 7, peers |-> 8]

ASSUME StnpAssumption ==
  /\ StnpMagic \in Nat \ {StncMagic} /\ Fits(StnpMagic, 4)
  /\ \A t \in DOMAIN Type : Fits(Type[t], W16)
  /\ {HeaderWire, IpSize} \subseteq Nat \ {0}
  /\ {HeadersMax, PeersMax, ContractsMax} \subseteq Nat

StnpHeader == <<4, W16, W16, W32>>
StnpHeaderSize == 4 + 2 * W16 + W32
HelloSize == 2 * IdSize + W32
StateSize == W64 + IdSize + WorkSize + W32
HeadersPayloadMax == 2 * W32 + HeaderWire * HeadersMax
BlockPayloadMax == W32 + BlockMax
PeersPayloadMax == W16 + (IpSize + W16) * PeersMax
EntrySize == TypedLen + 2 * W16 + 2 * W64

\* The largest payload the caller has room for behind the header.
PayloadMax(kind) ==
  CASE kind = "headers" -> HeadersPayloadMax
    [] kind = "block"   -> BlockPayloadMax
    [] kind = "peers"   -> PeersPayloadMax
    [] kind = "hello"   -> HelloSize
    [] OTHER            -> StateSize

\* What the structures of stnc_stnp.h and stnc_contract_list.h hold.
StnpLayout(kind) ==
  CASE kind = "hello"   -> Fixed(StnpHeader \o <<IdSize, IdSize, W32>>)
    [] kind = "state"   -> Fixed(StnpHeader \o <<W64, IdSize, WorkSize, W32>>)
    [] kind = "headers" -> Layout(StnpHeader \o <<W32, W32>>, <<HeaderWire>>)
    [] kind = "block"   -> Fixed(StnpHeader \o <<W32>>)
    [] kind = "peers"   -> Layout(StnpHeader \o <<W16>>, <<IpSize, W16>>)
    [] OTHER            -> Layout(<<W16>>, <<TypedLen, W16, W16, W64, W64>>)

StnpFrame(type, numbers, widths, capacity) ==
  LET frame == Packed(StnpHeader \o widths,
        <<StnpMagic, Version, Type[type], Len(Packed(widths, numbers))>> \o numbers)
  IN  IF capacity < Len(frame) THEN Refused ELSE frame

EncodeHello(c, capacity) ==
  StnpFrame("hello", <<c.parent, c.work, c.number>>, <<IdSize, IdSize, W32>>, capacity)

\* stnc_stnp_encode_state, stnc_stnp_encode_get_peers
EncodeBare(c, capacity) == StnpFrame(c.method, <<>>, <<>>, capacity)

EncodeGetHeaders(c, capacity) ==
  IF c.count \notin 1..HeadersMax THEN Refused
  ELSE StnpFrame("get_headers", <<c.number, c.count>>, <<W32, W32>>, capacity)

EncodeGetBlock(c, capacity) == StnpFrame("get_block", <<c.number>>, <<W32>>, capacity)

EncodeStnp(c, capacity) ==
  CASE c.op = "hello"       -> EncodeHello(c, capacity)
    [] c.op = "get_headers" -> EncodeGetHeaders(c, capacity)
    [] c.op = "get_block"   -> EncodeGetBlock(c, capacity)
    [] OTHER                -> EncodeBare(c, capacity)

-----------------------------------------------------------------------------
(* Frames of a peer are read in two steps where their length varies: the   *)
(* header says how much follows, the whole frame is decoded then.          *)

Begins(b, type) ==
  /\ Len(b) >= StnpHeaderSize
  /\ At(b, 0, 4) = StnpMagic
  /\ At(b, 4, W16) = Version
  /\ At(b, 4 + W16, W16) = Type[type]
Length(b) == At(b, 4 + 2 * W16, W32)
HeadNumbers(b, type) == <<StnpMagic, Version, Type[type], Length(b)>>

\* stnc_stnp_decode_headers_header, _block_header, _peers_header: the bytes
\* that follow, or -1
NoLength == -1
HeadersFollow(b) ==
  IF \/ ~Begins(b, "headers")
     \/ Length(b) \notin 2 * W32..HeadersPayloadMax
     \/ (Length(b) - 2 * W32) % HeaderWire # 0
  THEN NoLength ELSE Length(b)

\* Mutant: any length that has an index.
BlockFollowsAny(b) ==
  IF ~Begins(b, "block") \/ Length(b) <= W32 THEN NoLength ELSE Length(b)

BlockFollows(b) ==
  IF ~Begins(b, "block") \/ Length(b) \notin W32 + 1..BlockPayloadMax
  THEN NoLength ELSE Length(b)

PeersFollow(b) ==
  IF \/ ~Begins(b, "peers")
     \/ Length(b) \notin W16..PeersPayloadMax
     \/ (Length(b) - W16) % (IpSize + W16) # 0
  THEN NoLength ELSE Length(b)

\* HELLO and STATE have one length, and the caller reads just that.
Follows(kind, b) ==
  CASE kind = "headers" -> HeadersFollow(b)
    [] kind = "block"   -> BlockFollows(b)
    [] kind = "peers"   -> PeersFollow(b)
    [] kind = "hello"   -> HelloSize
    [] OTHER            -> StateSize

DecodeHello(b) ==
  LET at == StnpHeaderSize
  IN  IF Len(b) # at + HelloSize \/ ~Begins(b, "hello") \/ Length(b) # HelloSize
      THEN Rejected
      ELSE Decoded(HeadNumbers(b, "hello") \o
        <<At(b, at, IdSize), At(b, at + IdSize, IdSize), At(b, at + 2 * IdSize, W32)>>, <<>>)

\* Mutant: the height is taken for the number of blocks.
DecodeStateHeight(b) ==
  LET at == StnpHeaderSize
      height == At(b, at, W64)
      count == At(b, at + W64 + IdSize + WorkSize, W32)
  IN  IF Len(b) # at + StateSize \/ ~Begins(b, "state") \/ count = 0 \/ height # count
      THEN Rejected
      ELSE Decoded(HeadNumbers(b, "state") \o
        <<height, At(b, at + W64, IdSize), At(b, at + W64 + IdSize, WorkSize), count>>, <<>>)

DecodeState(b) ==
  LET at == StnpHeaderSize
      height == At(b, at, W64)
      count == At(b, at + W64 + IdSize + WorkSize, W32)
  IN  IF \/ Len(b) # at + StateSize \/ ~Begins(b, "state") \/ Length(b) # StateSize
         \/ count = 0 \/ height # count - 1
      THEN Rejected
      ELSE Decoded(HeadNumbers(b, "state") \o
        <<height, At(b, at + W64, IdSize), At(b, at + W64 + IdSize, WorkSize), count>>, <<>>)

DecodeHeaders(b) ==
  LET at == StnpHeaderSize
      count == At(b, at + W32, W32)
  IN  IF \/ HeadersFollow(b) = NoLength
         \/ Len(b) # at + HeadersFollow(b)
         \/ count \notin 1..HeadersMax
         \/ HeadersFollow(b) # 2 * W32 + count * HeaderWire
      THEN Rejected
      ELSE Decoded(HeadNumbers(b, "headers") \o <<At(b, at, W32), count>>,
                   Rows(b, at + 2 * W32, <<HeaderWire>>, count))

DecodeBlock(b) ==
  LET at == StnpHeaderSize
  IN  IF BlockFollows(b) = NoLength \/ Len(b) # at + BlockFollows(b) THEN Rejected
      ELSE Decoded(HeadNumbers(b, "block") \o <<At(b, at, W32)>>,
                   Singles(From(b, at + W32)))

\* Mutant: the count is not compared with the length.
DecodePeersCount(b) ==
  LET at == StnpHeaderSize
      count == At(b, at, W16)
  IN  IF \/ PeersFollow(b) = NoLength
         \/ Len(b) # at + PeersFollow(b)
         \/ W16 + count * (IpSize + W16) > PeersFollow(b)
      THEN Rejected
      ELSE Decoded(HeadNumbers(b, "peers") \o <<count>>,
                   Rows(b, at + W16, <<IpSize, W16>>, count))

DecodePeers(b) ==
  LET at == StnpHeaderSize
      count == At(b, at, W16)
  IN  IF \/ PeersFollow(b) = NoLength
         \/ Len(b) # at + PeersFollow(b)
         \/ count > PeersMax
         \/ PeersFollow(b) # W16 + count * (IpSize + W16)
      THEN Rejected
      ELSE Decoded(HeadNumbers(b, "peers") \o <<count>>,
                   Rows(b, at + W16, <<IpSize, W16>>, count))

\* hex_address: the prefix, and hexadecimal digits behind it
HexAddress(address, mark) ==
  address[1] = mark /\ \A i \in 2..Len(address) : address[i] \in HexDigits

\* stnc_contract_list_decode
DecodeContracts(b) ==
  LET count == At(b, 0, W16)
      rows == Rows(b, W16, <<TypedLen, W16, W16, W64, W64>>, count)
      address(r) == SubSeq(b, W16 + (r - 1) * EntrySize + 1, W16 + (r - 1) * EntrySize + TypedLen)
  IN  IF \/ Len(b) < W16
         \/ count > ContractsMax
         \/ Len(b) # W16 + count * EntrySize
         \/ \E r \in 1..count :
              \/ ~HexAddress(address(r), ContractMark)
              \/ rows[r][2] \notin 1..9
              \/ rows[r][3] \notin 1..6
      THEN Rejected ELSE Decoded(<<count>>, rows)

DecodeStnp(kind, b) ==
  CASE kind = "hello"   -> DecodeHello(b)
    [] kind = "state"   -> DecodeState(b)
    [] kind = "headers" -> DecodeHeaders(b)
    [] kind = "block"   -> DecodeBlock(b)
    [] kind = "peers"   -> DecodePeers(b)
    [] OTHER            -> DecodeContracts(b)

\* The header of a frame names its kind and counts the bytes behind it.
Headed(kind, head, rows) ==
  /\ head[1] = StnpMagic /\ head[2] = Version /\ head[3] = Type[kind]
  /\ head[4] = Len(Written(StnpLayout(kind), head, rows)) - StnpHeaderSize

StnpValid(kind, head, rows) ==
  CASE kind = "hello"   -> Headed(kind, head, rows)
    [] kind = "state"   -> Headed(kind, head, rows) /\ head[8] # 0 /\ head[5] + 1 = head[8]
    [] kind = "headers" -> Headed(kind, head, rows) /\ head[6] = Len(rows) /\ Len(rows) \in 1..HeadersMax
    [] kind = "block"   -> Headed(kind, head, rows) /\ Len(rows) \in 1..BlockMax
    [] kind = "peers"   -> Headed(kind, head, rows) /\ head[5] = Len(rows) /\ Len(rows) <= PeersMax
    [] OTHER            ->
         /\ head[1] = Len(rows) /\ Len(rows) <= ContractsMax
         /\ \A r \in 1..Len(rows) :
              /\ HexAddress(Bytes(rows[r][1], TypedLen), ContractMark)
              /\ rows[r][2] \in 1..9 /\ rows[r][3] \in 1..6
=============================================================================
