--------------------------------- MODULE Wire ---------------------------------
(***************************************************************************)
(* Numbers and layouts on the wire, shared by the STNC and STNP codecs.  A *)
(* byte has Base values and the three integer types have a number of bytes *)
(* that a model may choose, so that every width is exceeded by small       *)
(* values; an identifier or a hash is one number of IdSize bytes.          *)
(***************************************************************************)
EXTENDS Integers, Sequences, SequencesExt

CONSTANTS
  Base,                \* values of a byte: 256 in the code
  W16, W32, W64,       \* bytes of the integer types: 2, 4 and 8
  IdSize, WorkSize,    \* bytes of a hash (32) and of cumulative work (40)
  Version,             \* STNC_STNC_VERSION and STNC_STNP_VERSION
  BlockHeaderSize,     \* STNC_STNC_BLOCK_HEADER_SIZE
  BlockMax             \* STNC_STNC_BLOCK_MAX_SIZE

ASSUME WireAssumption ==
  /\ Base \in Nat \ {0, 1}
  /\ {W16, W32, W64, IdSize, WorkSize} \subseteq Nat \ {0}
  /\ Version \in Nat
  /\ BlockMax \in Nat
  /\ BlockHeaderSize \in 1..BlockMax

Byte == 0..Base - 1

\* Big-endian: shifted right a byte at a time; what is left then is cut off,
\* as by a cast.
Shifted(value, width) ==
  LET rest[i \in 0..width] == IF i = 0 THEN value ELSE rest[i - 1] \div Base
  IN  rest

Bytes(value, width) ==
  [i \in 1..width |-> Shifted(value, width)[width - i] % Base]

\* Nothing is cut off: a variable of that type can hold the value.
Fits(value, width) == Shifted(value, width)[width] = 0

Number(bytes) ==
  LET read[i \in 0..Len(bytes)] == IF i = 0 THEN 0 ELSE read[i - 1] * Base + bytes[i]
  IN  read[Len(bytes)]

U32Max == Number([i \in 1..W32 |-> Base - 1])

\* The number of the given width behind the first bytes.
At(bytes, skip, width) == Number(SubSeq(bytes, skip + 1, skip + width))
From(bytes, skip) == SubSeq(bytes, skip + 1, Len(bytes))

\* Not a frame: the encoder has returned an error and set *written to 0.
Refused == <<>>

\* Decoded values: numbers of the fixed part, and rows of numbers behind it.
Decoded(head, rows) == [ok |-> TRUE, head |-> head, rows |-> rows]
Rejected == [ok |-> FALSE, head |-> <<>>, rows |-> <<>>]

\* A layout lists the widths of a fixed part and those of each row behind it.
Layout(head, row) == [head |-> head, row |-> row]
Fixed(head) == Layout(head, <<1>>)

\* Where each number of such a part ends, from 0, and where the part does.
Ends(widths) ==
  LET end[k \in 0..Len(widths)] == IF k = 0 THEN 0 ELSE end[k - 1] + widths[k]
  IN  end
Size(widths) == Ends(widths)[Len(widths)]

\* The numbers of so many rows behind the first bytes.
Rows(bytes, skip, widths, count) ==
  [r \in 1..count |->
    [k \in 1..Len(widths) |->
      At(bytes, skip + (r - 1) * Size(widths) + Ends(widths)[k - 1], widths[k])]]

\* The numbers a structure with such a part can hold.
Holds(widths, numbers) ==
  /\ Len(numbers) = Len(widths)
  /\ \A k \in 1..Len(widths) : numbers[k] \in Nat /\ Fits(numbers[k], widths[k])

Packed(widths, numbers) ==
  FlattenSeq([i \in 1..Len(widths) |-> Bytes(numbers[i], widths[i])])

\* What a service that follows a layout puts on the wire.
Written(layout, head, rows) ==
  Packed(layout.head, head)
    \o FlattenSeq([i \in 1..Len(rows) |-> Packed(layout.row, rows[i])])

Singles(bytes) == [i \in 1..Len(bytes) |-> <<bytes[i]>>]
=============================================================================
