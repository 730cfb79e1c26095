------------------------------- MODULE MCCodec -------------------------------
(* Bytes of five values; lengths of two bytes end at 24, so that lists of    *)
(* small blocks already exceed them.                                         *)
EXTENDS Codec

MCStnpMagic == 111
MCStncMagic == 222

MCMethod ==
  [mining_context |-> 1, mining_template |-> 2, check_work_base |-> 3,
   submit_work |-> 4, block_height |-> 5, derive_address |-> 6, balance |-> 7,
   contract_state |-> 8, submit_transaction |-> 9, submit_block_evidence |-> 10,
   submit_history_evidence |-> 11, submit_suffix_evidence |-> 12,
   suffix_stage_begin |-> 13, suffix_stage_append |-> 14,
   suffix_stage_commit |-> 15, suffix_stage_abort |-> 16]

Blank == [op |-> "", id |-> 1, method |-> "balance", data |-> <<>>, blocks |-> <<>>,
        identity |-> <<>>, parent |-> 2, work |-> 3, type |-> 1, number |-> 1, count |-> 1]

BlockLists ==
  {<<>>, <<<<1>>>>, <<<<1, 0>>>>, <<<<1>>, <<0, 1>>>>, <<<<1, 0>>, <<1>>>>,
   <<<<>>, <<1>>>>, <<[i \in 1..9 |-> 1], [i \in 1..9 |-> 2]>>,
   <<[i \in 1..9 |-> 1], [i \in 1..9 |-> 2], <<1>>>>}

MCCalls ==
  {[Blank EXCEPT !.op = "empty", !.method = m] : m \in {"mining_context", "mining_template", "balance"}}
  \cup {[Blank EXCEPT !.op = "work_base", !.data = d] : d \in {<<1>>, <<4>>}}
  \cup {[Blank EXCEPT !.op = "submit_work", !.identity = i, !.data = d, !.parent = p] :
          i \in {<<1, 0>>, <<1, 2>>, <<2, 0>>, <<1>>}, d \in {<<>>, <<1>>, <<2, 1>>}, p \in {2, 4}}
  \cup {[Blank EXCEPT !.op = "height", !.number = n] : n \in {0, 124}}
  \cup {[Blank EXCEPT !.op = "derive", !.type = t, !.data = d] : t \in {0, 1, 3, 4}, d \in {<<>>, <<1>>, <<1, 1>>, <<1, 1, 1>>}}
  \cup {[Blank EXCEPT !.op = "address", !.method = m, !.data = d] :
          m \in {"balance", "contract_state", "submit_work"}, d \in {<<2, 0, 0>>, <<3, 0, 0>>, <<3, 0>>}}
  \cup {[Blank EXCEPT !.op = "transaction", !.data = d] : d \in {<<>>, <<1>>, <<1, 2>>, <<1, 2, 3>>}}
  \cup {[Blank EXCEPT !.op = "block", !.data = d] : d \in {<<>>, <<1>>, [i \in 1..10 |-> 1]}}
  \cup {[Blank EXCEPT !.op = "history", !.blocks = b] : b \in BlockLists}
  \cup {[Blank EXCEPT !.op = o, !.blocks = b, !.number = n] :
          o \in {"suffix", "append"}, b \in BlockLists, n \in {0, 1, 2}}
  \cup {[Blank EXCEPT !.op = "begin", !.number = n, !.count = k] : n \in {0, 1, 2}, k \in {0, 1}}
  \cup {[Blank EXCEPT !.op = "control", !.method = m] : m \in {"suffix_stage_commit", "suffix_stage_abort", "balance"}}
  \cup {[Blank EXCEPT !.op = "hello", !.number = n, !.parent = p] : n \in {1, 24}, p \in {0, 4}}
  \cup {[Blank EXCEPT !.op = "get_headers", !.number = n, !.count = k] : n \in {0, 1}, k \in {0, 1, 2, 3, 4}}
  \cup {[Blank EXCEPT !.op = "get_block", !.number = n] : n \in {0, 1}}
  \cup {[Blank EXCEPT !.op = "bare", !.method = m] : m \in {"state", "get_peers"}}

MCCapacities == {16, 19, 60}

Value(k, h, r) == [kind |-> k, head |-> h, rows |-> r]
H(type, size) == <<MCStnpMagic, 1, Type[type], size>>
MCAnswers ==
  {Value("header", <<m, v, r, 4, s, 7, 2>>, <<>>) :
     m \in {111, 222}, v \in {1, 2}, r \in {1, 2}, s \in {0, 6}}
  \cup {Value("info", <<1, 2, n, 3, 4, 0, 2, 3>>, <<>>) : n \in {0, 124}}
  \cup {Value("context", <<1, 2, 77, a>>, <<>>) : a \in 0..2}
  \cup {Value("template", <<1, 2, n>>, r) : n \in {0, 1, 2, 10}, r \in {<<>>, <<<<3>>>>, <<<<3>>, <<4>>>>}}
  \cup {Value("accepted", <<1, 33, 4>>, <<>>)}
  \cup {Value("pending", <<a, b, c, d>>, <<>>) : a \in 0..2, b \in 0..1, c \in {0, 7}, d \in {0, 6, 24}}
  \cup {Value("submission", <<v, r, t>>, <<>>) : v \in 1..2, r \in {0, 1, 2, 8, 9}, t \in 0..1}
  \cup {Value("contract", <<s, t, 30, 40, p, l>>, <<>>) : s \in {0, 9, 10}, t \in {0, 6, 7}, p \in 2..4, l \in 5..6}
  \cup {Value("balance", <<n>>, <<>>) : n \in {0, 1, 124}}
  \cup {Value(k, <<>>, r) : k \in {"identity", "contract_address", "wallet"},
          r \in {<<<<1>>, <<4>>>>, <<<<2>>, <<4>>, <<4>>>>, <<<<3>>, <<4>>, <<4>>>>}}
  \cup {Value("hello", H("hello", 4) \o <<1, 2, n>>, <<>>) : n \in {0, 24}}
  \cup {Value("state", H("state", 7) \o <<h, 1, 2, c>>, <<>>) : h \in {0, 1, 23}, c \in {0, 1, 24}}
  \cup {Value("headers", H("headers", 4 + Len(r)) \o <<1, c>>, r) : c \in 0..4,
          r \in {<<>>, <<<<1>>>>, <<<<1>>, <<2>>>>, <<<<1>>, <<2>>, <<3>>, <<4>>>>}}
  \cup {Value("block", H("block", 2 + Len(r)) \o <<5>>, r) :
          r \in {<<>>, <<<<1>>>>, <<<<1>>, <<0>>>>, [i \in 1..9 |-> <<2>>], [i \in 1..10 |-> <<2>>]}}
  \cup {Value("peers", H("peers", 2 + 3 * Len(r)) \o <<c>>, r) : c \in 0..3,
          r \in {<<>>, <<<<1, 9>>>>, <<<<1, 9>>, <<2, 9>>>>, <<<<1, 9>>, <<2, 9>>, <<3, 9>>>>}}
  \cup {Value("contracts", <<c>>, r) : c \in 0..3,
          r \in {<<>>, <<<<51, 1, 2, 3, 4>>>>, <<<<53, 1, 2, 3, 4>>>>, <<<<76, 1, 2, 3, 4>>>>, <<<<51, 9, 6, 3, 4>>, <<50, 10, 1, 0, 0>>>>,
                 <<<<51, 1, 7, 3, 4>>>>, <<<<51, 9, 6, 3, 4>>, <<50, 1, 1, 0, 0>>>>,
                 <<<<51, 9, 6, 3, 4>>, <<50, 1, 1, 0, 0>>, <<55, 1, 1, 0, 0>>>>}}
=============================================================================
