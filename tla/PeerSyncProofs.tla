---------------------------- MODULE PeerSyncProofs ----------------------------
(***************************************************************************)
(* Theorems of PeerSync, for any histories Chain services accept, any      *)
(* work of them, any limits and any number of faults.                      *)
(***************************************************************************)
EXTENDS PeerSync, SequenceTheorems, TLAPS

USE DEF external, links, search, transfer

(***************************************************************************)
(* Types.                                                                  *)
(***************************************************************************)
HistoryType == chain \in Histories /\ peer \in Histories
StageKind == stage \in StageType /\ session \in Nat
LinkType ==
  /\ link \in {"up", "dirty", "down"} /\ joined \in BOOLEAN
  /\ pc \in {"tick", "compare", "headers", "blocks", "search", "collect",
             "begin", "append", "abort"}
  /\ faults \in Nat /\ steady \in BOOLEAN
ViewsType == known \in ViewType /\ told \in ViewType
SearchType == low \in Nat /\ high \in Nat /\ low <= high
TransferType == batch \in Seq(Block) /\ suffix \in Seq(Block) /\ offset \in Nat

LEMMA TypeParts ==
  TypeOK <=> /\ HistoryType /\ StageKind /\ LinkType /\ ViewsType /\ SearchType
             /\ TransferType
BY Zenon DEF TypeOK, HistoryType, StageKind, LinkType, ViewsType, SearchType, TransferType

LEMMA HistoryFacts ==
  ASSUME NEW h \in Histories
  PROVE  /\ h \in Seq(Block) /\ Len(h) \in Nat /\ Len(h) >= 1 /\ Tip(h) \in Block
         /\ View(h) \in ViewType /\ Cleared \in ViewType
<1>1. h \in Seq(Block) /\ h # <<>>
  BY HistoryAssumption
<1>2. Len(h) \in Nat /\ Len(h) >= 1
  BY <1>1
<1>3. Tip(h) \in Block
  BY <1>1, <1>2 DEF Tip
<1>4. QED
  BY <1>1, <1>2, <1>3 DEF View, ViewType, Cleared

\* Offering one block after the whole history appends it.
LEMMA OfferOne ==
  ASSUME chain \in Histories, NEW b \in Block, Valid(Len(chain), <<b>>)
  PROVE  Append(chain, b) \in Histories
<1>1. chain \in Seq(Block) /\ Len(chain) \in Nat
  BY HistoryFacts
<1>2. SubSeq(chain, 1, Len(chain)) = chain
  BY <1>1
<1>3. chain \o <<b>> = Append(chain, b)
  BY <1>1
<1>4. QED
  BY <1>2, <1>3 DEF Valid, Offered

LEMMA AdoptsFacts ==
  ASSUME NEW n, NEW s, Adopts(n, s) \/ Keeps(n, s), HistoryType
  PROVE  chain' \in Histories /\ steady' \in {steady, FALSE}
BY DEF Adopts, Keeps, Preferred, Valid, HistoryType

\* A block the peer's history has is a block.
LEMMA NextBlockFacts ==
  ASSUME HistoryType, low \in Nat, NEW i \in Nat, NextHeld(i)
  PROVE  NextBlock(i) \in Block
<1>1. peer \in Seq(Block) /\ low + i + 1 \in 1..Len(peer)
  BY HistoryFacts DEF HistoryType, NextHeld
<1>2. QED
  BY <1>1 DEF NextBlock

LEMMA BatchFacts ==
  ASSUME TransferType, offset < Len(batch)
  PROVE  batch[offset + 1] \in Block
<1>1. batch \in Seq(Block) /\ offset + 1 \in 1..Len(batch)
  BY DEF TransferType
<1>2. QED
  BY <1>1

\* What a failed exchange leaves of the session and of the bound.
LEMMA FaultFacts ==
  ASSUME link \in {"up", "dirty", "down"}, faults \in Nat
  PROVE  /\ Fault => faults' \in Nat
         /\ Unreached => link' \in {"up", "dirty", "down"} /\ faults' \in Nat
         /\ AnswerLost => link' \in {"up", "dirty", "down"} /\ faults' \in Nat
<1>1. Fault => faults' \in Nat
  BY DEF Fault
<1>2. Unreached => link' \in {"up", "dirty", "down"} /\ faults' \in Nat
  BY <1>1 DEF Unreached
<1>3. AnswerLost => link' \in {"up", "dirty", "down"} /\ faults' \in Nat
  BY <1>1 DEF AnswerLost
<1>4. QED
  BY <1>1, <1>2, <1>3

\* What becomes of a stage.
LEMMA StageFacts ==
  ASSUME HistoryType, StageKind, SearchType, TransferType
  PROVE  /\ NoStage \in StageType
         /\ Opens => stage' \in StageType
         /\ NextHeld(offset) /\ Stages => stage' \in StageType
<1>1. NoStage \in StageType
  BY DEF NoStage, StageType
<1>2. Opens => stage' \in StageType
  BY DEF Opens, StageType, StageKind, SearchType
<1>3. ASSUME NextHeld(offset), Stages PROVE stage' \in StageType
  <2>1. NextBlock(offset) \in Block
    BY <1>3, NextBlockFacts DEF SearchType, TransferType
  <2>2. stage.blocks \in Seq(Block) /\ Append(stage.blocks, NextBlock(offset)) \in Seq(Block)
    BY <2>1 DEF StageKind, StageType
  <2>3. QED
    BY <1>3, <2>2 DEF Stages, StageKind, StageType
<1>4. QED
  BY <1>1, <1>2, <1>3

LEMMA HistoryStep ==
  ASSUME HistoryType, TransferType, [Next]_vars
  PROVE  HistoryType'
<1>1. ASSUME NEW h \in Histories, ChainAdvances(h)
      PROVE  HistoryType'
  BY <1>1 DEF ChainAdvances, HistoryType
<1>2. ASSUME NEW h \in Histories, PeerAdvances(h)
      PROVE  HistoryType'
  BY <1>2 DEF PeerAdvances, HistoryType
<1>3. ASSUME NEW count \in 1..HeadersMax, GetHeaders(count)
      PROVE  HistoryType'
  BY <1>3 DEF GetHeaders, HistoryType
<1>4. CASE AskState
  BY <1>4 DEF AskState, HistoryType
<1>5. CASE StateUnanswered
  BY <1>5 DEF StateUnanswered, Fault, HistoryType
<1>6. CASE Refresh
  BY <1>6 DEF Refresh, Unreached, Reached, Fault, HistoryType
<1>7. CASE Reconnect
  BY <1>7 DEF Reconnect, HistoryType
<1>8. CASE ReconnectFails
  BY <1>8 DEF ReconnectFails, Fault, HistoryType
<1>9. CASE CompareCurrent
  BY <1>9 DEF CompareCurrent, EndOk, Forget, HistoryType
<1>10. CASE CompareDiverged
  BY <1>10 DEF CompareDiverged, StartSearch, HistoryType
<1>11. CASE CompareAhead
  BY <1>11 DEF CompareAhead, HistoryType
<1>12. CASE GetHeadersFails
  BY <1>12 DEF GetHeadersFails, Fault, EndFailed, Forget, EndOk, HistoryType
<1>13. CASE BlocksDone
  BY <1>13 DEF BlocksDone, HistoryType
<1>14. CASE BlockUnavailable
  BY <1>14 DEF BlockUnavailable, Fault, EndFailed, MoreBlocks, Shown, Forget, EndOk, HistoryType
<1>15. CASE BlockAccepted
  BY <1>15, OfferOne, BatchFacts DEF BlockAccepted, Reached, MoreBlocks, Shown, HistoryType
<1>16. CASE BlockRefused
  BY <1>16, OfferOne, BatchFacts DEF BlockRefused, Unreached, AnswerLost, Reached, StartSearch, MoreBlocks, Shown, Fault, HistoryType
<1>17. CASE Probe
  BY <1>17 DEF Probe, Reached, Searching, Held, HistoryType
<1>18. CASE ProbeFails
  BY <1>18 DEF ProbeFails, Fault, Unreached, Reached, EndFailed, Searching, Held, Forget, EndOk, HistoryType
<1>19. CASE SearchEnds
  BY <1>19 DEF SearchEnds, HistoryType
<1>20. CASE NothingActionable
  BY <1>20 DEF NothingActionable, EndFailed, Forget, EndOk, HistoryType
<1>21. CASE Collect
  BY <1>21 DEF Collect, Collecting, NextHeld, NextBlock, Fault, HistoryType
<1>22. CASE CollectTooMuch
  BY <1>22 DEF CollectTooMuch, Collecting, NextHeld, Fault, HistoryType
<1>23. CASE CollectFails
  BY <1>23 DEF CollectFails, Fault, EndFailed, Collecting, NextHeld, Forget, EndOk, HistoryType
<1>24. CASE SuffixTaken
  BY <1>24, AdoptsFacts DEF SuffixTaken, Reached, EndOk, Collected, Forget, HistoryType
<1>25. CASE SuffixFails
  BY <1>25, AdoptsFacts DEF SuffixFails, Unreached, AnswerLost, Reached, EndFailed, Collected, Fault, Forget, EndOk, HistoryType
<1>26. CASE BeginStage
  BY <1>26 DEF BeginStage, Reached, Opens, HistoryType
<1>27. CASE BeginFails
  BY <1>27 DEF BeginFails, Unreached, AnswerLost, EndFailed, Opens, Fault, Forget, EndOk, HistoryType
<1>28. CASE AppendBlock
  BY <1>28 DEF AppendBlock, Reached, NextHeld, Appending, Stages, Fault, NextBlock, HistoryType
<1>29. CASE AppendFails
  BY <1>29 DEF AppendFails, Fault, Unreached, AnswerLost, NextHeld, Appending, Stages, NextBlock, HistoryType
<1>30. CASE CommitTaken
  BY <1>30, AdoptsFacts DEF CommitTaken, Reached, EndOk, Staged, Forget, HistoryType
<1>31. CASE CommitFails
  BY <1>31, AdoptsFacts DEF CommitFails, Unreached, AnswerLost, Reached, Staged, Fault, HistoryType
<1>32. CASE AbortStage
  BY <1>32 DEF AbortStage, Unreached, AnswerLost, Reached, EndFailed, Fault, Forget, EndOk, HistoryType
<1>33. CASE UNCHANGED vars
  BY <1>33 DEF vars, HistoryType
<1>34. QED
  BY <1>1, <1>2, <1>3, <1>4, <1>5, <1>6, <1>7, <1>8, <1>9, <1>10, <1>11, <1>12, <1>13, <1>14, <1>15, <1>16, <1>17, <1>18, <1>19, <1>20, <1>21, <1>22, <1>23, <1>24, <1>25, <1>26, <1>27, <1>28, <1>29, <1>30, <1>31, <1>32, <1>33
     DEF Next, Transfer, Compare, Headers, Blocks, Search, Frame, Stage

LEMMA StageStep ==
  ASSUME HistoryType, StageKind, SearchType, TransferType, [Next]_vars
  PROVE  StageKind'
<1>1. ASSUME NEW h \in Histories, ChainAdvances(h)
      PROVE  StageKind'
  BY <1>1 DEF ChainAdvances, StageKind
<1>2. ASSUME NEW h \in Histories, PeerAdvances(h)
      PROVE  StageKind'
  BY <1>2 DEF PeerAdvances, StageKind
<1>3. ASSUME NEW count \in 1..HeadersMax, GetHeaders(count)
      PROVE  StageKind'
  BY <1>3 DEF GetHeaders, StageKind
<1>4. CASE AskState
  BY <1>4 DEF AskState, StageKind
<1>5. CASE StateUnanswered
  BY <1>5 DEF StateUnanswered, StageKind
<1>6. CASE Refresh
  BY <1>6 DEF Refresh, StageKind
<1>7. CASE Reconnect
  BY <1>7, StageFacts DEF Reconnect, StageKind
<1>8. CASE ReconnectFails
  BY <1>8 DEF ReconnectFails, StageKind
<1>9. CASE CompareCurrent
  BY <1>9 DEF CompareCurrent, EndOk, Forget, StageKind
<1>10. CASE CompareDiverged
  BY <1>10 DEF CompareDiverged, StartSearch, StageKind
<1>11. CASE CompareAhead
  BY <1>11 DEF CompareAhead, StageKind
<1>12. CASE GetHeadersFails
  BY <1>12 DEF GetHeadersFails, EndFailed, Forget, EndOk, StageKind
<1>13. CASE BlocksDone
  BY <1>13 DEF BlocksDone, StageKind
<1>14. CASE BlockUnavailable
  BY <1>14 DEF BlockUnavailable, EndFailed, MoreBlocks, Shown, Forget, EndOk, StageKind
<1>15. CASE BlockAccepted
  BY <1>15 DEF BlockAccepted, MoreBlocks, Shown, StageKind
<1>16. CASE BlockRefused
  BY <1>16 DEF BlockRefused, StartSearch, MoreBlocks, Shown, StageKind
<1>17. CASE Probe
  BY <1>17 DEF Probe, Searching, Held, StageKind
<1>18. CASE ProbeFails
  BY <1>18 DEF ProbeFails, EndFailed, Searching, Held, Forget, EndOk, StageKind
<1>19. CASE SearchEnds
  BY <1>19 DEF SearchEnds, StageKind
<1>20. CASE NothingActionable
  BY <1>20 DEF NothingActionable, EndFailed, Forget, EndOk, StageKind
<1>21. CASE Collect
  BY <1>21 DEF Collect, Collecting, StageKind
<1>22. CASE CollectTooMuch
  BY <1>22 DEF CollectTooMuch, Collecting, StageKind
<1>23. CASE CollectFails
  BY <1>23 DEF CollectFails, EndFailed, Collecting, Forget, EndOk, StageKind
<1>24. CASE SuffixTaken
  BY <1>24 DEF SuffixTaken, EndOk, Collected, Forget, StageKind
<1>25. CASE SuffixFails
  BY <1>25 DEF SuffixFails, EndFailed, Collected, Forget, EndOk, StageKind
<1>26. CASE BeginStage
  BY <1>26, StageFacts DEF BeginStage, StageKind
<1>27. CASE BeginFails
  BY <1>27, StageFacts DEF BeginFails, EndFailed, Forget, EndOk, StageKind
<1>28. CASE AppendBlock
  BY <1>28, StageFacts DEF AppendBlock, Appending, StageKind
<1>29. CASE AppendFails
  BY <1>29, StageFacts DEF AppendFails, Appending, StageKind
<1>30. CASE CommitTaken
  BY <1>30, StageFacts DEF CommitTaken, EndOk, Staged, Forget, StageKind
<1>31. CASE CommitFails
  BY <1>31, StageFacts DEF CommitFails, Staged, StageKind
<1>32. CASE AbortStage
  BY <1>32, StageFacts DEF AbortStage, EndFailed, Forget, EndOk, StageKind
<1>33. CASE UNCHANGED vars
  BY <1>33 DEF vars, StageKind
<1>34. QED
  BY <1>1, <1>2, <1>3, <1>4, <1>5, <1>6, <1>7, <1>8, <1>9, <1>10, <1>11, <1>12, <1>13, <1>14, <1>15, <1>16, <1>17, <1>18, <1>19, <1>20, <1>21, <1>22, <1>23, <1>24, <1>25, <1>26, <1>27, <1>28, <1>29, <1>30, <1>31, <1>32, <1>33
     DEF Next, Transfer, Compare, Headers, Blocks, Search, Frame, Stage

LEMMA LinkStep ==
  ASSUME HistoryType, LinkType, [Next]_vars
  PROVE  LinkType'
<1>0. /\ Fault => faults' \in Nat
      /\ Unreached => link' \in {"up", "dirty", "down"} /\ faults' \in Nat
      /\ AnswerLost => link' \in {"up", "dirty", "down"} /\ faults' \in Nat
  BY FaultFacts DEF LinkType
<1> USE <1>0
<1>1. ASSUME NEW h \in Histories, ChainAdvances(h)
      PROVE  LinkType'
  BY <1>1 DEF ChainAdvances, LinkType
<1>2. ASSUME NEW h \in Histories, PeerAdvances(h)
      PROVE  LinkType'
  BY <1>2 DEF PeerAdvances, LinkType
<1>3. ASSUME NEW count \in 1..HeadersMax, GetHeaders(count)
      PROVE  LinkType'
  BY <1>3 DEF GetHeaders, LinkType
<1>4. CASE AskState
  BY <1>4 DEF AskState, LinkType
<1>5. CASE StateUnanswered
  BY <1>5 DEF StateUnanswered, LinkType
<1>6. CASE Refresh
  BY <1>6 DEF Refresh, Reached, LinkType
<1>7. CASE Reconnect
  BY <1>7 DEF Reconnect, LinkType
<1>8. CASE ReconnectFails
  BY <1>8 DEF ReconnectFails, LinkType
<1>9. CASE CompareCurrent
  BY <1>9 DEF CompareCurrent, EndOk, Forget, LinkType
<1>10. CASE CompareDiverged
  BY <1>10 DEF CompareDiverged, StartSearch, LinkType
<1>11. CASE CompareAhead
  BY <1>11 DEF CompareAhead, LinkType
<1>12. CASE GetHeadersFails
  BY <1>12 DEF GetHeadersFails, EndFailed, Forget, EndOk, LinkType
<1>13. CASE BlocksDone
  BY <1>13 DEF BlocksDone, LinkType
<1>14. CASE BlockUnavailable
  BY <1>14 DEF BlockUnavailable, EndFailed, MoreBlocks, Shown, Forget, EndOk, LinkType
<1>15. CASE BlockAccepted
  BY <1>15 DEF BlockAccepted, Reached, MoreBlocks, Shown, LinkType
<1>16. CASE BlockRefused
  BY <1>16 DEF BlockRefused, Reached, StartSearch, MoreBlocks, Shown, LinkType
<1>17. CASE Probe
  BY <1>17 DEF Probe, Reached, Searching, Held, LinkType
<1>18. CASE ProbeFails
  BY <1>18 DEF ProbeFails, Reached, EndFailed, Searching, Held, Forget, EndOk, LinkType
<1>19. CASE SearchEnds
  BY <1>19 DEF SearchEnds, LinkType
<1>20. CASE NothingActionable
  BY <1>20 DEF NothingActionable, EndFailed, Forget, EndOk, LinkType
<1>21. CASE Collect
  BY <1>21 DEF Collect, Collecting, NextHeld, NextBlock, LinkType
<1>22. CASE CollectTooMuch
  BY <1>22 DEF CollectTooMuch, Collecting, NextHeld, LinkType
<1>23. CASE CollectFails
  BY <1>23 DEF CollectFails, EndFailed, Collecting, NextHeld, Forget, EndOk, LinkType
<1>24. CASE SuffixTaken
  BY <1>24, AdoptsFacts DEF SuffixTaken, Reached, EndOk, Collected, Forget, LinkType
<1>25. CASE SuffixFails
  BY <1>25, AdoptsFacts DEF SuffixFails, Reached, EndFailed, Collected, Forget, EndOk, LinkType
<1>26. CASE BeginStage
  BY <1>26 DEF BeginStage, Reached, Opens, LinkType
<1>27. CASE BeginFails
  BY <1>27 DEF BeginFails, EndFailed, Opens, Forget, EndOk, LinkType
<1>28. CASE AppendBlock
  BY <1>28 DEF AppendBlock, Reached, NextHeld, Appending, Stages, NextBlock, LinkType
<1>29. CASE AppendFails
  BY <1>29 DEF AppendFails, NextHeld, Appending, Stages, NextBlock, LinkType
<1>30. CASE CommitTaken
  BY <1>30, AdoptsFacts DEF CommitTaken, Reached, EndOk, Staged, Forget, LinkType
<1>31. CASE CommitFails
  BY <1>31, AdoptsFacts DEF CommitFails, Reached, Staged, LinkType
<1>32. CASE AbortStage
  BY <1>32 DEF AbortStage, Reached, EndFailed, Forget, EndOk, LinkType
<1>33. CASE UNCHANGED vars
  BY <1>33 DEF vars, LinkType
<1>34. QED
  BY <1>1, <1>2, <1>3, <1>4, <1>5, <1>6, <1>7, <1>8, <1>9, <1>10, <1>11, <1>12, <1>13, <1>14, <1>15, <1>16, <1>17, <1>18, <1>19, <1>20, <1>21, <1>22, <1>23, <1>24, <1>25, <1>26, <1>27, <1>28, <1>29, <1>30, <1>31, <1>32, <1>33
     DEF Next, Transfer, Compare, Headers, Blocks, Search, Frame, Stage

LEMMA ViewsStep ==
  ASSUME HistoryType, HistoryType', ViewsType, [Next]_vars
  PROVE  ViewsType'
<1>0. /\ Cleared \in ViewType /\ View(chain) \in ViewType /\ View(peer) \in ViewType
      /\ View(chain') \in ViewType
  BY HistoryFacts DEF HistoryType
<1> USE <1>0
<1>1. ASSUME NEW h \in Histories, ChainAdvances(h)
      PROVE  ViewsType'
  BY <1>1 DEF ChainAdvances, ViewsType
<1>2. ASSUME NEW h \in Histories, PeerAdvances(h)
      PROVE  ViewsType'
  BY <1>2 DEF PeerAdvances, ViewsType
<1>3. ASSUME NEW count \in 1..HeadersMax, GetHeaders(count)
      PROVE  ViewsType'
  BY <1>3 DEF GetHeaders, ViewsType
<1>4. CASE AskState
  BY <1>4 DEF AskState, ViewsType
<1>5. CASE StateUnanswered
  BY <1>5 DEF StateUnanswered, ViewsType
<1>6. CASE Refresh
  BY <1>6 DEF Refresh, Reached, ViewsType
<1>7. CASE Reconnect
  BY <1>7 DEF Reconnect, ViewsType
<1>8. CASE ReconnectFails
  BY <1>8 DEF ReconnectFails, ViewsType
<1>9. CASE CompareCurrent
  BY <1>9 DEF CompareCurrent, EndOk, Forget, ViewsType
<1>10. CASE CompareDiverged
  BY <1>10 DEF CompareDiverged, StartSearch, ViewsType
<1>11. CASE CompareAhead
  BY <1>11 DEF CompareAhead, ViewsType
<1>12. CASE GetHeadersFails
  BY <1>12 DEF GetHeadersFails, EndFailed, Forget, EndOk, ViewsType
<1>13. CASE BlocksDone
  BY <1>13 DEF BlocksDone, ViewsType
<1>14. CASE BlockUnavailable
  BY <1>14 DEF BlockUnavailable, EndFailed, MoreBlocks, Shown, Forget, EndOk, ViewsType
<1>15. CASE BlockAccepted
  BY <1>15 DEF BlockAccepted, Reached, MoreBlocks, Shown, ViewsType
<1>16. CASE BlockRefused
  BY <1>16 DEF BlockRefused, Reached, StartSearch, MoreBlocks, Shown, ViewsType
<1>17. CASE Probe
  BY <1>17 DEF Probe, Reached, Searching, Held, ViewsType
<1>18. CASE ProbeFails
  BY <1>18 DEF ProbeFails, Reached, EndFailed, Searching, Held, Forget, EndOk, ViewsType
<1>19. CASE SearchEnds
  BY <1>19 DEF SearchEnds, ViewsType
<1>20. CASE NothingActionable
  BY <1>20 DEF NothingActionable, EndFailed, Forget, EndOk, ViewsType
<1>21. CASE Collect
  BY <1>21 DEF Collect, Collecting, NextHeld, NextBlock, ViewsType
<1>22. CASE CollectTooMuch
  BY <1>22 DEF CollectTooMuch, Collecting, NextHeld, ViewsType
<1>23. CASE CollectFails
  BY <1>23 DEF CollectFails, EndFailed, Collecting, NextHeld, Forget, EndOk, ViewsType
<1>24. CASE SuffixTaken
  BY <1>24 DEF SuffixTaken, Reached, EndOk, Collected, Forget, ViewsType
<1>25. CASE SuffixFails
  BY <1>25 DEF SuffixFails, Reached, EndFailed, Collected, Forget, EndOk, ViewsType
<1>26. CASE BeginStage
  BY <1>26 DEF BeginStage, Reached, Opens, ViewsType
<1>27. CASE BeginFails
  BY <1>27 DEF BeginFails, EndFailed, Opens, Forget, EndOk, ViewsType
<1>28. CASE AppendBlock
  BY <1>28 DEF AppendBlock, Reached, NextHeld, Appending, Stages, NextBlock, ViewsType
<1>29. CASE AppendFails
  BY <1>29 DEF AppendFails, NextHeld, Appending, Stages, NextBlock, ViewsType
<1>30. CASE CommitTaken
  BY <1>30 DEF CommitTaken, Reached, EndOk, Staged, Forget, ViewsType
<1>31. CASE CommitFails
  BY <1>31 DEF CommitFails, Reached, Staged, ViewsType
<1>32. CASE AbortStage
  BY <1>32 DEF AbortStage, Reached, EndFailed, Forget, EndOk, ViewsType
<1>33. CASE UNCHANGED vars
  BY <1>33 DEF vars, ViewsType
<1>34. QED
  BY <1>1, <1>2, <1>3, <1>4, <1>5, <1>6, <1>7, <1>8, <1>9, <1>10, <1>11, <1>12, <1>13, <1>14, <1>15, <1>16, <1>17, <1>18, <1>19, <1>20, <1>21, <1>22, <1>23, <1>24, <1>25, <1>26, <1>27, <1>28, <1>29, <1>30, <1>31, <1>32, <1>33
     DEF Next, Transfer, Compare, Headers, Blocks, Search, Frame, Stage

\* The middle of an interval of at least two numbers lies in its upper part.
LEMMA MiddleFacts ==
  ASSUME SearchType, low < high
  PROVE  Middle \in Nat /\ low < Middle /\ Middle <= high
BY DEF SearchType, Middle

LEMMA LesserFacts ==
  ASSUME ViewsType
  PROVE  Lesser(told.count, known.count) \in Nat
BY DEF ViewsType, ViewType, Lesser

LEMMA SearchStep ==
  ASSUME ViewsType, SearchType, [Next]_vars
  PROVE  SearchType'
<1>1. ASSUME NEW h \in Histories, ChainAdvances(h)
      PROVE  SearchType'
  BY <1>1 DEF ChainAdvances, SearchType
<1>2. ASSUME NEW h \in Histories, PeerAdvances(h)
      PROVE  SearchType'
  BY <1>2 DEF PeerAdvances, SearchType
<1>3. ASSUME NEW count \in 1..HeadersMax, GetHeaders(count)
      PROVE  SearchType'
  BY <1>3 DEF GetHeaders, SearchType
<1>4. CASE AskState
  BY <1>4 DEF AskState, SearchType
<1>5. CASE StateUnanswered
  BY <1>5 DEF StateUnanswered, SearchType
<1>6. CASE Refresh
  BY <1>6 DEF Refresh, Reached, SearchType
<1>7. CASE Reconnect
  BY <1>7 DEF Reconnect, SearchType
<1>8. CASE ReconnectFails
  BY <1>8 DEF ReconnectFails, SearchType
<1>9. CASE CompareCurrent
  BY <1>9 DEF CompareCurrent, EndOk, Forget, SearchType
<1>10. CASE CompareDiverged
  BY <1>10, LesserFacts DEF CompareDiverged, StartSearch, SearchType
<1>11. CASE CompareAhead
  BY <1>11 DEF CompareAhead, SearchType
<1>12. CASE GetHeadersFails
  BY <1>12 DEF GetHeadersFails, EndFailed, Forget, EndOk, SearchType
<1>13. CASE BlocksDone
  BY <1>13 DEF BlocksDone, SearchType
<1>14. CASE BlockUnavailable
  BY <1>14 DEF BlockUnavailable, EndFailed, Forget, EndOk, SearchType
<1>15. CASE BlockAccepted
  BY <1>15 DEF BlockAccepted, Reached, SearchType
<1>16. CASE BlockRefused
  BY <1>16, LesserFacts DEF BlockRefused, Reached, StartSearch, SearchType
<1>17. CASE Probe
  BY <1>17, MiddleFacts DEF Probe, Reached, Searching, SearchType
<1>18. CASE ProbeFails
  BY <1>18 DEF ProbeFails, Reached, EndFailed, Searching, Forget, EndOk, SearchType
<1>19. CASE SearchEnds
  BY <1>19 DEF SearchEnds, SearchType
<1>20. CASE NothingActionable
  BY <1>20 DEF NothingActionable, EndFailed, Forget, EndOk, SearchType
<1>21. CASE Collect
  BY <1>21 DEF Collect, Collecting, NextHeld, NextBlock, SearchType
<1>22. CASE CollectTooMuch
  BY <1>22 DEF CollectTooMuch, Collecting, NextHeld, SearchType
<1>23. CASE CollectFails
  BY <1>23 DEF CollectFails, EndFailed, Collecting, NextHeld, Forget, EndOk, SearchType
<1>24. CASE SuffixTaken
  BY <1>24 DEF SuffixTaken, Reached, EndOk, Collected, Forget, SearchType
<1>25. CASE SuffixFails
  BY <1>25 DEF SuffixFails, Reached, EndFailed, Collected, Forget, EndOk, SearchType
<1>26. CASE BeginStage
  BY <1>26 DEF BeginStage, Reached, Opens, SearchType
<1>27. CASE BeginFails
  BY <1>27 DEF BeginFails, EndFailed, Opens, Forget, EndOk, SearchType
<1>28. CASE AppendBlock
  BY <1>28 DEF AppendBlock, Reached, NextHeld, Appending, Stages, NextBlock, SearchType
<1>29. CASE AppendFails
  BY <1>29 DEF AppendFails, NextHeld, Appending, Stages, NextBlock, SearchType
<1>30. CASE CommitTaken
  BY <1>30 DEF CommitTaken, Reached, EndOk, Staged, Forget, SearchType
<1>31. CASE CommitFails
  BY <1>31 DEF CommitFails, Reached, Staged, SearchType
<1>32. CASE AbortStage
  BY <1>32 DEF AbortStage, Reached, EndFailed, Forget, EndOk, SearchType
<1>33. CASE UNCHANGED vars
  BY <1>33 DEF vars, SearchType
<1>34. QED
  BY <1>1, <1>2, <1>3, <1>4, <1>5, <1>6, <1>7, <1>8, <1>9, <1>10, <1>11, <1>12, <1>13, <1>14, <1>15, <1>16, <1>17, <1>18, <1>19, <1>20, <1>21, <1>22, <1>23, <1>24, <1>25, <1>26, <1>27, <1>28, <1>29, <1>30, <1>31, <1>32, <1>33
     DEF Next, Transfer, Compare, Headers, Blocks, Search, Frame, Stage

LEMMA TransferStep ==
  ASSUME HistoryType, ViewsType, SearchType, TransferType, [Next]_vars
  PROVE  TransferType'
<1>1. ASSUME NEW h \in Histories, ChainAdvances(h)
      PROVE  TransferType'
  BY <1>1 DEF ChainAdvances, TransferType
<1>2. ASSUME NEW h \in Histories, PeerAdvances(h)
      PROVE  TransferType'
  BY <1>2 DEF PeerAdvances, TransferType
<1>3. ASSUME NEW count \in 1..HeadersMax, GetHeaders(count)
      PROVE  TransferType'
  BY <1>3, HistoryFacts DEF GetHeaders, TransferType, HistoryType, ViewsType, ViewType
<1>4. CASE AskState
  BY <1>4 DEF AskState, TransferType
<1>5. CASE StateUnanswered
  BY <1>5 DEF StateUnanswered, TransferType
<1>6. CASE Refresh
  BY <1>6 DEF Refresh, Reached, TransferType
<1>7. CASE Reconnect
  BY <1>7 DEF Reconnect, TransferType
<1>8. CASE ReconnectFails
  BY <1>8 DEF ReconnectFails, TransferType
<1>9. CASE CompareCurrent
  BY <1>9 DEF CompareCurrent, EndOk, Forget, TransferType
<1>10. CASE CompareDiverged
  BY <1>10 DEF CompareDiverged, StartSearch, TransferType
<1>11. CASE CompareAhead
  BY <1>11 DEF CompareAhead, TransferType
<1>12. CASE GetHeadersFails
  BY <1>12 DEF GetHeadersFails, EndFailed, Forget, EndOk, TransferType
<1>13. CASE BlocksDone
  BY <1>13 DEF BlocksDone, TransferType
<1>14. CASE BlockUnavailable
  BY <1>14 DEF BlockUnavailable, EndFailed, MoreBlocks, Shown, Forget, EndOk, TransferType
<1>15. CASE BlockAccepted
  BY <1>15 DEF BlockAccepted, Reached, MoreBlocks, Shown, TransferType
<1>16. CASE BlockRefused
  BY <1>16 DEF BlockRefused, Reached, StartSearch, MoreBlocks, Shown, TransferType
<1>17. CASE Probe
  BY <1>17 DEF Probe, Reached, Searching, Held, TransferType
<1>18. CASE ProbeFails
  BY <1>18 DEF ProbeFails, Reached, EndFailed, Searching, Held, Forget, EndOk, TransferType
<1>19. CASE SearchEnds
  BY <1>19 DEF SearchEnds, TransferType
<1>20. CASE NothingActionable
  BY <1>20 DEF NothingActionable, EndFailed, Forget, EndOk, TransferType
<1>21. CASE Collect
  BY <1>21, NextBlockFacts DEF Collect, Collecting, TransferType, SearchType
<1>22. CASE CollectTooMuch
  BY <1>22 DEF CollectTooMuch, Collecting, TransferType
<1>23. CASE CollectFails
  BY <1>23 DEF CollectFails, EndFailed, Collecting, Forget, EndOk, TransferType
<1>24. CASE SuffixTaken
  BY <1>24 DEF SuffixTaken, Reached, EndOk, Collected, Forget, TransferType
<1>25. CASE SuffixFails
  BY <1>25 DEF SuffixFails, Reached, EndFailed, Collected, Forget, EndOk, TransferType
<1>26. CASE BeginStage
  BY <1>26 DEF BeginStage, Reached, TransferType
<1>27. CASE BeginFails
  BY <1>27 DEF BeginFails, EndFailed, Forget, EndOk, TransferType
<1>28. CASE AppendBlock
  BY <1>28 DEF AppendBlock, Reached, Appending, TransferType
<1>29. CASE AppendFails
  BY <1>29 DEF AppendFails, Appending, TransferType
<1>30. CASE CommitTaken
  BY <1>30 DEF CommitTaken, Reached, EndOk, Staged, Forget, TransferType
<1>31. CASE CommitFails
  BY <1>31 DEF CommitFails, Reached, Staged, TransferType
<1>32. CASE AbortStage
  BY <1>32 DEF AbortStage, Reached, EndFailed, Forget, EndOk, TransferType
<1>33. CASE UNCHANGED vars
  BY <1>33 DEF vars, TransferType
<1>34. QED
  BY <1>1, <1>2, <1>3, <1>4, <1>5, <1>6, <1>7, <1>8, <1>9, <1>10, <1>11, <1>12, <1>13, <1>14, <1>15, <1>16, <1>17, <1>18, <1>19, <1>20, <1>21, <1>22, <1>23, <1>24, <1>25, <1>26, <1>27, <1>28, <1>29, <1>30, <1>31, <1>32, <1>33
     DEF Next, Transfer, Compare, Headers, Blocks, Search, Frame, Stage

(***************************************************************************)
(* Stages.                                                                 *)
(***************************************************************************)
\* A stage is of a session Core had; while Core fills one, it is open.
StageInv ==
  /\ StageAccounted
  /\ stage.open => stage.session <= session
  /\ pc = "append" =>
       /\ stage.open /\ link = "up" /\ stage.session = session
       /\ stage.prefix = low /\ Len(stage.blocks) = offset

LEMMA OpensFacts ==
  ASSUME Opens
  PROVE  /\ stage'.open /\ stage'.session = session /\ stage'.prefix = low
         /\ stage'.blocks = <<>>
BY DEF Opens

LEMMA StagesFacts ==
  ASSUME StageKind, Stages, NextBlock(offset) \in Block
  PROVE  /\ stage'.open = stage.open /\ stage'.session = stage.session
         /\ stage'.prefix = stage.prefix
         /\ Len(stage'.blocks) = Len(stage.blocks) + 1
         /\ stage'.blocks = Append(stage.blocks, NextBlock(offset))
<1>1. stage \in StageType /\ stage.blocks \in Seq(Block)
  BY DEF StageKind, StageType
<1>2. stage'.blocks = Append(stage.blocks, NextBlock(offset))
  BY <1>1 DEF Stages, StageType
<1>3. stage'.open = stage.open /\ stage'.session = stage.session /\ stage'.prefix = stage.prefix
  BY <1>1 DEF Stages, StageType
<1>4. QED
  BY <1>1, <1>2, <1>3

LEMMA StageInvStep ==
  ASSUME HistoryType, StageKind, LinkType, SearchType, TransferType, StageInv, [Next]_vars
  PROVE  StageInv'
<1>n. NextHeld(offset) => NextBlock(offset) \in Block
  BY NextBlockFacts DEF SearchType, TransferType
<1>0. ~NoStage.open /\ stage.session \in Nat /\ session \in Nat /\ link \in {"up", "dirty", "down"}
      /\ offset \in Nat
  BY DEF NoStage, StageKind, StageType, LinkType, TransferType
<1> USE <1>0
<1>1. ASSUME NEW h \in Histories, ChainAdvances(h)
      PROVE  StageInv'
  BY <1>1 DEF ChainAdvances, StageInv, StageAccounted
<1>2. ASSUME NEW h \in Histories, PeerAdvances(h)
      PROVE  StageInv'
  BY <1>2 DEF PeerAdvances, StageInv, StageAccounted
<1>3. ASSUME NEW count \in 1..HeadersMax, GetHeaders(count)
      PROVE  StageInv'
  BY <1>3 DEF GetHeaders, StageInv, StageAccounted
<1>4. CASE AskState
  BY <1>4 DEF AskState, StageInv, StageAccounted
<1>5. CASE StateUnanswered
  BY <1>5 DEF StateUnanswered, Fault, StageInv, StageAccounted
<1>6. CASE Refresh
  BY <1>6 DEF Refresh, Unreached, Reached, Fault, StageInv, StageAccounted
<1>7. CASE Reconnect
  BY <1>7 DEF Reconnect, StageInv, StageAccounted
<1>8. CASE ReconnectFails
  BY <1>8 DEF ReconnectFails, Fault, StageInv, StageAccounted
<1>9. CASE CompareCurrent
  BY <1>9 DEF CompareCurrent, EndOk, Forget, StageInv, StageAccounted
<1>10. CASE CompareDiverged
  BY <1>10 DEF CompareDiverged, StartSearch, StageInv, StageAccounted
<1>11. CASE CompareAhead
  BY <1>11 DEF CompareAhead, StageInv, StageAccounted
<1>12. CASE GetHeadersFails
  BY <1>12 DEF GetHeadersFails, Fault, EndFailed, Forget, EndOk, StageInv, StageAccounted
<1>13. CASE BlocksDone
  BY <1>13 DEF BlocksDone, StageInv, StageAccounted
<1>14. CASE BlockUnavailable
  BY <1>14 DEF BlockUnavailable, Fault, EndFailed, MoreBlocks, Forget, EndOk, StageInv, StageAccounted
<1>15. CASE BlockAccepted
  BY <1>15 DEF BlockAccepted, Reached, MoreBlocks, StageInv, StageAccounted
<1>16. CASE BlockRefused
  BY <1>16 DEF BlockRefused, Unreached, AnswerLost, Reached, StartSearch, MoreBlocks, Fault, StageInv, StageAccounted
<1>17. CASE Probe
  BY <1>17 DEF Probe, Reached, Searching, StageInv, StageAccounted
<1>18. CASE ProbeFails
  BY <1>18 DEF ProbeFails, Fault, Unreached, Reached, EndFailed, Searching, Forget, EndOk, StageInv, StageAccounted
<1>19. CASE SearchEnds
  BY <1>19 DEF SearchEnds, StageInv, StageAccounted
<1>20. CASE NothingActionable
  BY <1>20 DEF NothingActionable, EndFailed, Forget, EndOk, StageInv, StageAccounted
<1>21. CASE Collect
  BY <1>21 DEF Collect, Collecting, Fault, StageInv, StageAccounted
<1>22. CASE CollectTooMuch
  BY <1>22 DEF CollectTooMuch, Collecting, Fault, StageInv, StageAccounted
<1>23. CASE CollectFails
  BY <1>23 DEF CollectFails, Fault, EndFailed, Collecting, Forget, EndOk, StageInv, StageAccounted
<1>24. CASE SuffixTaken
  BY <1>24 DEF SuffixTaken, Reached, EndOk, Collected, Forget, StageInv, StageAccounted
<1>25. CASE SuffixFails
  BY <1>25 DEF SuffixFails, Unreached, AnswerLost, Reached, EndFailed, Collected, Fault, Forget, EndOk, StageInv, StageAccounted
<1>26. CASE BeginStage
  BY <1>26, OpensFacts DEF BeginStage, Reached, StageInv, StageAccounted, StageKind
<1>27. CASE BeginFails
  BY <1>27, OpensFacts DEF BeginFails, Unreached, AnswerLost, EndFailed, Fault, Forget, EndOk, StageInv, StageAccounted
<1>28. CASE AppendBlock
  BY <1>28, <1>n, StagesFacts DEF AppendBlock, Reached, Appending, StageInv, StageAccounted
<1>29. CASE AppendFails
  BY <1>29, <1>n, StagesFacts DEF AppendFails, Fault, Unreached, AnswerLost, Appending, StageInv, StageAccounted
<1>30. CASE CommitTaken
  BY <1>30 DEF CommitTaken, Reached, EndOk, Staged, Forget, StageInv, StageAccounted
<1>31. CASE CommitFails
  BY <1>31 DEF CommitFails, Unreached, AnswerLost, Reached, Staged, Fault, StageInv, StageAccounted
<1>32. CASE AbortStage
  BY <1>32 DEF AbortStage, Unreached, AnswerLost, Reached, EndFailed, Fault, Forget, EndOk, StageInv, StageAccounted
<1>33. CASE UNCHANGED vars
  BY <1>33 DEF vars, StageInv, StageAccounted
<1>34. QED
  BY <1>1, <1>2, <1>3, <1>4, <1>5, <1>6, <1>7, <1>8, <1>9, <1>10, <1>11, <1>12, <1>13, <1>14, <1>15, <1>16, <1>17, <1>18, <1>19, <1>20, <1>21, <1>22, <1>23, <1>24, <1>25, <1>26, <1>27, <1>28, <1>29, <1>30, <1>31, <1>32, <1>33
     DEF Next, Transfer, Compare, Headers, Blocks, Search, Frame, Stage

(***************************************************************************)
(* Offers.                                                                 *)
(***************************************************************************)
Shorter == Lesser(told.count, known.count)

\* What the search knows while neither history changes: below low they agree,
\* above high they do not.
SearchExact ==
  /\ high <= Shorter
  /\ low > 0 => low <= Len(peer) /\ low <= Len(chain) /\ peer[low] = chain[low]
  /\ high < Shorter =>
       high + 1 <= Len(peer) /\ high + 1 <= Len(chain) /\ peer[high + 1] # chain[high + 1]

Copied(blocks) ==
  /\ low + Len(blocks) <= Len(peer)
  /\ \A i \in 1..Len(blocks) : blocks[i] = peer[low + i]

Transferring == pc \in {"collect", "begin", "append"}
ActionInv == Transferring => Actionable
SearchInv == pc = "search" /\ steady => SearchExact
PrefixInv == Transferring /\ steady => SearchExact /\ low = high
CollectInv == pc = "collect" /\ steady => Copied(suffix)
AppendInv == pc = "append" /\ steady => Copied(stage.blocks)

\* Two histories that agree on a block agree below it.
LEMMA AgreeBelow ==
  ASSUME NEW g \in Histories, NEW h \in Histories, NEW n \in Nat,
         n > 0 => n <= Len(g) /\ n <= Len(h) /\ g[n] = h[n]
  PROVE  SameBelow(g, h, n)
<1>1. CASE n = 0
  BY <1>1 DEF SameBelow
<1>2. CASE n > 0
  <2>1. Len(g) \in Nat /\ n \in 1..Len(g)
    BY <1>2, HistoryFacts
  <2>2. QED
    BY <1>2, <2>1, HistoryAssumption
<1>3. QED
  BY <1>1, <1>2

\* A prefix of one history and the blocks another has after it are the
\* beginning of the other.
LEMMA Joined ==
  ASSUME NEW g \in Seq(Block), NEW h \in Seq(Block), NEW s \in Seq(Block), NEW n \in Nat,
         n <= Len(g), n + Len(s) <= Len(h), SameBelow(g, h, n),
         \A i \in 1..Len(s) : s[i] = h[n + i]
  PROVE  SubSeq(g, 1, n) \o s = SubSeq(h, 1, n + Len(s))
<1> DEFINE a == SubSeq(g, 1, n)
           b == SubSeq(h, 1, n + Len(s))
<1>1. a \in Seq(Block) /\ Len(a) = n /\ \A i \in 1..n : a[i] = g[i]
  BY SubSeqProperties
<1>2. b \in Seq(Block) /\ Len(b) = n + Len(s) /\ \A i \in 1..n + Len(s) : b[i] = h[i]
  BY SubSeqProperties
<1>3. /\ a \o s \in Seq(Block) /\ Len(a \o s) = n + Len(s)
      /\ \A i \in 1..n + Len(s) : (a \o s)[i] = IF i <= n THEN a[i] ELSE s[i - n]
  BY <1>1, ConcatProperties
<1>4. ASSUME NEW i \in 1..n + Len(s) PROVE (a \o s)[i] = b[i]
  <2>1. CASE i <= n
    BY <1>1, <1>2, <1>3, <2>1 DEF SameBelow
  <2>2. CASE i > n
    <3>1. i - n \in 1..Len(s) /\ n + (i - n) = i
      BY <2>2
    <3>2. s[i - n] = h[i]
      BY <3>1
    <3>3. QED
      BY <1>2, <1>3, <2>2, <3>2
  <2>3. QED
    BY <2>1, <2>2
<1> HIDE DEF a, b
<1>5. QED
  BY <1>2, <1>3, <1>4, SeqEqual DEF a, b

LEMMA CopiedOffered ==
  ASSUME TypeOK, SearchExact, low = high, Actionable, NEW blocks \in Seq(Block),
         Copied(blocks), Len(blocks) = SuffixCount
  PROVE  Offering(blocks)
<1>1. /\ chain \in Histories /\ peer \in Histories /\ chain \in Seq(Block) /\ peer \in Seq(Block)
      /\ low \in Nat /\ told.count \in Nat /\ known.count \in Nat /\ Shorter \in Nat
  BY HistoryFacts, TypeParts, LesserFacts DEF TypeOK, ViewType, Shorter
<1>2. low > 0 /\ low <= Len(peer) /\ low <= Len(chain)
  BY DEF SearchExact, Actionable
<1>3. SameBelow(peer, chain, low) /\ SameBelow(chain, peer, low)
  BY <1>1, <1>2, AgreeBelow DEF SearchExact
<1>4. CommonPrefix(low)
  BY <1>1, <1>2, <1>3 DEF CommonPrefix, SearchExact, Shorter
<1>5. low + Len(blocks) = told.count
  BY <1>1 DEF SuffixCount
<1>6. Offered(low, blocks) = SubSeq(peer, 1, told.count)
  <2>1. SubSeq(chain, 1, low) \o blocks = SubSeq(peer, 1, low + Len(blocks))
    <3>1. low + Len(blocks) <= Len(peer) /\ \A i \in 1..Len(blocks) : blocks[i] = peer[low + i]
      BY DEF Copied
    <3>2. QED
      <4>1. chain \in Seq(Block) /\ peer \in Seq(Block) /\ blocks \in Seq(Block) /\ low \in Nat
        BY <1>1
      <4>2. low <= Len(chain) /\ SameBelow(chain, peer, low)
        BY <1>2, <1>3
      <4>3. QED
        BY <3>1, <4>1, <4>2, Joined
  <2>2. QED
    BY <1>5, <2>1 DEF Offered
<1>7. QED
  BY <1>4, <1>6 DEF Offering

LEMMA ActionStep ==
  ASSUME ActionInv, [Next]_vars
  PROVE  ActionInv'
<1>1. ASSUME NEW h \in Histories, ChainAdvances(h)
      PROVE  ActionInv'
  BY <1>1 DEF ChainAdvances, ActionInv, Transferring, Actionable, SuffixCount
<1>2. ASSUME NEW h \in Histories, PeerAdvances(h)
      PROVE  ActionInv'
  BY <1>2 DEF PeerAdvances, ActionInv, Transferring, Actionable, SuffixCount
<1>3. ASSUME NEW count \in 1..HeadersMax, GetHeaders(count)
      PROVE  ActionInv'
  BY <1>3 DEF GetHeaders, ActionInv, Transferring, Actionable, SuffixCount
<1>4. CASE AskState
  BY <1>4 DEF AskState, ActionInv, Transferring, Actionable, SuffixCount
<1>5. CASE StateUnanswered
  BY <1>5 DEF StateUnanswered, ActionInv, Transferring, Actionable, SuffixCount
<1>6. CASE Refresh
  BY <1>6 DEF Refresh, Reached, ActionInv, Transferring, Actionable, SuffixCount
<1>7. CASE Reconnect
  BY <1>7 DEF Reconnect, ActionInv, Transferring, Actionable, SuffixCount
<1>8. CASE ReconnectFails
  BY <1>8 DEF ReconnectFails, ActionInv, Transferring, Actionable, SuffixCount
<1>9. CASE CompareCurrent
  BY <1>9 DEF CompareCurrent, EndOk, Forget, ActionInv, Transferring, Actionable, SuffixCount
<1>10. CASE CompareDiverged
  BY <1>10 DEF CompareDiverged, StartSearch, ActionInv, Transferring, Actionable, SuffixCount
<1>11. CASE CompareAhead
  BY <1>11 DEF CompareAhead, ActionInv, Transferring, Actionable, SuffixCount
<1>12. CASE GetHeadersFails
  BY <1>12 DEF GetHeadersFails, EndFailed, Forget, EndOk, ActionInv, Transferring, Actionable, SuffixCount
<1>13. CASE BlocksDone
  BY <1>13 DEF BlocksDone, ActionInv, Transferring, Actionable, SuffixCount
<1>14. CASE BlockUnavailable
  BY <1>14 DEF BlockUnavailable, EndFailed, MoreBlocks, Forget, EndOk, ActionInv, Transferring, Actionable, SuffixCount
<1>15. CASE BlockAccepted
  BY <1>15 DEF BlockAccepted, Reached, MoreBlocks, ActionInv, Transferring, Actionable, SuffixCount
<1>16. CASE BlockRefused
  BY <1>16 DEF BlockRefused, Reached, StartSearch, MoreBlocks, ActionInv, Transferring, Actionable, SuffixCount
<1>17. CASE Probe
  BY <1>17 DEF Probe, Reached, Searching, ActionInv, Transferring, Actionable, SuffixCount
<1>18. CASE ProbeFails
  BY <1>18 DEF ProbeFails, Reached, EndFailed, Searching, Forget, EndOk, ActionInv, Transferring, Actionable, SuffixCount
<1>19. CASE SearchEnds
  BY <1>19 DEF SearchEnds, ActionInv, Transferring, Actionable, SuffixCount
<1>20. CASE NothingActionable
  BY <1>20 DEF NothingActionable, EndFailed, Forget, EndOk, ActionInv, Transferring, Actionable, SuffixCount
<1>21. CASE Collect
  BY <1>21 DEF Collect, Collecting, ActionInv, Transferring, Actionable, SuffixCount
<1>22. CASE CollectTooMuch
  BY <1>22 DEF CollectTooMuch, Collecting, ActionInv, Transferring, Actionable, SuffixCount
<1>23. CASE CollectFails
  BY <1>23 DEF CollectFails, EndFailed, Collecting, Forget, EndOk, ActionInv, Transferring, Actionable, SuffixCount
<1>24. CASE SuffixTaken
  BY <1>24 DEF SuffixTaken, Reached, EndOk, Collected, Forget, ActionInv, Transferring, Actionable, SuffixCount
<1>25. CASE SuffixFails
  BY <1>25 DEF SuffixFails, Reached, EndFailed, Collected, Forget, EndOk, ActionInv, Transferring, Actionable, SuffixCount
<1>26. CASE BeginStage
  BY <1>26 DEF BeginStage, Reached, ActionInv, Transferring, Actionable, SuffixCount
<1>27. CASE BeginFails
  BY <1>27 DEF BeginFails, EndFailed, Forget, EndOk, ActionInv, Transferring, Actionable, SuffixCount
<1>28. CASE AppendBlock
  BY <1>28 DEF AppendBlock, Reached, Appending, ActionInv, Transferring, Actionable, SuffixCount
<1>29. CASE AppendFails
  BY <1>29 DEF AppendFails, Appending, ActionInv, Transferring, Actionable, SuffixCount
<1>30. CASE CommitTaken
  BY <1>30 DEF CommitTaken, Reached, EndOk, Staged, Forget, ActionInv, Transferring, Actionable, SuffixCount
<1>31. CASE CommitFails
  BY <1>31 DEF CommitFails, Reached, Staged, ActionInv, Transferring, Actionable, SuffixCount
<1>32. CASE AbortStage
  BY <1>32 DEF AbortStage, Reached, EndFailed, Forget, EndOk, ActionInv, Transferring, Actionable, SuffixCount
<1>33. CASE UNCHANGED vars
  BY <1>33 DEF vars, ActionInv, Transferring, Actionable, SuffixCount
<1>34. QED
  BY <1>1, <1>2, <1>3, <1>4, <1>5, <1>6, <1>7, <1>8, <1>9, <1>10, <1>11, <1>12, <1>13, <1>14, <1>15, <1>16, <1>17, <1>18, <1>19, <1>20, <1>21, <1>22, <1>23, <1>24, <1>25, <1>26, <1>27, <1>28, <1>29, <1>30, <1>31, <1>32, <1>33
     DEF Next, Transfer, Compare, Headers, Blocks, Search, Frame, Stage

LEMMA SearchInvStep ==
  ASSUME TypeOK, SearchInv, [Next]_vars
  PROVE  SearchInv'
<1>0. Shorter \in Nat /\ low \in Nat /\ high \in Nat /\ SearchType
  BY LesserFacts, TypeParts DEF Shorter, TypeOK
<1>1. ASSUME NEW h \in Histories, ChainAdvances(h)
      PROVE  SearchInv'
  BY <1>1 DEF ChainAdvances, SearchInv
<1>2. ASSUME NEW h \in Histories, PeerAdvances(h)
      PROVE  SearchInv'
  BY <1>2 DEF PeerAdvances, SearchInv
<1>3. ASSUME NEW count \in 1..HeadersMax, GetHeaders(count)
      PROVE  SearchInv'
  BY <1>3 DEF GetHeaders, SearchInv
<1>4. CASE AskState
  BY <1>4 DEF AskState, SearchInv
<1>5. CASE StateUnanswered
  BY <1>5 DEF StateUnanswered, SearchInv
<1>6. CASE Refresh
  BY <1>6 DEF Refresh, SearchInv
<1>7. CASE Reconnect
  BY <1>7 DEF Reconnect, SearchInv
<1>8. CASE ReconnectFails
  BY <1>8 DEF ReconnectFails, SearchInv
<1>9. CASE CompareCurrent
  BY <1>9 DEF CompareCurrent, EndOk, Forget, SearchInv
<1>10. CASE CompareDiverged
  BY <1>10, <1>0 DEF CompareDiverged, StartSearch, SearchInv, SearchExact, Shorter
<1>11. CASE CompareAhead
  BY <1>11 DEF CompareAhead, SearchInv
<1>12. CASE GetHeadersFails
  BY <1>12 DEF GetHeadersFails, EndFailed, Forget, EndOk, SearchInv
<1>13. CASE BlocksDone
  BY <1>13 DEF BlocksDone, SearchInv
<1>14. CASE BlockUnavailable
  BY <1>14 DEF BlockUnavailable, EndFailed, MoreBlocks, Forget, EndOk, SearchInv
<1>15. CASE BlockAccepted
  BY <1>15 DEF BlockAccepted, MoreBlocks, SearchInv
<1>16. CASE BlockRefused
  BY <1>16, <1>0 DEF BlockRefused, StartSearch, MoreBlocks, SearchInv, SearchExact, Shorter
<1>17. CASE Probe
  BY <1>17, <1>0, MiddleFacts DEF Probe, Searching, Held, SearchInv, SearchExact, Shorter
<1>18. CASE ProbeFails
  BY <1>18 DEF ProbeFails, EndFailed, Searching, Held, Forget, EndOk, SearchInv
<1>19. CASE SearchEnds
  BY <1>19 DEF SearchEnds, SearchInv
<1>20. CASE NothingActionable
  BY <1>20 DEF NothingActionable, EndFailed, Forget, EndOk, SearchInv
<1>21. CASE Collect
  BY <1>21 DEF Collect, Collecting, SearchInv
<1>22. CASE CollectTooMuch
  BY <1>22 DEF CollectTooMuch, Collecting, SearchInv
<1>23. CASE CollectFails
  BY <1>23 DEF CollectFails, EndFailed, Collecting, Forget, EndOk, SearchInv
<1>24. CASE SuffixTaken
  BY <1>24 DEF SuffixTaken, EndOk, Collected, Forget, SearchInv
<1>25. CASE SuffixFails
  BY <1>25 DEF SuffixFails, EndFailed, Collected, Forget, EndOk, SearchInv
<1>26. CASE BeginStage
  BY <1>26 DEF BeginStage, SearchInv
<1>27. CASE BeginFails
  BY <1>27 DEF BeginFails, EndFailed, Forget, EndOk, SearchInv
<1>28. CASE AppendBlock
  BY <1>28 DEF AppendBlock, Appending, SearchInv
<1>29. CASE AppendFails
  BY <1>29 DEF AppendFails, Appending, SearchInv
<1>30. CASE CommitTaken
  BY <1>30 DEF CommitTaken, EndOk, Staged, Forget, SearchInv
<1>31. CASE CommitFails
  BY <1>31 DEF CommitFails, Staged, SearchInv
<1>32. CASE AbortStage
  BY <1>32 DEF AbortStage, EndFailed, Forget, EndOk, SearchInv
<1>33. CASE UNCHANGED vars
  BY <1>33 DEF vars, SearchInv, SearchExact, Shorter
<1>34. QED
  BY <1>1, <1>2, <1>3, <1>4, <1>5, <1>6, <1>7, <1>8, <1>9, <1>10, <1>11, <1>12, <1>13, <1>14, <1>15, <1>16, <1>17, <1>18, <1>19, <1>20, <1>21, <1>22, <1>23, <1>24, <1>25, <1>26, <1>27, <1>28, <1>29, <1>30, <1>31, <1>32, <1>33
     DEF Next, Transfer, Compare, Headers, Blocks, Search, Frame, Stage

LEMMA PrefixStep ==
  ASSUME PrefixInv, SearchInv, [Next]_vars
  PROVE  PrefixInv'
<1>1. ASSUME NEW h \in Histories, ChainAdvances(h)
      PROVE  PrefixInv'
  BY <1>1 DEF ChainAdvances, PrefixInv, Transferring
<1>2. ASSUME NEW h \in Histories, PeerAdvances(h)
      PROVE  PrefixInv'
  BY <1>2 DEF PeerAdvances, PrefixInv, Transferring
<1>3. ASSUME NEW count \in 1..HeadersMax, GetHeaders(count)
      PROVE  PrefixInv'
  BY <1>3 DEF GetHeaders, PrefixInv, Transferring
<1>4. CASE AskState
  BY <1>4 DEF AskState, PrefixInv, Transferring
<1>5. CASE StateUnanswered
  BY <1>5 DEF StateUnanswered, PrefixInv, Transferring
<1>6. CASE Refresh
  BY <1>6 DEF Refresh, Reached, PrefixInv, Transferring
<1>7. CASE Reconnect
  BY <1>7 DEF Reconnect, PrefixInv, Transferring
<1>8. CASE ReconnectFails
  BY <1>8 DEF ReconnectFails, PrefixInv, Transferring
<1>9. CASE CompareCurrent
  BY <1>9 DEF CompareCurrent, EndOk, Forget, PrefixInv, Transferring
<1>10. CASE CompareDiverged
  BY <1>10 DEF CompareDiverged, StartSearch, PrefixInv, Transferring
<1>11. CASE CompareAhead
  BY <1>11 DEF CompareAhead, PrefixInv, Transferring
<1>12. CASE GetHeadersFails
  BY <1>12 DEF GetHeadersFails, EndFailed, Forget, EndOk, PrefixInv, Transferring
<1>13. CASE BlocksDone
  BY <1>13 DEF BlocksDone, PrefixInv, Transferring
<1>14. CASE BlockUnavailable
  BY <1>14 DEF BlockUnavailable, EndFailed, MoreBlocks, Forget, EndOk, PrefixInv, Transferring
<1>15. CASE BlockAccepted
  BY <1>15 DEF BlockAccepted, Reached, MoreBlocks, PrefixInv, Transferring
<1>16. CASE BlockRefused
  BY <1>16 DEF BlockRefused, Reached, StartSearch, MoreBlocks, PrefixInv, Transferring
<1>17. CASE Probe
  BY <1>17 DEF Probe, Reached, Searching, PrefixInv, Transferring
<1>18. CASE ProbeFails
  BY <1>18 DEF ProbeFails, Reached, EndFailed, Searching, Forget, EndOk, PrefixInv, Transferring
<1>19. CASE SearchEnds
  BY <1>19 DEF SearchEnds, PrefixInv, Transferring, SearchExact, Shorter, SearchInv
<1>20. CASE NothingActionable
  BY <1>20 DEF NothingActionable, EndFailed, Forget, EndOk, PrefixInv, Transferring
<1>21. CASE Collect
  BY <1>21 DEF Collect, Collecting, PrefixInv, Transferring, SearchExact, Shorter
<1>22. CASE CollectTooMuch
  BY <1>22 DEF CollectTooMuch, Collecting, PrefixInv, Transferring, SearchExact, Shorter
<1>23. CASE CollectFails
  BY <1>23 DEF CollectFails, EndFailed, Collecting, Forget, EndOk, PrefixInv, Transferring
<1>24. CASE SuffixTaken
  BY <1>24 DEF SuffixTaken, Reached, EndOk, Collected, Forget, PrefixInv, Transferring
<1>25. CASE SuffixFails
  BY <1>25 DEF SuffixFails, Reached, EndFailed, Collected, Forget, EndOk, PrefixInv, Transferring
<1>26. CASE BeginStage
  BY <1>26 DEF BeginStage, Reached, PrefixInv, Transferring, SearchExact, Shorter
<1>27. CASE BeginFails
  BY <1>27 DEF BeginFails, EndFailed, Forget, EndOk, PrefixInv, Transferring
<1>28. CASE AppendBlock
  BY <1>28 DEF AppendBlock, Reached, Appending, PrefixInv, Transferring, SearchExact, Shorter
<1>29. CASE AppendFails
  BY <1>29 DEF AppendFails, Appending, PrefixInv, Transferring
<1>30. CASE CommitTaken
  BY <1>30 DEF CommitTaken, Reached, EndOk, Staged, Forget, PrefixInv, Transferring
<1>31. CASE CommitFails
  BY <1>31 DEF CommitFails, Reached, Staged, PrefixInv, Transferring
<1>32. CASE AbortStage
  BY <1>32 DEF AbortStage, Reached, EndFailed, Forget, EndOk, PrefixInv, Transferring
<1>33. CASE UNCHANGED vars
  BY <1>33 DEF vars, PrefixInv, Transferring, SearchExact, Shorter
<1>34. QED
  BY <1>1, <1>2, <1>3, <1>4, <1>5, <1>6, <1>7, <1>8, <1>9, <1>10, <1>11, <1>12, <1>13, <1>14, <1>15, <1>16, <1>17, <1>18, <1>19, <1>20, <1>21, <1>22, <1>23, <1>24, <1>25, <1>26, <1>27, <1>28, <1>29, <1>30, <1>31, <1>32, <1>33
     DEF Next, Transfer, Compare, Headers, Blocks, Search, Frame, Stage

LEMMA CopiedMore ==
  ASSUME HistoryType, low \in Nat, NEW blocks \in Seq(Block), Copied(blocks),
         NextHeld(Len(blocks))
  PROVE  Copied(Append(blocks, NextBlock(Len(blocks))))
<1> DEFINE more == Append(blocks, NextBlock(Len(blocks)))
<1>1. peer \in Seq(Block) /\ Len(peer) \in Nat /\ Len(blocks) \in Nat
  BY HistoryFacts DEF HistoryType
<1>2. Len(more) = Len(blocks) + 1
  OBVIOUS
<1>3. ASSUME NEW i \in 1..Len(more) PROVE more[i] = peer[low + i]
  <2>1. CASE i = Len(blocks) + 1
    BY <2>1 DEF NextBlock
  <2>2. CASE i <= Len(blocks)
    <3>1. i \in 1..Len(blocks) /\ more[i] = blocks[i]
      BY <2>2
    <3>2. QED
      BY <3>1 DEF Copied
  <2>3. QED
    BY <1>1, <1>2, <2>1, <2>2
<1> HIDE DEF more
<1>4. low + Len(more) <= Len(peer)
  BY <1>1, <1>2 DEF NextHeld
<1>5. QED
  BY <1>3, <1>4 DEF Copied, more

LEMMA CopiedNone ==
  ASSUME HistoryType, low \in Nat, SearchExact, Actionable
  PROVE  Copied(<<>>)
<1>1. low <= Len(peer) /\ Len(peer) \in Nat
  BY HistoryFacts DEF HistoryType, SearchExact, Actionable
<1>2. QED
  BY <1>1 DEF Copied

LEMMA CollectStep ==
  ASSUME TypeOK, SearchInv, CollectInv, [Next]_vars
  PROVE  CollectInv'
<1>1. ASSUME NEW h \in Histories, ChainAdvances(h)
      PROVE  CollectInv'
  BY <1>1 DEF ChainAdvances, CollectInv, Copied
<1>2. ASSUME NEW h \in Histories, PeerAdvances(h)
      PROVE  CollectInv'
  BY <1>2 DEF PeerAdvances, CollectInv, Copied
<1>3. ASSUME NEW count \in 1..HeadersMax, GetHeaders(count)
      PROVE  CollectInv'
  BY <1>3 DEF GetHeaders, CollectInv, Copied
<1>4. CASE AskState
  BY <1>4 DEF AskState, CollectInv, Copied
<1>5. CASE StateUnanswered
  BY <1>5 DEF StateUnanswered, CollectInv, Copied
<1>6. CASE Refresh
  BY <1>6 DEF Refresh, Reached, CollectInv, Copied
<1>7. CASE Reconnect
  BY <1>7 DEF Reconnect, CollectInv, Copied
<1>8. CASE ReconnectFails
  BY <1>8 DEF ReconnectFails, CollectInv, Copied
<1>9. CASE CompareCurrent
  BY <1>9 DEF CompareCurrent, EndOk, Forget, CollectInv, Copied
<1>10. CASE CompareDiverged
  BY <1>10 DEF CompareDiverged, StartSearch, CollectInv, Copied
<1>11. CASE CompareAhead
  BY <1>11 DEF CompareAhead, CollectInv, Copied
<1>12. CASE GetHeadersFails
  BY <1>12 DEF GetHeadersFails, EndFailed, Forget, EndOk, CollectInv, Copied
<1>13. CASE BlocksDone
  BY <1>13 DEF BlocksDone, CollectInv, Copied
<1>14. CASE BlockUnavailable
  BY <1>14 DEF BlockUnavailable, EndFailed, MoreBlocks, Forget, EndOk, CollectInv, Copied
<1>15. CASE BlockAccepted
  BY <1>15 DEF BlockAccepted, Reached, MoreBlocks, CollectInv, Copied
<1>16. CASE BlockRefused
  BY <1>16 DEF BlockRefused, Reached, StartSearch, MoreBlocks, CollectInv, Copied
<1>17. CASE Probe
  BY <1>17 DEF Probe, Reached, Searching, CollectInv, Copied
<1>18. CASE ProbeFails
  BY <1>18 DEF ProbeFails, Reached, EndFailed, Searching, Forget, EndOk, CollectInv, Copied
<1>19. CASE SearchEnds
  <2>1. pc = "search" /\ low = high /\ Actionable /\ suffix' = <<>>
        /\ UNCHANGED <<peer, low, steady>>
    BY <1>19 DEF SearchEnds
  <2>2. steady => Copied(<<>>)
    BY <2>1, CopiedNone, TypeParts DEF SearchInv, TypeOK
  <2>3. QED
    BY <2>1, <2>2 DEF CollectInv, Copied
<1>20. CASE NothingActionable
  BY <1>20 DEF NothingActionable, EndFailed, Forget, EndOk, CollectInv, Copied
<1>21. CASE Collect
  <2>1. /\ pc = "collect" /\ NextHeld(Len(suffix))
        /\ suffix' = Append(suffix, NextBlock(Len(suffix)))
        /\ UNCHANGED <<peer, low, steady>>
    BY <1>21 DEF Collect, Collecting
  <2>2. steady => Copied(Append(suffix, NextBlock(Len(suffix))))
    BY <2>1, CopiedMore, TypeParts DEF CollectInv, TypeOK
  <2>3. QED
    BY <2>1, <2>2 DEF CollectInv, Copied
<1>22. CASE CollectTooMuch
  BY <1>22 DEF CollectTooMuch, Collecting, CollectInv, Copied
<1>23. CASE CollectFails
  BY <1>23 DEF CollectFails, EndFailed, Collecting, Forget, EndOk, CollectInv, Copied
<1>24. CASE SuffixTaken
  BY <1>24 DEF SuffixTaken, Reached, EndOk, Collected, Forget, CollectInv, Copied
<1>25. CASE SuffixFails
  BY <1>25 DEF SuffixFails, Reached, EndFailed, Collected, Forget, EndOk, CollectInv, Copied
<1>26. CASE BeginStage
  BY <1>26 DEF BeginStage, Reached, CollectInv, Copied
<1>27. CASE BeginFails
  BY <1>27 DEF BeginFails, EndFailed, Forget, EndOk, CollectInv, Copied
<1>28. CASE AppendBlock
  BY <1>28 DEF AppendBlock, Reached, Appending, CollectInv, Copied
<1>29. CASE AppendFails
  BY <1>29 DEF AppendFails, Appending, CollectInv, Copied
<1>30. CASE CommitTaken
  BY <1>30 DEF CommitTaken, Reached, EndOk, Staged, Forget, CollectInv, Copied
<1>31. CASE CommitFails
  BY <1>31 DEF CommitFails, Reached, Staged, CollectInv, Copied
<1>32. CASE AbortStage
  BY <1>32 DEF AbortStage, Reached, EndFailed, Forget, EndOk, CollectInv, Copied
<1>33. CASE UNCHANGED vars
  BY <1>33 DEF vars, CollectInv, Copied
<1>34. QED
  BY <1>1, <1>2, <1>3, <1>4, <1>5, <1>6, <1>7, <1>8, <1>9, <1>10, <1>11, <1>12, <1>13, <1>14, <1>15, <1>16, <1>17, <1>18, <1>19, <1>20, <1>21, <1>22, <1>23, <1>24, <1>25, <1>26, <1>27, <1>28, <1>29, <1>30, <1>31, <1>32, <1>33
     DEF Next, Transfer, Compare, Headers, Blocks, Search, Frame, Stage

LEMMA AppendStep ==
  ASSUME TypeOK, StageInv, ActionInv, PrefixInv, AppendInv, [Next]_vars
  PROVE  AppendInv'
<1>1. ASSUME NEW h \in Histories, ChainAdvances(h)
      PROVE  AppendInv'
  BY <1>1 DEF ChainAdvances, AppendInv, Copied
<1>2. ASSUME NEW h \in Histories, PeerAdvances(h)
      PROVE  AppendInv'
  BY <1>2 DEF PeerAdvances, AppendInv, Copied
<1>3. ASSUME NEW count \in 1..HeadersMax, GetHeaders(count)
      PROVE  AppendInv'
  BY <1>3 DEF GetHeaders, AppendInv, Copied
<1>4. CASE AskState
  BY <1>4 DEF AskState, AppendInv, Copied
<1>5. CASE StateUnanswered
  BY <1>5 DEF StateUnanswered, AppendInv, Copied
<1>6. CASE Refresh
  BY <1>6 DEF Refresh, Reached, AppendInv, Copied
<1>7. CASE Reconnect
  BY <1>7 DEF Reconnect, AppendInv, Copied
<1>8. CASE ReconnectFails
  BY <1>8 DEF ReconnectFails, AppendInv, Copied
<1>9. CASE CompareCurrent
  BY <1>9 DEF CompareCurrent, EndOk, Forget, AppendInv, Copied
<1>10. CASE CompareDiverged
  BY <1>10 DEF CompareDiverged, StartSearch, AppendInv, Copied
<1>11. CASE CompareAhead
  BY <1>11 DEF CompareAhead, AppendInv, Copied
<1>12. CASE GetHeadersFails
  BY <1>12 DEF GetHeadersFails, EndFailed, Forget, EndOk, AppendInv, Copied
<1>13. CASE BlocksDone
  BY <1>13 DEF BlocksDone, AppendInv, Copied
<1>14. CASE BlockUnavailable
  BY <1>14 DEF BlockUnavailable, EndFailed, MoreBlocks, Forget, EndOk, AppendInv, Copied
<1>15. CASE BlockAccepted
  BY <1>15 DEF BlockAccepted, Reached, MoreBlocks, AppendInv, Copied
<1>16. CASE BlockRefused
  BY <1>16 DEF BlockRefused, Reached, StartSearch, MoreBlocks, AppendInv, Copied
<1>17. CASE Probe
  BY <1>17 DEF Probe, Reached, Searching, AppendInv, Copied
<1>18. CASE ProbeFails
  BY <1>18 DEF ProbeFails, Reached, EndFailed, Searching, Forget, EndOk, AppendInv, Copied
<1>19. CASE SearchEnds
  BY <1>19 DEF SearchEnds, AppendInv, Copied
<1>20. CASE NothingActionable
  BY <1>20 DEF NothingActionable, EndFailed, Forget, EndOk, AppendInv, Copied
<1>21. CASE Collect
  BY <1>21 DEF Collect, Collecting, AppendInv, Copied
<1>22. CASE CollectTooMuch
  BY <1>22 DEF CollectTooMuch, Collecting, AppendInv, Copied
<1>23. CASE CollectFails
  BY <1>23 DEF CollectFails, EndFailed, Collecting, Forget, EndOk, AppendInv, Copied
<1>24. CASE SuffixTaken
  BY <1>24 DEF SuffixTaken, Reached, EndOk, Collected, Forget, AppendInv, Copied
<1>25. CASE SuffixFails
  BY <1>25 DEF SuffixFails, Reached, EndFailed, Collected, Forget, EndOk, AppendInv, Copied
<1>26. CASE BeginStage
  <2>1. pc = "begin" /\ Opens /\ UNCHANGED <<peer, low, steady>>
    BY <1>26 DEF BeginStage
  <2>2. stage'.blocks = <<>>
    BY <2>1, OpensFacts
  <2>3. steady => Copied(<<>>)
    BY <2>1, CopiedNone, TypeParts DEF PrefixInv, ActionInv, Transferring, TypeOK
  <2>4. QED
    BY <2>1, <2>2, <2>3 DEF AppendInv, Copied
<1>27. CASE BeginFails
  BY <1>27 DEF BeginFails, EndFailed, Forget, EndOk, AppendInv, Copied
<1>28. CASE AppendBlock
  <2>1. /\ pc = "append" /\ NextHeld(offset) /\ Stages
        /\ UNCHANGED <<peer, low, steady>>
    BY <1>28 DEF AppendBlock, Appending
  <2>2. Len(stage.blocks) = offset /\ offset \in Nat /\ stage.blocks \in Seq(Block)
    BY <2>1 DEF StageInv, TypeOK, StageType
  <2>3. stage'.blocks = Append(stage.blocks, NextBlock(offset))
    <3>1. NextBlock(offset) \in Block
      BY <2>1, <2>2, NextBlockFacts, TypeParts DEF TypeOK
    <3>2. QED
      BY <2>1, <3>1, StagesFacts, TypeParts
  <2>4. steady => Copied(Append(stage.blocks, NextBlock(Len(stage.blocks))))
    BY <2>1, <2>2, CopiedMore, TypeParts DEF AppendInv, TypeOK
  <2>5. QED
    BY <2>1, <2>2, <2>3, <2>4 DEF AppendInv, Copied
<1>29. CASE AppendFails
  BY <1>29 DEF AppendFails, Appending, AppendInv, Copied
<1>30. CASE CommitTaken
  BY <1>30 DEF CommitTaken, Reached, EndOk, Staged, Forget, AppendInv, Copied
<1>31. CASE CommitFails
  BY <1>31 DEF CommitFails, Reached, Staged, AppendInv, Copied
<1>32. CASE AbortStage
  BY <1>32 DEF AbortStage, Reached, EndFailed, Forget, EndOk, AppendInv, Copied
<1>33. CASE UNCHANGED vars
  BY <1>33 DEF vars, AppendInv, Copied
<1>34. QED
  BY <1>1, <1>2, <1>3, <1>4, <1>5, <1>6, <1>7, <1>8, <1>9, <1>10, <1>11, <1>12, <1>13, <1>14, <1>15, <1>16, <1>17, <1>18, <1>19, <1>20, <1>21, <1>22, <1>23, <1>24, <1>25, <1>26, <1>27, <1>28, <1>29, <1>30, <1>31, <1>32, <1>33
     DEF Next, Transfer, Compare, Headers, Blocks, Search, Frame, Stage

(***************************************************************************)
(* The specification.                                                      *)
(***************************************************************************)
OfferInv == ActionInv /\ SearchInv /\ PrefixInv /\ CollectInv /\ AppendInv
Inv == TypeOK /\ StageInv /\ OfferInv

LEMMA InitInv == Init => Inv
<1> SUFFICES ASSUME Init PROVE Inv
  OBVIOUS
<1>1. known \in ViewType /\ told \in ViewType
  BY HistoryFacts DEF Init
<1>2. stage \in StageType /\ ~stage.open
  BY DEF Init, NoStage, StageType
<1>3. TypeOK
  <2>1. HistoryType /\ ViewsType
    BY <1>1 DEF Init, HistoryType, ViewsType
  <2>2. StageKind /\ LinkType
    BY <1>2, LimitAssumption DEF Init, StageKind, LinkType
  <2>3. SearchType /\ TransferType
    BY DEF Init, SearchType, TransferType
  <2>4. QED
    BY <2>1, <2>2, <2>3, TypeParts
<1>4. StageInv /\ OfferInv
  BY <1>2 DEF Init, StageInv, StageAccounted, OfferInv, ActionInv, SearchInv, PrefixInv,
     CollectInv, AppendInv, Transferring
<1>5. QED
  BY <1>3, <1>4 DEF Inv

LEMMA Invariance == Spec => []Inv
<1>1. Inv /\ [Next]_vars => Inv'
  <2> SUFFICES ASSUME Inv, [Next]_vars PROVE Inv'
    OBVIOUS
  <2>1. /\ TypeOK /\ HistoryType /\ StageKind /\ LinkType /\ ViewsType /\ SearchType
        /\ TransferType /\ StageInv /\ OfferInv
    BY TypeParts DEF Inv
  <2>2. HistoryType' /\ StageKind' /\ LinkType' /\ SearchType' /\ TransferType'
    BY <2>1, HistoryStep, StageStep, LinkStep, SearchStep, TransferStep
  <2>3. ViewsType'
    BY <2>1, <2>2, ViewsStep
  <2>4. TypeOK'
    BY <2>2, <2>3, TypeParts, PTL
  <2>5. StageInv'
    BY <2>1, StageInvStep
  <2>6. OfferInv'
    BY <2>1, ActionStep, SearchInvStep, PrefixStep, CollectStep, AppendStep DEF OfferInv
  <2>7. QED
    BY <2>4, <2>5, <2>6 DEF Inv
<1>2. QED
  BY <1>1, InitInv, PTL DEF Spec

\* Types; and the binary search keeps its lower end at or below its upper one,
\* whatever the two histories turn into while it runs.
THEOREM TypeCorrect == Spec => []TypeOK
<1>1. Inv => TypeOK
  BY DEF Inv
<1>2. QED
  BY <1>1, Invariance, PTL

\* Every stage open on Chain is the one being filled, about to be aborted, or
\* of a session Core has lost.
THEOREM StagesAccounted == Spec => []StageAccounted
<1>1. Inv => StageAccounted
  BY DEF Inv, StageInv
<1>2. QED
  BY <1>1, Invariance, PTL

\* While the histories stand still, what is offered is the peer's history from
\* the last common block on, in one frame or in a stage: for any two histories.
THEOREM OffersExact == Spec => []OfferExact
<1>1. Inv => OfferExact
  <2> SUFFICES ASSUME Inv, steady PROVE (Collected => Offering(suffix)) /\ (Staged => Offering(stage.blocks))
    BY DEF OfferExact
  <2>1. ASSUME Collected PROVE Offering(suffix)
    <3>1. SearchExact /\ low = high /\ Actionable /\ Copied(suffix) /\ Len(suffix) = SuffixCount
      BY <2>1 DEF Inv, OfferInv, Collected, PrefixInv, ActionInv, CollectInv, Transferring
    <3>2. QED
      BY <3>1, CopiedOffered DEF Inv, TypeOK
  <2>2. ASSUME Staged PROVE Offering(stage.blocks)
    <3>1. SearchExact /\ low = high /\ Actionable /\ Copied(stage.blocks)
      BY <2>2 DEF Inv, OfferInv, Staged, PrefixInv, ActionInv, AppendInv, Transferring
    <3>2. Len(stage.blocks) = SuffixCount /\ stage.blocks \in Seq(Block)
      BY <2>2 DEF Inv, StageInv, Staged, TypeOK, StageType
    <3>3. QED
      BY <3>1, <3>2, CopiedOffered DEF Inv
  <2>3. QED
    BY <2>1, <2>2
<1>2. QED
  BY <1>1, Invariance, PTL

===============================================================================
