------------------------- MODULE NewsIngestionProofs -------------------------
(***************************************************************************)
(* Proofs about the news worker, for any feeds, limits and number of       *)
(* interrupted cycles: no story is stored twice, and between cycles the    *)
(* items without tags are exactly those an interrupted cycle left behind.  *)
(***************************************************************************)
EXTENDS NewsIngestion, TLAPS

\* An item that is found new is not stored yet (has_source_item looks for its very ids).
LEMMA NewIsNotStored == ASSUME NEW r, IsNew(r) PROVE r \notin items
  BY DEF IsNew, HasSourceItem

\* A story is stored once, whatever the feeds list and wherever a cycle is cut short.
THEOREM StoredOnce == NewsSpec => []NewsDeduplicated
<1>1. NewsInit => NewsDeduplicated
  BY DEF NewsInit, NewsDeduplicated
<1>2. NewsDeduplicated /\ [NewsNext]_newsVars => NewsDeduplicated'
  <2> SUFFICES ASSUME NewsDeduplicated, [NewsNext]_newsVars PROVE NewsDeduplicated'
    OBVIOUS
  <2>1. CASE items' = items
    BY <2>1 DEF NewsDeduplicated
  <2>2. ASSUME NEW r, IsNew(r), items' = items \cup {r} PROVE NewsDeduplicated'
    BY <2>2 DEF NewsDeduplicated, IsNew, HasHash
  <2>3. CASE Ingest
    BY <2>1, <2>2, <2>3 DEF Ingest
  <2>4. CASE CycleEnds
    BY <2>1, <2>2, <2>4 DEF CycleEnds
  <2> QED
    BY <2>1, <2>3, <2>4 DEF NewsNext, newsVars, FetchCycle, IngestDone, TagItem,
      SummarizeWindow, CiteItem
<1> QED
  BY <1>1, <1>2, PTL DEF NewsSpec

-----------------------------------------------------------------------------
(* Sequences as the sets of their elements *)

LEMMA AppendAdds ==
    ASSUME NEW S, NEW s \in Seq(S), NEW e
    PROVE  ToSet(Append(s, e)) = ToSet(s) \cup {e}
<1>1. /\ Len(Append(s, e)) = Len(s) + 1 /\ Len(s) \in Nat
      /\ DOMAIN Append(s, e) = 1..(Len(s) + 1) /\ DOMAIN s = 1..Len(s)
  OBVIOUS
<1>2. /\ \A i \in 1..Len(s) : Append(s, e)[i] = s[i]
      /\ Append(s, e)[Len(s) + 1] = e
  OBVIOUS
<1> QED
  BY <1>1, <1>2 DEF ToSet

LEMMA HeadAndTail ==
    ASSUME NEW S, NEW s \in Seq(S), s # <<>>
    PROVE  /\ Head(s) \in S /\ Tail(s) \in Seq(S)
           /\ ToSet(s) \subseteq {Head(s)} \cup ToSet(Tail(s))
<1>1. Head(s) = s[1] /\ Head(s) \in S /\ Tail(s) \in Seq(S)
  OBVIOUS
<1>2. /\ Len(s) \in Nat /\ DOMAIN s = 1..Len(s)
      /\ DOMAIN Tail(s) = 1..(Len(s) - 1)
  OBVIOUS
<1>3. \A i \in 2..Len(s) : i - 1 \in DOMAIN Tail(s) /\ Tail(s)[i - 1] = s[i]
  BY <1>2
<1>4. ASSUME NEW i \in 1..Len(s) PROVE s[i] \in {Head(s)} \cup ToSet(Tail(s))
  <2>1. CASE i = 1
    BY <1>1, <2>1
  <2>2. CASE i \in 2..Len(s)
    BY <1>3, <2>2 DEF ToSet
  <2> QED
    BY <1>2, <2>1, <2>2
<1> QED
  BY <1>1, <1>2, <1>4 DEF ToSet

LEMMA EmptyAndElements ==
    /\ ToSet(<<>>) = {}
    /\ \A S : \A s \in Seq(S) : ToSet(s) \subseteq S /\ s \in Seq(ToSet(s))
  BY DEF ToSet

-----------------------------------------------------------------------------
(* What is untagged *)

\* Between the statements of a cycle the untagged items are those left by earlier cycles
\* and those this cycle stored and has not tagged; while it tags, the latter still wait
\* in the batch.
TagInv ==
    /\ npc \in {"idle", "ingest", "tag", "cite"}
    /\ inserted \in Seq(items)
    /\ tags \subseteq items /\ lost \subseteq items
    /\ lost \cap tags = {} /\ lost \cap ToSet(inserted) = {}
    /\ items \ tags = lost \cup (ToSet(inserted) \ tags)
    /\ npc = "idle" => inserted = <<>>
    /\ npc = "tag" => /\ batch \in Seq(ToSet(inserted))
                      /\ ToSet(inserted) \ tags \subseteq ToSet(batch)
    /\ npc = "cite" => ToSet(inserted) \subseteq tags

LEMMA TagInvInit == NewsInit => TagInv
  BY EmptyAndElements DEF NewsInit, TagInv

\* Every statement of a cycle, and its end at any of them, keeps the account of tags.
LEMMA TagInvStep == TagInv /\ [NewsNext]_newsVars => TagInv'
<1> SUFFICES ASSUME TagInv, [NewsNext]_newsVars PROVE TagInv'
  OBVIOUS
<1>1. CASE UNCHANGED newsVars
  BY <1>1 DEF newsVars, TagInv
<1>2. CASE FetchCycle
  BY <1>2 DEF FetchCycle, TagInv
<1>3. CASE Ingest
  <2>1. CASE ~ IsNew(Head(batch))
    BY <1>3, <2>1 DEF Ingest, TagInv
  <2>2. CASE IsNew(Head(batch))
    <3>1. Head(batch) \notin items
      BY <2>2, NewIsNotStored
    <3>2. /\ items' = items \cup {Head(batch)} /\ inserted' = Append(inserted, Head(batch))
          /\ UNCHANGED <<npc, tags, lost>> /\ npc = "ingest"
      BY <1>3, <2>2 DEF Ingest
    <3>3. ToSet(inserted') = ToSet(inserted) \cup {Head(batch)}
      BY <3>2, AppendAdds DEF TagInv
    <3>4. inserted' \in Seq(items')
      <4>1. inserted \in Seq(items')
        BY <3>2 DEF TagInv
      <4> QED
        BY <3>2, <4>1
    <3> QED
      BY <3>1, <3>2, <3>3, <3>4 DEF TagInv
  <2> QED
    BY <2>1, <2>2
<1>4. CASE IngestDone
  <2>1. inserted \in Seq(ToSet(inserted))
    BY EmptyAndElements DEF TagInv
  <2> QED
    BY <1>4, <2>1 DEF IngestDone, TagInv
<1>5. CASE TagItem
  <2>1. /\ Head(batch) \in ToSet(inserted) /\ Tail(batch) \in Seq(ToSet(inserted))
        /\ ToSet(batch) \subseteq {Head(batch)} \cup ToSet(Tail(batch))
    BY <1>5, HeadAndTail DEF TagItem, TagInv
  <2>2. ToSet(inserted) \subseteq items
    BY EmptyAndElements DEF TagInv
  <2> QED
    BY <1>5, <2>1, <2>2 DEF TagItem, TagInv
<1>6. CASE SummarizeWindow
  <2>1. ToSet(inserted) \subseteq tags
    BY <1>6, EmptyAndElements DEF SummarizeWindow, TagInv
  <2> QED
    BY <1>6, <2>1 DEF SummarizeWindow, TagInv
<1>7. ASSUME NEW i \in citing, CiteItem(i) PROVE TagInv'
  BY <1>7, EmptyAndElements DEF CiteItem, TagInv
<1>8. CASE CycleEnds
  <2>1. ToSet(inserted) \subseteq items
    BY EmptyAndElements DEF TagInv
  <2>2. \/ items' = items /\ tags' = tags
        \/ \E r : r \notin items /\ items' = items \cup {r} /\ tags' = tags
        \/ \E r \in ToSet(inserted) : items' = items /\ tags' = tags \cup {r}
    <3>1. CASE npc = "tag" /\ batch # <<>>
      <4>1. Head(batch) \in ToSet(inserted)
        BY <3>1, HeadAndTail DEF TagInv
      <4> QED
        BY <1>8, <3>1, <4>1 DEF CycleEnds
    <3>2. CASE ~ (npc = "tag" /\ batch # <<>>)
      BY <1>8, <3>2, NewIsNotStored DEF CycleEnds
    <3> QED
      BY <3>1, <3>2
  <2>3. /\ npc' = "idle" /\ inserted' = <<>>
        /\ lost' = lost \cup ((ToSet(inserted) \cup (items' \ items)) \ tags')
    BY <1>8 DEF CycleEnds
  <2>4. inserted' \in Seq(items') /\ ToSet(inserted') = {}
    BY <2>3, EmptyAndElements
  <2> QED
    BY <2>1, <2>2, <2>3, <2>4 DEF TagInv
<1> QED
  BY <1>1, <1>2, <1>3, <1>4, <1>5, <1>6, <1>7, <1>8 DEF NewsNext

\* Between cycles exactly the items of interrupted cycles have no tags, and since tags are
\* only written for items stored in the same cycle, they never get any.
THEOREM OnlyInterruptedUntagged == NewsSpec => []UntaggedAreLost
<1>1. TagInv => UntaggedAreLost
  BY EmptyAndElements DEF TagInv, UntaggedAreLost
<1> QED
  BY TagInvInit, TagInvStep, <1>1, PTL DEF NewsSpec
=============================================================================
