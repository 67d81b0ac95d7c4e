---------------------------- MODULE NewsIngestion ----------------------------
(* The news worker of services/workers/news.py: fetch every source, store    *)
(* the items not seen before, tag them, summarise them.  One process, whose  *)
(* statements commit one by one; a statement that raises (having taken       *)
(* effect or not) or a stopped process ends the cycle, and the next cycle    *)
(* knows only what the tables hold.  The feeds are external.                 *)
EXTENDS Integers, Sequences, SequencesExt, FiniteSets, FiniteSetsExt

CONSTANTS Entries,        \* what the feeds may list, in the order of the connectors:
                          \* [source, id, hash, complete]
          LimitPerSource, \* limit_per_source of fetch_cycle
          MaxItems,       \* max_items of summarize_window
          MaxNewsFaults   \* bound: cycles cut short

ASSUME NewsAssumption ==
    /\ \A i, j \in DOMAIN Entries :
           (Entries[i].source = Entries[j].source /\ Entries[i].id = Entries[j].id) => i = j
    /\ {LimitPerSource, MaxItems} \subseteq Nat \ {0} /\ MaxNewsFaults \in Nat

VARIABLES npc,      \* where the cycle is
          batch,    \* records still to be ingested, then items still to be tagged
          inserted, \* items stored in this cycle
          citing,   \* items whose news_summary_sources row is still to be written
          items,    \* news_items
          tags,     \* items with a row in news_tags
          cited,    \* items a summary cites
          lost,     \* items whose cycle ended before they were tagged
          nfaults

newsVars == <<npc, batch, inserted, citing, items, tags, cited, lost, nfaults>>

Feed == ToSet(Entries)
Sources == {e.source : e \in Feed}

(* _parse_rss_items and fetch_records: entries without title, link or text   *)
(* are skipped, and at most `limit` are taken.                               *)
ParseRecords(listed, source) ==
    LET usable == SelectSeq(Entries, LAMBDA e : e \in listed /\ e.source = source /\ e.complete)
    IN  SubSeq(usable, 1, Min({Len(usable), LimitPerSource}))

(* NewsSourceConnectorFramework.fetch_cycle: a source that fails contributes *)
(* nothing and does not stop the others.                                     *)
FetchedRecords(listed, degraded) ==
    SelectSeq(Entries, LAMBDA e : /\ e.source \notin degraded
                                  /\ e \in ToSet(ParseRecords(listed, e.source)))

HasSourceItem(r) == \E i \in items : i.source = r.source /\ i.id = r.id
HasHash(r) == \E i \in items : i.hash = r.hash

\* Slip: the content hash is not looked up.
IsNewBySource(r) == ~HasSourceItem(r)

IsNew(r) == ~HasSourceItem(r) /\ ~HasHash(r)

NewsInit ==
    /\ npc = "idle" /\ batch = <<>> /\ inserted = <<>> /\ citing = {}
    /\ items = {} /\ tags = {} /\ cited = {} /\ lost = {} /\ nfaults = 0

FetchCycle ==
    /\ npc = "idle"
    /\ \E listed \in SUBSET Feed, degraded \in SUBSET Sources :
           /\ batch' = FetchedRecords(listed, degraded)
           /\ npc' = IF batch' = <<>> THEN "idle" ELSE "ingest"
    /\ UNCHANGED <<inserted, citing, items, tags, cited, lost, nfaults>>

(* NewsIngestionService.ingest, one record. *)
Ingest ==
    /\ npc = "ingest" /\ batch # <<>>
    /\ items' = IF IsNew(Head(batch)) THEN items \cup {Head(batch)} ELSE items
    /\ inserted' = IF IsNew(Head(batch)) THEN Append(inserted, Head(batch)) ELSE inserted
    /\ batch' = Tail(batch)
    /\ UNCHANGED <<npc, citing, tags, cited, lost, nfaults>>

\* Slip: the first of the stored items is left out of the tagging.
IngestDoneButFirst ==
    /\ npc = "ingest" /\ batch = <<>>
    /\ npc' = IF inserted = <<>> THEN "idle" ELSE "tag"
    /\ batch' = IF inserted = <<>> THEN <<>> ELSE Tail(inserted)
    /\ UNCHANGED <<inserted, citing, items, tags, cited, lost, nfaults>>

(* The batch is through: nothing new ends the cycle. *)
IngestDone ==
    /\ npc = "ingest" /\ batch = <<>>
    /\ npc' = IF inserted = <<>> THEN "idle" ELSE "tag"
    /\ batch' = inserted
    /\ UNCHANGED <<inserted, citing, items, tags, cited, lost, nfaults>>

(* NewsTaggingRelevancePipeline.tag_items, one item. *)
TagItem ==
    /\ npc = "tag" /\ batch # <<>>
    /\ tags' = tags \cup {Head(batch)}
    /\ batch' = Tail(batch)
    /\ UNCHANGED <<npc, inserted, citing, items, cited, lost, nfaults>>

(* RollingNewsSummarizer.summarize_window selects the best ranked items and  *)
(* writes the summary.                                                       *)
SummarizeWindow ==
    /\ npc = "tag" /\ batch = <<>>
    /\ citing' \in kSubset(Min({MaxItems, Len(inserted)}), ToSet(inserted))
    /\ npc' = "cite"
    /\ UNCHANGED <<batch, inserted, items, tags, cited, lost, nfaults>>

(* persist_summary, one source row; the last one ends the cycle. *)
CiteItem(i) ==
    /\ npc = "cite" /\ i \in citing
    /\ cited' = cited \cup {i}
    /\ citing' = citing \ {i}
    /\ npc' = IF citing' = {} THEN "idle" ELSE "cite"
    /\ inserted' = IF citing' = {} THEN <<>> ELSE inserted
    /\ UNCHANGED <<batch, items, tags, lost, nfaults>>

(* A statement raises, its row written or not, or the process stops. *)
CycleEnds ==
    /\ npc # "idle" /\ nfaults < MaxNewsFaults
    /\ \/ UNCHANGED <<items, tags>>
       \/ npc = "ingest" /\ batch # <<>> /\ IsNew(Head(batch))
          /\ items' = items \cup {Head(batch)} /\ tags' = tags
       \/ npc = "tag" /\ batch # <<>> /\ tags' = tags \cup {Head(batch)} /\ items' = items
    /\ lost' = lost \cup ((ToSet(inserted) \cup (items' \ items)) \ tags')
    /\ npc' = "idle" /\ batch' = <<>> /\ inserted' = <<>> /\ citing' = {}
    /\ nfaults' = nfaults + 1
    /\ UNCHANGED cited

NewsNext ==
    \/ FetchCycle \/ Ingest \/ IngestDone \/ TagItem \/ SummarizeWindow
    \/ (\E i \in citing : CiteItem(i)) \/ CycleEnds

NewsSpec == NewsInit /\ [][NewsNext]_newsVars

(* A story is stored once, however many sources carry it and however often   *)
(* a cycle that was cut short is repeated.                                   *)
NewsDeduplicated == \A i, j \in items : i.hash = j.hash => i = j

(* The untagged items are exactly those whose cycle was cut short: a cycle   *)
(* that runs to its end tags everything it stored, and what a cut cycle left *)
(* untagged stays so, since later cycles take it for a duplicate.            *)
UntaggedAreLost == npc = "idle" => items \ tags = lost
=============================================================================
