------------------------------ MODULE MCParts ------------------------------
(***************************************************************************)
(* The parts that need no other part to be understood, in one run: each    *)
(* behaviour is one of a single part, the variables of the others stay as  *)
(* they are at first.                                                      *)
(***************************************************************************)
EXTENDS ResListRace, SiteRate, LineReader, RecordReader, BatchClient, HashRing, TermMap, DatTrie, KeyTable,
        QueryFilter, HttpMessage, PageExtract, SearchMerge

VARIABLE part

Part == {"race", "rate", "line", "record", "batch", "ring", "term", "trie", "table",
         "filter", "http", "extract", "merge"}
Hashes == <<0, 1, 2>>

Init ==
    /\ part \in Part
    /\ RaceInit /\ TermInit /\ TrieInit /\ TableInit /\ HttpInit
    /\ part # "rate"   => clock = fetch_interval_ * Ms /\ ip_num = 1
    /\ part # "line"   => bytes = <<>>
    /\ part # "record" => recs = <<>> /\ program = "dump"
    /\ part # "batch"  => sender = "list" /\ file = <<>> /\ alive = [s \in Server |-> TRUE]
    /\ part # "ring"   => hash_ = [point \in Cache \X (0..(MaxReplicas - 1)) |-> 0]
    /\ part # "filter" => log = <<>> /\ ends = TRUE /\ step = "read"
    /\ part # "extract" => extractor = "page"
    /\ part # "merge"  => items = [baidu |-> <<>>, mso |-> <<>>]
    /\ RateInit /\ LineInit /\ RecordInit /\ BatchInit /\ RingInit
    /\ FilterInit /\ ExtractInit /\ MergeInit

Next ==
    /\ UNCHANGED part
    /\ IF part = "race"   THEN RaceNext   ELSE UNCHANGED raceVars
    /\ IF part = "rate"   THEN RateNext   ELSE UNCHANGED rateVars
    /\ IF part = "line"   THEN LineNext   ELSE UNCHANGED lineVars
    /\ IF part = "record" THEN RecordNext ELSE UNCHANGED readVars
    /\ IF part = "batch"  THEN BatchNext  ELSE UNCHANGED batchVars
    /\ IF part = "ring"   THEN RingNext   ELSE UNCHANGED ringVars
    /\ IF part = "term"   THEN TermNext   ELSE UNCHANGED termVars
    /\ IF part = "trie"   THEN TrieNext   ELSE UNCHANGED trieVars
    /\ IF part = "table"  THEN TableNext  ELSE UNCHANGED tableVars
    /\ IF part = "filter" THEN FilterNext ELSE UNCHANGED filterVars
    /\ IF part = "http"   THEN HttpNext   ELSE UNCHANGED httpVars
    /\ IF part = "extract" THEN ExtractNext ELSE UNCHANGED extractVars
    /\ IF part = "merge"  THEN MergeNext  ELSE UNCHANGED mergeVars

Spec == Init /\ [][Next]_<<part, raceVars, rateVars, lineVars, readVars, batchVars, ringVars,
                           termVars, trieVars, tableVars, filterVars, httpVars, extractVars, mergeVars>>

=============================================================================
