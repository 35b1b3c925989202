---------------------------- MODULE PageExtract ----------------------------
(***************************************************************************)
(* The two extractors: page_extractor over stored pages ("page") and       *)
(* spider_service_extractor over another service's ("service").  A page's  *)
(* host has chains of templates, tried in order; the first that yields     *)
(* something makes the line that is written.  The value returned comes     *)
(* from whatever was tried last, and a page is written when it is 0.       *)
(*                                                                         *)
(* Of a chain it matters what it is for and whether the page has it.       *)
(***************************************************************************)
EXTENDS Integers, Sequences

CONSTANTS MaxChains, MaxExtracts    \* bounds: chains of a host, pages

ASSUME ChainAssumption == {MaxChains, MaxExtracts} \subseteq Nat

Chain == [for: {"HEADER", "BODY", "unknown"}, found: BOOLEAN]
HostPage == [templates: BOOLEAN,            \* tpls has the host
             xml: BOOLEAN,                  \* doc.load succeeds
             chains: UNION {[1..n -> Chain] : n \in 0..MaxChains}]
NoJson == 0

VARIABLES
    extractor, html,    \* the program and its page
    chain, ret, json,   \* the loop: the chain tried, its value, what it made
    output,             \* what was written: <<page, chain>>, NoJson an empty line
    extracts,           \* pages handled, this one included
    stage               \* "chains", "return", "next" or "crash"

extractVars == <<extractor, html, chain, ret, json, output, extracts, stage>>

-----------------------------------------------------------------------------
\* service loads the document first, page when it comes to a BODY
Loaded == \/ html.xml
          \/ extractor = "page" /\ (chain <= Len(html.chains) => html.chains[chain].for # "BODY")
Known(c) == c.for = "BODY" \/ (c.for = "HEADER" /\ extractor = "page")

\* the value of a chain that was tried
Tried(c) == IF c.found THEN 0 ELSE IF c.for = "HEADER" THEN 1 ELSE -1

\* mutant: the next chains are tried as well
BreakNever(c) == FALSE
Break(c) == c.found

\* a chain of a type the program knows
TryChain ==
    LET c == html.chains[chain]
    IN /\ stage = "chains" /\ Loaded /\ chain <= Len(html.chains) /\ Known(c)
       /\ ret' = IF extractor = "page" THEN Tried(c) ELSE ret
       /\ json' = IF c.found THEN chain ELSE json
       /\ IF Break(c) THEN stage' = "return" /\ UNCHANGED chain
          ELSE chain' = chain + 1 /\ UNCHANGED stage
    /\ UNCHANGED <<extractor, html, output, extracts>>

\* doc.load fails: return -1
NoDocument ==
    /\ stage = "chains" /\ ~Loaded
    /\ ret' = -1 /\ stage' = "return"
    /\ UNCHANGED <<extractor, html, chain, json, output, extracts>>

SkipChain ==
    /\ stage = "chains" /\ Loaded /\ chain <= Len(html.chains)
    /\ ~Known(html.chains[chain])
    /\ chain' = chain + 1
    /\ UNCHANGED <<extractor, html, ret, json, output, extracts, stage>>

LastChain ==
    /\ stage = "chains" /\ Loaded /\ chain > Len(html.chains)
    /\ stage' = "return"
    /\ UNCHANGED <<extractor, html, chain, ret, json, output, extracts>>

\* service adds the URL to the object it was given, or to NULL
WritePage ==
    /\ stage = "return"
    /\ IF ret = 0 /\ json = NoJson /\ extractor = "service" THEN stage' = "crash" /\ UNCHANGED output
       ELSE /\ stage' = "next"
            /\ output' = IF ret = 0 THEN Append(output, <<extracts, json>>) ELSE output
    /\ UNCHANGED <<extractor, html, chain, ret, json, extracts>>

\* the next page; of a host without templates nothing is tried
TakePage ==
    /\ stage = "next" /\ extracts < MaxExtracts
    /\ extracts' = extracts + 1 /\ html' \in HostPage
    /\ chain' = 1 /\ ret' = 0 /\ json' = NoJson
    /\ stage' = IF html'.templates THEN "chains" ELSE "next"
    /\ UNCHANGED <<extractor, output>>

ExtractInit ==
    /\ extractor \in {"page", "service"}
    /\ html = [templates |-> FALSE, xml |-> FALSE, chains |-> <<>>]
    /\ chain = 1 /\ ret = 0 /\ json = NoJson /\ output = <<>> /\ extracts = 0 /\ stage = "next"
ExtractNext == TryChain \/ NoDocument \/ SkipChain \/ LastChain \/ WritePage \/ TakePage
ExtractSpec == ExtractInit /\ [][ExtractNext]_extractVars

-----------------------------------------------------------------------------
(* A page is written once, as the first of its host's chains that it has,  *)
(* and not at all if it has none or the document it needs does not load.   *)
(* Only when no chain sets a value, the 0 of the start counts as success:  *)
(* page writes an empty line then, if it knows none of the chains, and     *)
(* service, where a chain that finds nothing sets no value, has no object  *)
(* to add the URL to.                                                      *)
FirstChainWritten ==
    LET cs    == html.chains
        hits  == {i \in DOMAIN cs : Known(cs[i]) /\ cs[i].found}
        first == CHOOSE i \in hits : \A j \in hits : i <= j
        tried == {i \in DOMAIN cs : Known(cs[i])}
        stops == ~html.xml /\ (extractor = "service"
                    \/ \E i \in DOMAIN cs : cs[i].for = "BODY" /\ \A h \in hits : i <= h)
        mine  == {i \in DOMAIN output : output[i][1] = extracts}
        wrote(c) == \E i \in DOMAIN output : mine = {i} /\ output[i][2] = c
    IN /\ stage = "crash" => extractor = "service" /\ ~stops /\ hits = {} /\ mine = {}
       /\ stage = "next" =>
             IF ~html.templates \/ stops THEN mine = {}
             ELSE IF hits # {} THEN wrote(first)
             ELSE IF tried # {} THEN mine = {} ELSE wrote(NoJson)

=============================================================================
