----------------------------- MODULE MCCrawler -----------------------------
(* Instances of Crawler for TLC. *)
EXTENDS CrawlerProps

CONSTANTS r1, r2, r3, r4, h1
Http(h, p) == [http |-> TRUE, host |-> h, port |-> p]
OneHost  == [r \in Res |-> Http(h1, DefaultPort)]
\* a site on another port, its host on the default port, a URL with no host
MixedPorts == [r \in Res |-> IF r = r2 THEN Http(h1, DefaultPort)
                           ELSE IF r = r4 THEN Http(NoHost, DefaultPort) ELSE Http(h1, 8080)]
=============================================================================
