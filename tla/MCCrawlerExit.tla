--------------------------- MODULE MCCrawlerExit ---------------------------
(* Instances of CrawlerExit for TLC. *)
EXTENDS CrawlerExit

CONSTANTS r1, r2, r3, h1
\* r2 is on another port; its record reads as r3
OnePort  == [r \in Res |-> [http |-> TRUE, host |-> h1, port |-> IF r = r2 THEN 8080 ELSE DefaultPort]]
PortLost == [r \in Res |-> IF r = r2 THEN r3 ELSE r]
=============================================================================
