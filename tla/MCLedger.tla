------------------------------ MODULE MCLedger ------------------------------
(* One `hx capture start` and one `hx crawl` beside it. *)
EXTENDS Ledger
CONSTANTS cap, crw
MCKind == [h \in {cap, crw} |-> IF h = cap THEN "browse" ELSE "crawl"]
MCSources == [h \in {cap, crw} |-> IF h = cap THEN {"operator", "crawler"} ELSE {}]
=============================================================================
