------------------------------ MODULE MCCrawl -------------------------------
(* Two spellings of the start page, two pages that link to each other, one of *)
(* them to another origin and to something that is no page.                   *)
EXTENDS Crawl
CONSTANTS home, homeHash, left, right, away, mail, site, other
MCNormal == [h \in Hrefs |-> CASE h = homeHash -> home [] h = mail -> None [] OTHER -> h]
MCOrigin == [u \in Urls |-> IF u = away THEN other ELSE site]
MCLinksOn == [u \in Urls |->
    CASE u = home -> <<left, homeHash>> [] u = left -> <<right, away, left>>
      [] u = right -> <<home, mail, left>> [] OTHER -> <<left>>]
MCSeeds == <<homeHash, home>>
=============================================================================
