------------------------------ MODULE MCScrape ------------------------------
(* Three scrapes at once, which differ in nothing but their names. *)
EXTENDS Scrape, TLC
CONSTANTS w1, w2, w3
AnyOrder == Permutations(Scraper)
=============================================================================
