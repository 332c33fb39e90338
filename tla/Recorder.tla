------------------------------- MODULE Recorder -------------------------------
(***************************************************************************)
(* What a summary promises: observations are counted one by one, and a     *)
(* scrape reports the number of them at one moment of its own duration.    *)
(* summary.go is shown to implement this (module Summary).                 *)
(***************************************************************************)
EXTENDS Naturals

CONSTANTS Scraper, NoScrape

VARIABLES
  total,   \* the observations so far
  taken    \* by scraper: the number it is going to report

Init == total = 0 /\ taken = [s \in Scraper |-> NoScrape]

Observe == total' = total + 1 /\ UNCHANGED taken

Take(s) ==
  /\ taken[s] = NoScrape
  /\ taken' = [taken EXCEPT ![s] = total]
  /\ UNCHANGED total

Report(s) ==
  /\ taken[s] # NoScrape
  /\ taken' = [taken EXCEPT ![s] = NoScrape]
  /\ UNCHANGED total

Next == Observe \/ \E s \in Scraper : Take(s) \/ Report(s)
Spec == Init /\ [][Next]_<<total, taken>>
=============================================================================
