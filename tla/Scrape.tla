------------------------------- MODULE Scrape -------------------------------
(***************************************************************************)
(* GET /metrics (app/routes/metrics.py): the gauges of what lives in Redis *)
(* and Postgres are sampled while the scrape waits, and belong to the      *)
(* process, so that scrapes under way at once write the same gauges.       *)
(*                                                                         *)
(* A value is abstracted to its age: which of the scrapes under way had    *)
(* begun when Redis or Postgres gave it, and which began later, while the  *)
(* scrape that had asked for it was not yet resumed to set the gauge.  The *)
(* weight's gauge is left out: it has no labels, and what clear() makes of *)
(* it is the library's affair.                                             *)
(***************************************************************************)
CONSTANT Scraper    \* the scrapes that can be under way at once

VARIABLES
  scrape,    \* scrape[w]: what scrape w samples next
  answered,  \* the scrapes whose read has been answered, but is not yet set
  hand,      \* hand[w]: the age of the answer w waits to set
  present,   \* the gauges that have samples
  held       \* held[g]: the age of what gauge g was last set to

vars == <<scrape, answered, hand, present, held>>

Age == [given : SUBSET Scraper, waiting : SUBSET Scraper]

Ageless == [given |-> {}, waiting |-> {}]

Known(age) == age.given \cup age.waiting

\* QUEUE_DEPTH of either pool; SANDBOXES_ACTIVE and SANDBOX_OLDEST, which are
\* set without a pause from one query.
Gauge == {"stable", "canary", "sandboxes"}

\* The samplers, and what is read in turn by each: the queue sampler's last
\* read is of the weight.
ScrapeStep == {"idle", "stable", "canary", "weight", "sandboxes", "respond"}

After ==
  [stable |-> "canary", canary |-> "weight", weight |-> "sandboxes",
   sandboxes |-> "respond"]

QueueSampler == {"stable", "canary", "weight"}

GaugesOf(step) ==
  IF step \in QueueSampler THEN {"stable", "canary"} ELSE {"sandboxes"}

TypeOK ==
  /\ scrape \in [Scraper -> ScrapeStep]
  /\ answered \subseteq Scraper
  /\ hand \in [Scraper -> Age]
  /\ present \subseteq Gauge
  /\ held \in [Gauge -> Age]

Init ==
  /\ scrape = [w \in Scraper |-> "idle"]
  /\ answered = {}
  /\ hand = [w \in Scraper |-> Ageless]
  /\ present = {}
  /\ held = [g \in Gauge |-> Ageless]

-----------------------------------------------------------------------------
UnderWay == {w \in Scraper : scrape[w] # "idle"}

\* A scrape begins, perhaps while others wait to set what they have read.
Begin(w) ==
  /\ scrape[w] = "idle"
  /\ scrape' = [scrape EXCEPT ![w] = "stable"]
  /\ hand' = [v \in Scraper |->
                IF v \in answered THEN [hand[v] EXCEPT !.waiting = @ \cup {w}] ELSE hand[v]]
  /\ UNCHANGED <<answered, present, held>>

\* Redis or Postgres answers the read that w awaits.
Read(w) ==
  /\ scrape[w] \in DOMAIN After
  /\ w \notin answered
  /\ answered' = answered \cup {w}
  /\ hand' = [hand EXCEPT ![w] = [given |-> UnderWay, waiting |-> {}]]
  /\ UNCHANGED <<scrape, present, held>>

\* w is resumed, sets the gauge and goes on to its next read.
Set(w) ==
  /\ w \in answered
  /\ scrape' = [scrape EXCEPT ![w] = After[@]]
  /\ answered' = answered \ {w}
  /\ hand' = [hand EXCEPT ![w] = Ageless]
  /\ IF scrape[w] \in Gauge
       THEN /\ present' = present \cup {scrape[w]}
            /\ held' = [held EXCEPT ![scrape[w]] = hand[w]]
       ELSE UNCHANGED <<present, held>>

\* MUTANT of Cleared: only the gauge whose read failed is cleared.
ClearedAlone(step) == {step}

\* A failed sampler's gauges are cleared, those it had set included.
Cleared(step) == GaugesOf(step)

\* A read raises, or the sampler's time is up, perhaps with the answer there
\* and not yet set: the sampler is over.
SampleFails(w) ==
  /\ scrape[w] \in DOMAIN After
  /\ scrape' = [scrape EXCEPT ![w] =
                  IF @ \in QueueSampler THEN "sandboxes" ELSE "respond"]
  /\ answered' = answered \ {w}
  /\ hand' = [hand EXCEPT ![w] = Ageless]
  /\ present' = present \ Cleared(scrape[w])
  /\ UNCHANGED held

\* What no longer matters of an age when w is over.
Without(age, w) == [given |-> age.given \ {w}, waiting |-> age.waiting \ {w}]

\* generate_latest, and the scrape is over.  Nothing is awaited between the last
\* Set and this: that others may act in between only adds behaviours.
Respond(w) ==
  /\ scrape[w] = "respond"
  /\ scrape' = [scrape EXCEPT ![w] = "idle"]
  /\ hand' = [v \in Scraper |-> Without(hand[v], w)]
  /\ held' = [g \in Gauge |-> Without(held[g], w)]
  /\ UNCHANGED <<answered, present>>

Next ==
  \E w \in Scraper : Begin(w) \/ Read(w) \/ Set(w) \/ SampleFails(w) \/ Respond(w)

Spec == Init /\ [][Next]_vars

-----------------------------------------------------------------------------
\* What a scrape exposes was given by Redis or Postgres since it began, to it
\* or to another scrape under way, or was in the hands of another scrape that
\* waited to set it when this one began.  Nothing older is shown as today's,
\* when Redis or Postgres fails half way through a sampler, or in one of
\* several scrapes.
ExposedIsFresh ==
  \A w \in Scraper, g \in present : scrape[w] = "respond" => w \in Known(held[g])

-----------------------------------------------------------------------------
\* What a scrape has behind it.
Sampled ==
  [idle |-> {}, stable |-> {}, canary |-> {"stable"}, weight |-> {"stable", "canary"},
   sandboxes |-> {"stable", "canary"}, respond |-> Gauge]

\* A scrape that is past a gauge's sampler has it set since, or cleared, as
\* long as it is under way; a gauge it has just sampled may be set by others,
\* with an answer whose age takes every scrape under way into account.
FreshOnceSampled ==
  /\ \A w \in Scraper, g \in present : g \in Sampled[scrape[w]] => w \in Known(held[g])
  /\ \A v \in answered : UnderWay \subseteq Known(hand[v]) /\ scrape[v] \in DOMAIN After
=============================================================================
