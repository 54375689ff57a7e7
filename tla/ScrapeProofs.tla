---------------------------- MODULE ScrapeProofs ----------------------------
(***************************************************************************)
(* Proofs about Scrape for any number of scrapes under way at once.        *)
(***************************************************************************)
EXTENDS Scrape, TLAPS

Inv == TypeOK /\ FreshOnceSampled

\* It holds before the first scrape.
LEMMA ScrapeInit == Init => Inv
BY DEF Init, Inv, TypeOK, FreshOnceSampled, ScrapeStep, Gauge, Age, Ageless

\* What a read leads to is a step of the scrape.
LEMMA AfterIsStep ==
  /\ DOMAIN After = {"stable", "canary", "weight", "sandboxes"}
  /\ \A step \in DOMAIN After : After[step] \in ScrapeStep \ {"idle"}
BY DEF After, ScrapeStep

\* A scrape that begins is noted by those that wait to set what they read.
LEMMA BeginKeeps == ASSUME Inv, NEW w \in Scraper, Begin(w) PROVE Inv'
<1> USE DEF Inv, TypeOK, FreshOnceSampled
<1>1. /\ scrape[w] = "idle"
      /\ scrape' = [scrape EXCEPT ![w] = "stable"]
      /\ UNCHANGED <<answered, present, held>>
      /\ hand' = [v \in Scraper |->
                   IF v \in answered THEN [hand[v] EXCEPT !.waiting = @ \cup {w}] ELSE hand[v]]
  BY DEF Begin
<1>2. TypeOK'
  BY <1>1 DEF Age, ScrapeStep
<1>3. \A v \in Scraper, g \in present' : g \in Sampled[scrape'[v]] => v \in Known(held'[g])
  BY <1>1 DEF Sampled
<1>4. ASSUME NEW v \in answered'
      PROVE  UnderWay' \subseteq Known(hand'[v]) /\ scrape'[v] \in DOMAIN After
  <2>1. v \in answered /\ v \in Scraper /\ v # w
    BY <1>1, <1>4, AfterIsStep
  <2>2. hand'[v] = [hand[v] EXCEPT !.waiting = @ \cup {w}] /\ hand[v] \in Age
    BY <1>1, <2>1
  <2>3. Known(hand'[v]) = Known(hand[v]) \cup {w}
    BY <2>2 DEF Known, Age
  <2>4. UnderWay' \subseteq UnderWay \cup {w}
    BY <1>1 DEF UnderWay
  <2>5. QED
    BY <1>1, <2>1, <2>3, <2>4
<1>5. QED
  BY <1>2, <1>3, <1>4

\* A read that is answered has every scrape under way behind it.
LEMMA ReadKeeps == ASSUME Inv, NEW w \in Scraper, Read(w) PROVE Inv'
<1> USE DEF Inv, TypeOK, FreshOnceSampled
<1>1. /\ scrape[w] \in DOMAIN After
      /\ answered' = answered \cup {w}
      /\ hand' = [hand EXCEPT ![w] = [given |-> UnderWay, waiting |-> {}]]
      /\ UNCHANGED <<scrape, present, held>>
  BY DEF Read
<1>2. UnderWay' = UnderWay /\ UnderWay \subseteq Scraper
  BY <1>1 DEF UnderWay
<1>3. TypeOK'
  BY <1>1, <1>2 DEF Age
<1>4. Known(hand'[w]) = UnderWay
  BY <1>1 DEF Known
<1>5. \A v \in answered \ {w} : hand'[v] = hand[v]
  BY <1>1
<1>6. QED
  BY <1>1, <1>2, <1>3, <1>4, <1>5

\* What is set has every scrape under way behind it.
LEMMA SetKeeps == ASSUME Inv, NEW w \in Scraper, Set(w) PROVE Inv'
<1> USE DEF Inv, TypeOK, FreshOnceSampled
<1>1. /\ w \in answered
      /\ scrape' = [scrape EXCEPT ![w] = After[scrape[w]]]
      /\ answered' = answered \ {w}
      /\ hand' = [hand EXCEPT ![w] = Ageless]
  BY DEF Set
<1>2. scrape[w] \in {"stable", "canary", "weight", "sandboxes"}
  BY <1>1, AfterIsStep
<1>3. /\ scrape'[w] \in ScrapeStep \ {"idle"}
      /\ \A v \in Scraper \ {w} : scrape'[v] = scrape[v]
      /\ UnderWay' = UnderWay
  <2>1. After[scrape[w]] \in ScrapeStep \ {"idle"}
    BY <1>2, AfterIsStep
  <2>2. scrape[w] # "idle"
    BY <1>2
  <2>3. QED
    BY <1>1, <2>1, <2>2 DEF UnderWay
<1>4. hand[w] \in Age /\ UnderWay \subseteq Known(hand[w]) /\ Ageless \in Age
  BY <1>1 DEF Age, Ageless
<1>5. \A v \in answered' : UnderWay' \subseteq Known(hand'[v]) /\ scrape'[v] \in DOMAIN After
  BY <1>1, <1>3
<1>6. CASE scrape[w] \in Gauge
  <2>1. /\ present' = present \cup {scrape[w]}
        /\ held' = [held EXCEPT ![scrape[w]] = hand[w]]
    BY <1>6 DEF Set
  <2>2. TypeOK'
    BY <1>1, <1>3, <1>4, <1>6, <2>1
  <2>3. ASSUME NEW v \in Scraper, NEW g \in present', g \in Sampled[scrape'[v]]
        PROVE  v \in Known(held'[g])
    <3>1. CASE g = scrape[w]
      <4>1. v \in UnderWay
        <5>1. scrape'[v] # "idle"
          BY <2>3 DEF Sampled
        <5>2. QED
          BY <1>3, <5>1 DEF UnderWay
      <4>2. QED
        BY <1>4, <1>6, <2>1, <3>1, <4>1
    <3>2. CASE g # scrape[w]
      <4>1. g \in present /\ held'[g] = held[g]
        BY <2>1, <3>2
      <4>2. g \in Sampled[scrape[v]]
        <5>1. CASE v = w
          BY <1>1, <1>2, <2>3, <3>2, <4>1, <5>1 DEF After, Sampled, Gauge
        <5>2. CASE v # w
          BY <1>3, <2>3, <5>2
        <5>3. QED
          BY <5>1, <5>2
      <4>3. QED
        BY <4>1, <4>2
    <3>3. QED
      BY <3>1, <3>2
  <2>4. QED
    BY <1>5, <2>2, <2>3
<1>7. CASE scrape[w] \notin Gauge
  <2>1. UNCHANGED <<present, held>> /\ scrape[w] = "weight" /\ scrape'[w] = "sandboxes"
    BY <1>1, <1>2, <1>7 DEF Set, Gauge, After
  <2>2. TypeOK'
    BY <1>1, <1>3, <1>4, <2>1
  <2>3. \A v \in Scraper : Sampled[scrape'[v]] = Sampled[scrape[v]]
    <3>1. Sampled["weight"] = Sampled["sandboxes"]
      BY DEF Sampled
    <3>2. QED
      BY <1>3, <2>1, <3>1
  <2>4. QED
    BY <1>5, <2>1, <2>2, <2>3
<1>8. QED
  BY <1>6, <1>7

\* A sampler that fails leaves none of its gauges with what it did not set.
LEMMA FailKeeps == ASSUME Inv, NEW w \in Scraper, SampleFails(w) PROVE Inv'
<1> USE DEF Inv, TypeOK, FreshOnceSampled
<1>1. /\ scrape[w] \in {"stable", "canary", "weight", "sandboxes"}
      /\ scrape' = [scrape EXCEPT ![w] =
                      IF scrape[w] \in QueueSampler THEN "sandboxes" ELSE "respond"]
      /\ answered' = answered \ {w}
      /\ hand' = [hand EXCEPT ![w] = Ageless]
      /\ present' = present \ GaugesOf(scrape[w])
      /\ held' = held
  BY AfterIsStep DEF SampleFails, Cleared
<1>2. UnderWay' = UnderWay
  BY <1>1 DEF UnderWay
<1>3. TypeOK'
  BY <1>1 DEF Age, Ageless, ScrapeStep
<1>4. \A v \in answered' : hand'[v] = hand[v] /\ scrape'[v] = scrape[v]
  BY <1>1
<1>5. ASSUME NEW v \in Scraper, NEW g \in present', g \in Sampled[scrape'[v]]
      PROVE  v \in Known(held'[g])
  <2>1. g \in present /\ g \notin GaugesOf(scrape[w])
    BY <1>1, <1>5
  <2>2. CASE v = w
    BY <1>1, <1>5, <2>1, <2>2 DEF GaugesOf, QueueSampler, Sampled, Gauge
  <2>3. CASE v # w
    BY <1>1, <1>5, <2>1, <2>3
  <2>4. QED
    BY <2>2, <2>3
<1>6. QED
  BY <1>1, <1>2, <1>3, <1>4, <1>5

\* A scrape that is over takes nothing from the others.
LEMMA RespondKeeps == ASSUME Inv, NEW w \in Scraper, Respond(w) PROVE Inv'
<1> USE DEF Inv, TypeOK, FreshOnceSampled
<1>1. /\ scrape[w] = "respond"
      /\ scrape' = [scrape EXCEPT ![w] = "idle"]
      /\ hand' = [v \in Scraper |-> Without(hand[v], w)]
      /\ held' = [g \in Gauge |-> Without(held[g], w)]
      /\ UNCHANGED <<answered, present>>
  BY DEF Respond
<1>2. \A age \in Age : Without(age, w) \in Age /\ Known(Without(age, w)) = Known(age) \ {w}
  BY DEF Age, Without, Known
<1>3. UnderWay' = UnderWay \ {w}
  BY <1>1 DEF UnderWay
<1>4. TypeOK'
  BY <1>1, <1>2 DEF ScrapeStep
<1>5. \A v \in answered' : UnderWay' \subseteq Known(hand'[v]) /\ scrape'[v] \in DOMAIN After
  <2>1. w \notin answered
    BY <1>1, AfterIsStep
  <2>2. QED
    BY <1>1, <1>2, <1>3, <2>1
<1>6. ASSUME NEW v \in Scraper, NEW g \in present', g \in Sampled[scrape'[v]]
      PROVE  v \in Known(held'[g])
  <2>1. v # w /\ scrape'[v] = scrape[v]
    BY <1>1, <1>6 DEF Sampled
  <2>2. g \in Gauge /\ Known(held'[g]) = Known(held[g]) \ {w}
    BY <1>1, <1>2, <1>6
  <2>3. QED
    BY <1>1, <1>6, <2>1, <2>2
<1>7. QED
  BY <1>4, <1>5, <1>6

\* Every step of the scrape handler keeps it.
LEMMA ScrapeNext == Inv /\ [Next]_vars => Inv'
<1>1. ASSUME Inv, UNCHANGED vars PROVE Inv'
  BY <1>1 DEF vars, Inv, TypeOK, FreshOnceSampled, UnderWay
<1>2. QED
  BY <1>1, BeginKeeps, ReadKeeps, SetKeeps, FailKeeps, RespondKeeps DEF Next

\* However many scrapes are under way and whichever of their reads fail,
\* nothing /metrics exposes was set before the scrape began (metrics.py:35,
\* 42-53, 68-78): what it was set to was read since, or was the answer another
\* scrape then had in hand.
THEOREM ExposedFresh == Spec => []ExposedIsFresh
<1>1. Inv => ExposedIsFresh
  BY DEF Inv, FreshOnceSampled, ExposedIsFresh, Sampled, TypeOK
<1> QED
  BY <1>1, ScrapeInit, ScrapeNext, PTL DEF Spec
=============================================================================
