------------------------- MODULE SearchIndexingProofs -------------------------
(***************************************************************************)
(* Proofs about SearchIndexing, for any number of workers, pages, events   *)
(* and recipients.                                                         *)
(*                                                                         *)
(* What is queued for a page is its latest change; what a flush tells is   *)
(* the latest change or a newer one is queued behind it; and a worker has  *)
(* one flush under way, so nobody else tells an engine meanwhile.          *)
(***************************************************************************)
EXTENDS SearchIndexing, TLAPS

\* The memories of a worker are tables by page, a flush is a record.
Tables ==
  /\ DOMAIN pending = Workers /\ DOMAIN latest = Workers
  /\ DOMAIN flights = Workers /\ DOMAIN told = Workers
  /\ DOMAIN dropped = Workers
  /\ \A w \in Workers :
       /\ DOMAIN pending[w] = Pages /\ DOMAIN latest[w] = Pages
       /\ \A f \in flights[w] :
            /\ f = [pc |-> f.pc, batch |-> f.batch, left |-> f.left]
            /\ f.left \subseteq Pages

\* What is queued is the latest change.
QueueIsLatest(w) ==
  \A p \in Pages : pending[w][p] \in {Null, latest[w][p]}

OneFlight(w) == \A f, g \in flights[w] : f = g

Settled(w, n, p, e) == told[w][<<n, p>>] = e \/ <<n, e>> \in dropped[w]

\* A flush carries the latest change of a page or a newer one is queued; the
\* engines it is done with were told of it or are given up.
FlightOK(w) ==
  \A f \in flights[w], p \in Pages :
    /\ f.batch[p] # Null =>
         /\ latest[w][p] \in {f.batch[p], pending[w][p]}
         /\ f.pc = "indexNow" => p \in f.left
         /\ f.pc = "google" =>
              /\ Settled(w, "indexNow", p, f.batch[p])
              /\ p \notin f.left => Settled(w, "google", p, f.batch[p])
    /\ f.pc # "lookup" /\ p \in f.left => f.batch[p] # Null

Latest(w) ==
  \A p \in Pages :
    LET e == latest[w][p] IN
    \/ e = Null \/ e = pending[w][p]
    \/ \E f \in flights[w] : f.batch[p] = e
    \/ \A n \in Engines : Settled(w, n, p, e)

WorkerOK(w) == QueueIsLatest(w) /\ OneFlight(w) /\ FlightOK(w) /\ Latest(w)

IInv == Tables /\ \A w \in Workers : WorkerOK(w)

\* A step of one worker leaves the others alone.
LEMMA OneWorker ==
  ASSUME IInv, NEW w \in Workers, Tables', WorkerOK(w)',
         \A v \in Workers : v # w =>
           /\ pending'[v] = pending[v] /\ latest'[v] = latest[v]
           /\ flights'[v] = flights[v] /\ told'[v] = told[v]
           /\ dropped'[v] = dropped[v]
  PROVE  IInv'
<1>1. ASSUME NEW v \in Workers, v # w
      PROVE  WorkerOK(v)'
  BY <1>1 DEF IInv, WorkerOK, QueueIsLatest, OneFlight, FlightOK, Latest,
              Settled
<1> QED
  BY <1>1 DEF IInv

\* Nothing is queued, sent or told at the start.
LEMMA InitIInv == SearchInit => IInv
<1> SUFFICES ASSUME SearchInit PROVE IInv
    OBVIOUS
<1>1. Tables
  BY DEF SearchInit, Tables, Nothing
<1>2. ASSUME NEW w \in Workers
      PROVE  WorkerOK(w)
  <2>1. flights[w] = {} /\ \A p \in Pages : /\ latest[w][p] = Null
                                            /\ pending[w][p] = Null
    BY DEF SearchInit, Nothing
  <2> QED
    BY <2>1 DEF WorkerOK, QueueIsLatest, OneFlight, FlightOK, Latest
<1> QED
  BY <1>1, <1>2 DEF IInv

\* enqueue: the change of a page takes the place of the one that is queued.
LEMMA EnqueueStep ==
  ASSUME IInv, NEW w \in Workers, NEW e, Enqueue(w, e), ChangesPage(e)
  PROVE  IInv'
<1>1. /\ pending' = [pending EXCEPT ![w] = [pending[w] EXCEPT ![PageOf[e]] = e]]
      /\ latest' = [latest EXCEPT ![w] = [latest[w] EXCEPT ![PageOf[e]] = e]]
      /\ UNCHANGED <<flights, told, dropped>>
  BY DEF Enqueue
<1>2. Tables /\ WorkerOK(w)
  BY DEF IInv
<1>3. /\ pending'[w] = [pending[w] EXCEPT ![PageOf[e]] = e]
      /\ latest'[w] = [latest[w] EXCEPT ![PageOf[e]] = e]
      /\ \A v \in Workers : v # w => /\ pending'[v] = pending[v]
                                     /\ latest'[v] = latest[v]
  BY <1>1, <1>2 DEF Tables
<1>4. \A p \in Pages :
        \/ p = PageOf[e] /\ pending'[w][p] = e /\ latest'[w][p] = e
        \/ pending'[w][p] = pending[w][p] /\ latest'[w][p] = latest[w][p]
  BY <1>2, <1>3 DEF Tables
<1>5. Tables'
  BY <1>1, <1>2, <1>3 DEF Tables
<1>6. QueueIsLatest(w)' /\ OneFlight(w)'
  BY <1>1, <1>2, <1>4 DEF WorkerOK, QueueIsLatest, OneFlight
<1>7. FlightOK(w)'
  BY <1>1, <1>2, <1>4 DEF WorkerOK, FlightOK, Settled
<1>8. Latest(w)'
  BY <1>1, <1>2, <1>4 DEF WorkerOK, Latest, Settled
<1> QED
  BY <1>1, <1>3, <1>5, <1>6, <1>7, <1>8, OneWorker DEF WorkerOK

\* Flush: all that is queued goes into the one flush of the worker.
LEMMA FlushStep ==
  ASSUME IInv, NEW w \in Workers, Flush(w)
  PROVE  IInv'
<1>1. /\ flights[w] = {}
      /\ flights' = [flights EXCEPT ![w] = {Snapshot(w)}]
      /\ pending' = [pending EXCEPT ![w] = Nothing]
      /\ UNCHANGED <<latest, told, dropped>>
  BY DEF Flush
<1>2. Tables /\ WorkerOK(w)
  BY DEF IInv
<1>3. /\ flights'[w] = {Snapshot(w)} /\ pending'[w] = Nothing
      /\ \A v \in Workers : v # w => /\ pending'[v] = pending[v]
                                     /\ flights'[v] = flights[v]
  BY <1>1, <1>2 DEF Tables
<1>4. /\ Snapshot(w) = [pc |-> "lookup", batch |-> pending[w], left |-> {}]
      /\ Snapshot(w).pc = "lookup" /\ Snapshot(w).batch = pending[w]
      /\ Snapshot(w).left = {}
      /\ \A p \in Pages : Nothing[p] = Null
      /\ DOMAIN Nothing = Pages
  BY DEF Snapshot, Nothing
<1>5. Tables'
  BY <1>1, <1>2, <1>3, <1>4 DEF Tables
<1>6. QueueIsLatest(w)' /\ OneFlight(w)'
  BY <1>1, <1>3, <1>4 DEF QueueIsLatest, OneFlight
<1>7. FlightOK(w)'
  BY <1>1, <1>2, <1>3, <1>4 DEF WorkerOK, QueueIsLatest, FlightOK
<1>8. Latest(w)'
  BY <1>1, <1>2, <1>3, <1>4 DEF WorkerOK, Latest, Settled
<1> QED
  BY <1>1, <1>3, <1>5, <1>6, <1>7, <1>8, OneWorker DEF WorkerOK

\* Restart: the memory is empty again.
LEMMA RestartStep ==
  ASSUME IInv, NEW w \in Workers, Restart(w)
  PROVE  IInv'
<1>1. /\ pending' = [pending EXCEPT ![w] = Nothing]
      /\ flights' = [flights EXCEPT ![w] = {}]
      /\ latest' = [latest EXCEPT ![w] = Nothing]
      /\ told' = [told EXCEPT ![w] = [x \in Engines \X Pages |-> Null]]
      /\ dropped' = [dropped EXCEPT ![w] = {}]
  BY DEF Restart
<1>2. Tables
  BY DEF IInv
<1>3. /\ pending'[w] = Nothing /\ flights'[w] = {} /\ latest'[w] = Nothing
      /\ \A v \in Workers : v # w =>
           /\ pending'[v] = pending[v] /\ latest'[v] = latest[v]
           /\ flights'[v] = flights[v] /\ told'[v] = told[v]
           /\ dropped'[v] = dropped[v]
  BY <1>1, <1>2 DEF Tables
<1>4. /\ \A p \in Pages : Nothing[p] = Null
      /\ DOMAIN Nothing = Pages
  BY DEF Nothing
<1>5. Tables'
  BY <1>1, <1>2, <1>3, <1>4 DEF Tables
<1>6. WorkerOK(w)'
  BY <1>3, <1>4 DEF WorkerOK, QueueIsLatest, OneFlight, FlightOK, Latest
<1> QED
  BY <1>3, <1>5, <1>6, OneWorker

\* Lookup: rows that are gone are given up for both engines.
LEMMA LookupStep ==
  ASSUME IInv, NEW w \in Workers, NEW f \in flights[w], Lookup(w, f)
  PROVE  IInv'
<1>1. Tables /\ WorkerOK(w)
  BY DEF IInv
<1>2. PICK found \in SUBSET Asked(f) :
        /\ dropped' = [dropped EXCEPT ![w] =
             @ \cup (Engines \X {f.batch[p] : p \in Asked(f) \ found})]
        /\ IF found = {} THEN End(w, f)
           ELSE Turn(w, f, [pc |-> "indexNow", left |-> found,
                  batch |-> [p \in Pages |->
                               IF p \in found THEN f.batch[p] ELSE Null]])
        /\ UNCHANGED <<pending, latest, told>> /\ f.pc = "lookup"
  BY DEF Lookup
<1> DEFINE g == [pc |-> "indexNow", left |-> found,
                 batch |-> [p \in Pages |->
                              IF p \in found THEN f.batch[p] ELSE Null]]
<1>3. /\ flights[w] = {f}
      /\ \A v \in Workers : v # w => /\ flights'[v] = flights[v]
                                     /\ dropped'[v] = dropped[v]
      /\ flights'[w] = IF found = {} THEN {} ELSE {g}
      /\ DOMAIN flights' = Workers /\ DOMAIN dropped' = Workers
  <2>1. flights[w] = {f}
    BY <1>1 DEF WorkerOK, OneFlight
  <2>2. /\ \A v \in Workers : v # w => dropped'[v] = dropped[v]
        /\ DOMAIN dropped' = Workers
    BY <1>1, <1>2 DEF Tables
  <2>3. flights' = [flights EXCEPT ![w] = IF found = {} THEN {} ELSE {g}]
    <3> HIDE DEF g
    <3>1. {f} \ {f} = {} /\ ({f} \ {f}) \cup {g} = {g}
      OBVIOUS
    <3>2. IF found = {} THEN End(w, f) ELSE Turn(w, f, g)
      BY <1>2 DEF g
    <3> QED
      BY <2>1, <3>1, <3>2 DEF End, Turn
  <2> HIDE DEF g
  <2> QED
    BY <1>1, <2>1, <2>2, <2>3 DEF Tables
<1>4. /\ g.pc = "indexNow" /\ g.left = found
      /\ \A p \in Pages : g.batch[p] = IF p \in found THEN f.batch[p] ELSE Null
      /\ g = [pc |-> g.pc, batch |-> g.batch, left |-> g.left]
  OBVIOUS
<1>5. /\ dropped[w] \subseteq dropped'[w]
      /\ \A p \in Asked(f) \ found : \A n \in Engines :
           <<n, f.batch[p]>> \in dropped'[w]
  BY <1>1, <1>2 DEF Tables
<1> HIDE DEF g
<1>6. Tables'
  <2>1. \A h \in flights'[w] :
          /\ h = [pc |-> h.pc, batch |-> h.batch, left |-> h.left]
          /\ h.left \subseteq Pages
    BY <1>3, <1>4 DEF Asked
  <2> QED
    BY <1>1, <1>2, <1>3, <2>1 DEF Tables
<1>7. QueueIsLatest(w)' /\ OneFlight(w)'
  BY <1>1, <1>2, <1>3 DEF WorkerOK, QueueIsLatest, OneFlight
<1>8. found \subseteq Pages /\ \A p \in found : f.batch[p] # Null
  BY DEF Asked
<1>9. FlightOK(w)'
  <2> SUFFICES ASSUME NEW h \in flights'[w], NEW p \in Pages
               PROVE  /\ h.batch[p] # Null =>
                           /\ latest[w][p] \in {h.batch[p], pending[w][p]}
                           /\ h.pc = "indexNow" => p \in h.left
                           /\ h.pc # "google"
                      /\ p \in h.left => h.batch[p] # Null
    BY <1>2 DEF FlightOK
  <2>1. h = g
    BY <1>3
  <2> QED
    BY <1>1, <1>3, <1>4, <1>8, <2>1 DEF WorkerOK, FlightOK
<1>10. Latest(w)'
  <2> SUFFICES ASSUME NEW p \in Pages, latest[w][p] # Null,
                      latest[w][p] # pending[w][p]
               PROVE  \/ \E h \in flights'[w] : h.batch[p] = latest[w][p]
                      \/ \A n \in Engines : Settled(w, n, p, latest[w][p])'
    BY <1>2 DEF Latest, Settled
  <2>1. CASE f.batch[p] = latest[w][p]
    <3>1. p \in Asked(f)
      BY <2>1 DEF Asked
    <3>2. CASE p \in found
      BY <1>3, <1>4, <2>1, <3>2
    <3>3. CASE p \notin found
      BY <1>2, <1>5, <2>1, <3>1, <3>3 DEF Settled
    <3> QED
      BY <3>2, <3>3
  <2>2. CASE \A n \in Engines : Settled(w, n, p, latest[w][p])
    BY <1>2, <1>5, <2>2 DEF Settled
  <2> QED
    BY <1>1, <1>3, <2>1, <2>2 DEF WorkerOK, Latest
<1> QED
  BY <1>2, <1>3, <1>6, <1>7, <1>9, <1>10, OneWorker DEF WorkerOK

\* TellIndexNow, TellGoogle: what the flush carries is what the engines hear.
LEMMA TellStep ==
  ASSUME IInv, NEW w \in Workers, NEW f \in flights[w],
         TellIndexNow(w, f) \/ TellGoogle(w, f)
  PROVE  IInv'
<1>1. Tables /\ WorkerOK(w)
  BY DEF IInv
<1>2. f = [pc |-> f.pc, batch |-> f.batch, left |-> f.left]
        /\ f.left \subseteq Pages
  BY <1>1 DEF Tables
<1>3. PICK n, pages, g :
        /\ n \in Engines /\ pages \in SUBSET Pages
        /\ Tell(w, f, n, pages, g)
        /\ g = [pc |-> g.pc, batch |-> g.batch, left |-> g.left]
        /\ g.batch = f.batch /\ f.pc # "lookup" /\ g.pc = "google"
        /\ g.left \subseteq Pages
        /\ \A p \in pages : f.batch[p] # Null
        /\ \/ /\ f.pc = "indexNow" /\ n = "indexNow" /\ g # f
              /\ g.left = f.left /\ pages = Asked(f)
           \/ /\ f.pc = "google" /\ n = "google"
              /\ g = f => (\A p \in Pages : p \in f.left => p \in pages)
              /\ g # f =>
                   \A p \in Pages : p \notin g.left <=>
                                      (p \notin f.left \/ p \in pages)
  <2>1. CASE TellIndexNow(w, f)
    <3>1. /\ f.pc = "indexNow"
          /\ Tell(w, f, "indexNow", Asked(f), [f EXCEPT !.pc = "google"])
      BY <2>1 DEF TellIndexNow
    <3> DEFINE g == [f EXCEPT !.pc = "google"]
    <3>2. /\ g = [pc |-> g.pc, batch |-> g.batch, left |-> g.left]
          /\ g.batch = f.batch /\ g.pc = "google" /\ g.left = f.left
          /\ g # f /\ g.left \subseteq Pages
      BY <1>2, <3>1
    <3>3. "indexNow" \in Engines /\ Asked(f) \in SUBSET Pages
            /\ \A p \in Asked(f) : f.batch[p] # Null
      BY DEF Engines, Asked
    <3> QED
      BY <3>1, <3>2, <3>3
  <2>2. CASE TellGoogle(w, f)
    <3>1. PICK q \in f.left :
            Tell(w, f, "google", {q},
                 IF f.left = {q} THEN f ELSE [f EXCEPT !.left = @ \ {q}])
      BY <2>2 DEF TellGoogle
    <3> DEFINE g == IF f.left = {q} THEN f ELSE [f EXCEPT !.left = @ \ {q}]
    <3>2. f.pc = "google" /\ "google" \in Engines
      BY <2>2 DEF TellGoogle, Engines
    <3>3. q \in Pages /\ f.batch[q] # Null
      <4>1. q \in Pages
        BY <1>1 DEF Tables
      <4> QED
        BY <1>1, <3>2, <4>1 DEF WorkerOK, FlightOK
    <3>4. CASE f.left = {q}
      BY <1>2, <3>1, <3>2, <3>3, <3>4
    <3>5. CASE f.left # {q}
      <4>1. /\ g = [pc |-> g.pc, batch |-> g.batch, left |-> g.left]
            /\ g.batch = f.batch /\ g.pc = "google" /\ g.left = f.left \ {q}
            /\ g # f /\ g.left \subseteq Pages
        BY <1>2, <3>1, <3>2, <3>5
      <4> HIDE DEF g
      <4> QED
        BY <3>1, <3>2, <3>3, <4>1 DEF g
    <3> QED
      BY <3>4, <3>5
  <2> QED
    BY <2>1, <2>2
<1>4. /\ UNCHANGED <<pending, latest>>
      /\ DOMAIN flights' = Workers /\ DOMAIN told' = Workers
      /\ DOMAIN dropped' = Workers
      /\ \A v \in Workers : v # w => /\ flights'[v] = flights[v]
                                     /\ told'[v] = told[v]
                                     /\ dropped'[v] = dropped[v]
      /\ flights[w] = {f} /\ dropped[w] \subseteq dropped'[w]
      /\ \A m \in Engines, p \in Pages :
           \/ told'[w][<<m, p>>] = told[w][<<m, p>>]
           \/ /\ m = n /\ p \in pages /\ told'[w][<<m, p>>] = f.batch[p]
      /\ \/ flights'[w] = {f}
         \/ /\ g = f => flights'[w] = {}
            /\ g # f => flights'[w] = {g}
            /\ \A p \in pages : \/ told'[w][<<n, p>>] = f.batch[p]
                                \/ <<n, f.batch[p]>> \in dropped'[w]
  <2>1. Tables /\ flights[w] = {f}
    BY <1>1 DEF WorkerOK, OneFlight
  <2>2. PICK heard \in BOOLEAN, answer \in {"ok", "given up", "again"} :
          /\ answer = "ok" => heard
          /\ told' = IF heard
               THEN [told EXCEPT ![w] = [x \in Engines \X Pages |->
                      IF x \in {n} \X pages THEN f.batch[x[2]] ELSE @[x]]]
               ELSE told
          /\ dropped' = IF answer = "given up"
               THEN [dropped EXCEPT ![w] =
                       @ \cup ({n} \X {f.batch[p] : p \in pages})]
               ELSE dropped
          /\ IF answer = "again" THEN UNCHANGED flights
             ELSE IF g = f THEN End(w, f) ELSE Turn(w, f, g)
          /\ UNCHANGED <<pending, latest>>
    BY <1>3 DEF Tell
  <2>3. /\ DOMAIN told' = Workers
        /\ \A v \in Workers : v # w => told'[v] = told[v]
        /\ \A m \in Engines, p \in Pages :
             told'[w][<<m, p>>] = IF heard /\ m = n /\ p \in pages
                                  THEN f.batch[p] ELSE told[w][<<m, p>>]
    <3>1. CASE heard
      <4>1. /\ DOMAIN told' = Workers
            /\ \A v \in Workers : v # w => told'[v] = told[v]
            /\ told'[w] = [x \in Engines \X Pages |->
                 IF x \in {n} \X pages THEN f.batch[x[2]] ELSE told[w][x]]
        BY <2>1, <2>2, <3>1 DEF Tables
      <4>2. ASSUME NEW m \in Engines, NEW p \in Pages
            PROVE  told'[w][<<m, p>>] = IF m = n /\ p \in pages
                                        THEN f.batch[p] ELSE told[w][<<m, p>>]
        <5>1. <<m, p>> \in Engines \X Pages /\ <<m, p>>[2] = p
          OBVIOUS
        <5>2. <<m, p>> \in {n} \X pages <=> (m = n /\ p \in pages)
          OBVIOUS
        <5> QED
          BY <4>1, <5>1, <5>2
      <4> QED
        BY <3>1, <4>1, <4>2
    <3>2. CASE ~heard
      BY <2>1, <2>2, <3>2 DEF Tables
    <3> QED
      BY <3>1, <3>2
  <2>4. /\ DOMAIN dropped' = Workers /\ dropped[w] \subseteq dropped'[w]
        /\ \A v \in Workers : v # w => dropped'[v] = dropped[v]
        /\ answer = "given up" =>
             \A p \in pages : <<n, f.batch[p]>> \in dropped'[w]
    BY <2>1, <2>2 DEF Tables
  <2>5. /\ DOMAIN flights' = Workers
        /\ \A v \in Workers : v # w => flights'[v] = flights[v]
        /\ flights'[w] = IF answer = "again" THEN {f}
                         ELSE IF g = f THEN {} ELSE {g}
    <3>1. {f} \ {f} = {} /\ ({f} \ {f}) \cup {g} = {g}
      OBVIOUS
    <3>2. CASE answer = "again"
      BY <2>1, <2>2, <3>2 DEF Tables
    <3>3. CASE answer # "again" /\ g = f
      BY <2>1, <2>2, <3>1, <3>3 DEF Tables, End
    <3>4. CASE answer # "again" /\ g # f
      BY <2>1, <2>2, <3>1, <3>4 DEF Tables, Turn
    <3> QED
      BY <3>2, <3>3, <3>4
  <2>6. answer # "again" =>
          \A p \in pages : \/ told'[w][<<n, p>>] = f.batch[p]
                           \/ <<n, f.batch[p]>> \in dropped'[w]
    <3> SUFFICES ASSUME answer # "again", NEW p \in pages
                 PROVE  \/ told'[w][<<n, p>>] = f.batch[p]
                        \/ <<n, f.batch[p]>> \in dropped'[w]
      OBVIOUS
    <3>1. CASE answer = "ok"
      <4>1. n \in Engines /\ p \in Pages
        BY <1>3
      <4> QED
        BY <2>2, <2>3, <3>1, <4>1
    <3>2. CASE answer = "given up"
      BY <2>4, <3>2
    <3> QED
      BY <2>2, <3>1, <3>2
  <2> QED
    BY <2>1, <2>2, <2>3, <2>4, <2>5, <2>6
<1>5. Tables'
  BY <1>1, <1>2, <1>3, <1>4 DEF Tables
<1>6. QueueIsLatest(w)' /\ OneFlight(w)'
  BY <1>1, <1>4 DEF WorkerOK, QueueIsLatest, OneFlight
\* What an engine was told of the pages of the flush stays so.
<1>7. \A m \in Engines, p \in Pages :
        Settled(w, m, p, f.batch[p]) => Settled(w, m, p, f.batch[p])'
  BY <1>4 DEF Settled
<1>8. \A p \in Pages :
        f.batch[p] # Null =>
          /\ latest[w][p] \in {f.batch[p], pending[w][p]}
          /\ f.pc = "indexNow" => p \in f.left
          /\ f.pc = "google" =>
               /\ Settled(w, "indexNow", p, f.batch[p])
               /\ p \notin f.left => Settled(w, "google", p, f.batch[p])
  BY <1>1 DEF WorkerOK, FlightOK
<1>9. \A p \in Pages : p \in f.left => f.batch[p] # Null
  BY <1>1, <1>3 DEF WorkerOK, FlightOK
<1>10. "indexNow" \in Engines /\ "google" \in Engines
         /\ \A m \in Engines : m = "indexNow" \/ m = "google"
  BY DEF Engines
<1>11. FlightOK(w)'
  <2> SUFFICES ASSUME NEW h \in flights'[w], NEW p \in Pages
               PROVE  /\ h.batch[p] # Null =>
                           /\ latest[w][p] \in {h.batch[p], pending[w][p]}
                           /\ h.pc = "indexNow" => p \in h.left
                           /\ h.pc = "google" =>
                                /\ Settled(w, "indexNow", p, h.batch[p])'
                                /\ p \notin h.left =>
                                     Settled(w, "google", p, h.batch[p])'
                      /\ h.pc # "lookup" /\ p \in h.left => h.batch[p] # Null
    BY <1>4 DEF FlightOK, Settled
  <2>1. CASE h = f
    BY <1>7, <1>8, <1>9, <1>10, <2>1
  <2>2. CASE h # f
    <3>1. /\ h = g /\ g # f
          /\ \A q \in pages : Settled(w, n, q, f.batch[q])'
      BY <1>4, <2>2 DEF Settled
    <3>2. CASE f.pc = "indexNow"
      BY <1>3, <1>8, <1>9, <3>1, <3>2 DEF Asked
    <3>3. CASE f.pc = "google"
      BY <1>3, <1>7, <1>8, <1>9, <1>10, <3>1, <3>3
    <3> QED
      BY <1>3, <3>2, <3>3
  <2> QED
    BY <2>1, <2>2
<1>12. Latest(w)'
  <2> SUFFICES ASSUME NEW p \in Pages, latest[w][p] # Null,
                      latest[w][p] # pending[w][p]
               PROVE  \/ \E h \in flights'[w] : h.batch[p] = latest[w][p]
                      \/ \A m \in Engines : \/ told'[w][<<m, p>>] = latest[w][p]
                                            \/ <<m, latest[w][p]>> \in dropped'[w]
    BY <1>4 DEF Latest, Settled
  <2>1. CASE f.batch[p] = latest[w][p]
    <3>1. CASE flights'[w] # {}
      BY <1>3, <1>4, <2>1, <3>1
    <3>2. CASE flights'[w] = {}
      <4>1. /\ g = f /\ f.pc = "google" /\ n = "google"
            /\ \A q \in pages : Settled(w, n, q, f.batch[q])'
        BY <1>3, <1>4, <3>2 DEF Settled
      <4>2. Settled(w, "indexNow", p, f.batch[p])'
        BY <1>7, <1>8, <1>10, <2>1, <4>1
      <4>3. Settled(w, "google", p, f.batch[p])'
        <5>1. CASE p \in f.left
          BY <1>3, <4>1, <5>1
        <5>2. CASE p \notin f.left
          BY <1>7, <1>8, <1>10, <2>1, <4>1, <5>2
        <5> QED
          BY <5>1, <5>2
      <4> QED
        BY <1>10, <2>1, <4>2, <4>3 DEF Settled
    <3> QED
      BY <3>1, <3>2
  <2>2. CASE f.batch[p] # latest[w][p]
    <3>1. f.batch[p] = Null /\ p \notin pages
      BY <1>3, <1>8, <2>2
    <3>2. \A m \in Engines : Settled(w, m, p, latest[w][p])
      BY <1>1, <1>4, <2>2 DEF WorkerOK, Latest
    <3> QED
      BY <1>4, <3>1, <3>2 DEF Settled
  <2> QED
    BY <2>1, <2>2
<1> QED
  BY <1>4, <1>5, <1>6, <1>11, <1>12, OneWorker DEF WorkerOK

-----------------------------------------------------------------------------
(* The theorems.                                                           *)

\* Every step keeps the invariant.
LEMMA NextIInv == IInv /\ [SearchNext]_allVars => IInv'
<1> SUFFICES ASSUME IInv, [SearchNext]_allVars PROVE IInv'
    OBVIOUS
<1>1. CASE UNCHANGED searchVars
  BY <1>1 DEF searchVars, IInv, Tables, WorkerOK, QueueIsLatest, OneFlight,
              FlightOK, Latest, Settled
<1>2. ASSUME NEW w \in Workers, Hand(w)
      PROVE  IInv'
  <2>1. Enqueue(w, worker[w].job[2])
    BY <1>2 DEF Hand
  <2>2. CASE ChangesPage(worker[w].job[2])
    BY <2>1, <2>2, EnqueueStep
  <2>3. CASE ~ChangesPage(worker[w].job[2])
    BY <1>1, <2>1, <2>3 DEF Enqueue
  <2> QED
    BY <2>2, <2>3
<1>3. ASSUME NEW w \in Workers, Flush(w) \/ Restart(w)
      PROVE  IInv'
  BY <1>3, FlushStep, RestartStep
<1>4. ASSUME NEW w \in Workers, NEW f \in flights[w],
             Lookup(w, f) \/ TellIndexNow(w, f) \/ TellGoogle(w, f)
      PROVE  IInv'
  BY <1>4, LookupStep, TellStep
<1> QED
  BY <1>1, <1>2, <1>3, <1>4 DEF SearchNext, allVars

\* The invariant holds however dispatches and flushes overlap.
THEOREM Invariance == SearchSpec => []IInv
<1> QED
  BY InitIInv, NextIInv, PTL DEF SearchSpec

\* The latest change of a page wins: it is queued, being sent, told, or given
\* up, and no engine is told of an older one after it.
THEOREM LatestChangeWinsHolds == SearchSpec => []LatestChangeWins
<1>1. IInv => LatestChangeWins
  BY DEF IInv, WorkerOK, Latest, Settled, LatestChangeWins
<1> QED
  BY <1>1, Invariance, PTL

-----------------------------------------------------------------------------
(* SearchIndexing is Outbox with a memory beside it.                       *)

\* What it adds to a step of Outbox takes none away and makes none of its own.
LEMMA SearchStep == [SearchNext]_allVars => [Next]_vars
<1> SUFFICES ASSUME [SearchNext]_allVars PROVE Next \/ UNCHANGED vars
    OBVIOUS
<1>1. CASE UNCHANGED allVars
  BY <1>1 DEF allVars
<1>2. CASE OutboxNext
  <2>1. ASSUME NEW w \in Workers, OtherWork(w) PROVE Next
    <3>1. Work(w)
      BY <2>1 DEF OtherWork, Work
    <3> QED
      BY <3>1 DEF Next
  <2>2. ASSUME NEW w \in Workers, NEW j \in JobIds, Take(w, j) PROVE Next
    BY <2>2 DEF Next
  <2>3. ASSUME NEW j \in JobIds, FailStalled(j) \/ Stall(j) \/ Forget(j)
        PROVE  Next
    BY <2>3 DEF Next
  <2>4. ASSUME NEW e \in Events,
               Emit(e) \/ PollAdd(e) \/ InsertLetter(e) \/ LoseLetter(e)
        PROVE  Next
    BY <2>4 DEF Next
  <2>5. CASE Poll \/ PollFails
    BY <2>5 DEF Next
  <2> QED
    BY <1>2, <2>1, <2>2, <2>3, <2>4, <2>5 DEF OutboxNext
<1>3. ASSUME NEW w \in Workers, Hand(w) PROVE Next
  <2>1. Work(w)
    BY <1>3 DEF Hand, Work
  <2> QED
    BY <2>1 DEF Next
<1>4. ASSUME NEW w \in Workers, Restart(w) PROVE Next \/ UNCHANGED vars
  BY <1>4 DEF Restart, Next
<1>5. ASSUME NEW w \in Workers, Flush(w) PROVE UNCHANGED vars
  BY <1>5 DEF Flush
<1>6. ASSUME NEW w \in Workers, NEW f \in flights[w],
             Lookup(w, f) \/ TellIndexNow(w, f) \/ TellGoogle(w, f)
      PROVE  UNCHANGED vars
  BY <1>6 DEF Lookup, TellIndexNow, TellGoogle, Tell
<1> QED
  BY <1>1, <1>2, <1>3, <1>4, <1>5, <1>6 DEF SearchNext

\* Telling the search engines of what a dispatch hands over changes nothing of
\* the dispatch: SearchIndexing implements Outbox, and so all that is proved of
\* Outbox holds beside flushes, failing engines and restarts.
THEOREM ImplementsOutbox == SearchSpec => Spec
<1>1. SearchInit => Init
  BY DEF SearchInit
<1> QED
  BY <1>1, SearchStep, PTL DEF SearchSpec, Spec
=============================================================================
