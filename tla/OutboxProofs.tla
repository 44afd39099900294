----------------------------- MODULE OutboxProofs -----------------------------
(***************************************************************************)
(* Proofs about Outbox, for any runs, relays, numbers of events, delivery  *)
(* attempts, claim sizes and crashes.                                      *)
(***************************************************************************)
EXTENDS Outbox, FiniteSetTheorems, SequenceTheorems, TLAPS

\* A row on its own: a try is a claim, a lease has an owner, only a lease
\* expires, and what is in flight was due.
RowSound(e) ==
    /\ e.generation = e.tries
    /\ (e.status = "in_flight") <=> (e.owner # None)
    /\ e.status = "dead_lettered" => e.tries = MaxDeliveries
    /\ e.expired => e.status = "in_flight"
    /\ e.status = "in_flight" => e.due

RowsSound == \A r \in Runs : \A i \in DOMAIN events[r] : RowSound(events[r][i])

\* A delivery, however late, is of an event whose predecessors are published,
\* of a claim no newer than the row's, and what it says it sent was received.
InTurn(E, s, d) ==
    /\ d.sequence \in DOMAIN E
    /\ d.generation <= E[d.sequence].generation
    /\ \A j \in 1..(d.sequence - 1) : E[j].status = "published"
    /\ d.sent => d.sequence \in Range(s)

HeldInTurn ==
    \A o \in Relays : \A d \in held[o] : InTurn(events[d.run], downstream[d.run], d)

\* Whatever was received, all before it was received before.
Gapless(s) == \A i \in DOMAIN s : \A k \in 1..s[i] : \E j \in 1..i : s[j] = k

Received ==
    \A r \in Runs :
      /\ Gapless(downstream[r])
      /\ \A i \in DOMAIN events[r] :
           events[r][i].status = "published" => i \in Range(downstream[r])

IndInv == TypeOK /\ PublishedPrefix /\ RowsSound /\ HeldInTurn /\ Received

Deliveries == [run : Runs, sequence : Nat \ {0}, generation : Nat \ {0}, sent : BOOLEAN]

\* What TypeOK says of a row, its run, a delivery and what was received.
LEMMA Typed ==
    ASSUME TypeOK
    PROVE  /\ \A r \in Runs :
                /\ events[r] \in Seq(Rows) /\ Len(events[r]) \in Nat
                /\ DOMAIN events[r] = 1..Len(events[r])
                /\ \A i \in 1..Len(events[r]) : events[r][i] \in Rows
                /\ downstream[r] \in Seq(Nat \ {0}) /\ Len(downstream[r]) \in Nat
                /\ DOMAIN downstream[r] = 1..Len(downstream[r])
                /\ \A i \in 1..Len(downstream[r]) : downstream[r][i] \in Nat \ {0}
           /\ \A o \in Relays : \A d \in held[o] : d \in Deliveries
  BY LenProperties, ElementOfSeq DEF TypeOK, Deliveries

-----------------------------------------------------------------------------
\* No row and no delivery at the start.
LEMMA InitInv == Init => IndInv
<1> SUFFICES ASSUME Init PROVE IndInv
  OBVIOUS
<1>1. TypeOK
  BY OutboxAssumption, EmptySeq DEF Init, TypeOK
<1>2. \A r \in Runs : DOMAIN events[r] = {} /\ DOMAIN downstream[r] = {}
  BY DEF Init
<1>3. PublishedPrefix /\ RowsSound /\ HeldInTurn
  BY <1>2 DEF Init, PublishedPrefix, RowsSound, HeldInTurn
<1>4. Received
  BY <1>2 DEF Received, Gapless
<1> QED
  BY <1>1, <1>3, <1>4 DEF IndInv

\* A step on one row, under the lease of the row or of its clock alone: it
\* publishes only what was received, and takes back nothing.
LEMMA TouchKeeps ==
    ASSUME IndInv, NEW r \in Runs, NEW i \in DOMAIN events[r], NEW f \in Rows,
           events' = [events EXCEPT ![r] = [events[r] EXCEPT ![i] = f]],
           RowSound(f), f.generation = events[r][i].generation,
           events[r][i].status = "published" => f.status = "published",
           f.status = "published" /\ f.status # events[r][i].status
             => i \in Range(downstream[r]),
           \/ f.status = events[r][i].status
           \/ events[r][i].status = "in_flight",
           f.tries = events[r][i].tries,
           held' \in [Relays -> SUBSET Deliveries],
           \A o \in Relays : held'[o] \subseteq held[o],
           UNCHANGED <<downstream, crashes>>
    PROVE  IndInv'
<1> USE DEF IndInv
<1>1. i \in 1..Len(events[r]) /\ events[r] \in Seq(Rows)
  BY Typed
<1>2. [events[r] EXCEPT ![i] = f] \in Seq(Rows)
      /\ Len([events[r] EXCEPT ![i] = f]) = Len(events[r])
  BY <1>1, ExceptSeq
<1>3. TypeOK'
  BY <1>2 DEF TypeOK, Deliveries
<1>4. \A q \in Runs : /\ DOMAIN events'[q] = DOMAIN events[q]
                      /\ \A j \in DOMAIN events[q] :
                           events'[q][j] = IF q = r /\ j = i THEN f ELSE events[q][j]
  BY <1>1, <1>2 DEF TypeOK
<1>5. PublishedPrefix'
  BY <1>4, Typed DEF PublishedPrefix
<1>6. RowsSound'
  BY <1>4 DEF RowsSound
<1>7. HeldInTurn'
  <2> SUFFICES ASSUME NEW o \in Relays, NEW d \in held'[o]
               PROVE  InTurn(events'[d.run], downstream[d.run], d)
    BY DEF HeldInTurn
  <2>1. d \in held[o] /\ InTurn(events[d.run], downstream[d.run], d) /\ d.run \in Runs
        /\ d.sequence \in Nat /\ d.sequence >= 1
    BY Typed DEF HeldInTurn, Deliveries
  <2>2. \A j \in 1..d.sequence : j \in DOMAIN events[d.run]
    BY <2>1, Typed DEF InTurn
  <2> QED
    BY <1>4, <2>1, <2>2 DEF InTurn
<1>8. Received'
  BY <1>4 DEF Received
<1> QED
  BY <1>3, <1>5, <1>6, <1>7, <1>8

\* appendEvent adds an unpublished row at the end and keeps the invariant.
LEMMA AppendKeeps == ASSUME IndInv, NEW r \in Runs, AppendEvent(r) PROVE IndInv'
<1> USE DEF IndInv, AppendEvent
<1>1. Fresh \in Rows /\ RowSound(Fresh) /\ Fresh.status = "pending" /\ Fresh.tries = 0
  BY OutboxAssumption DEF Fresh, Rows, RowSound
<1>2. events[r] \in Seq(Rows) /\ events' = [events EXCEPT ![r] = Append(events[r], Fresh)]
  BY DEF TypeOK
<1>3. Append(events[r], Fresh) \in Seq(Rows)
  BY <1>1, <1>2, AppendProperties
<1>4. TypeOK'
  BY <1>2, <1>3 DEF TypeOK
<1>5. \A q \in Runs : q # r => events'[q] = events[q]
  BY <1>2 DEF TypeOK
<1>6. /\ events'[r] = Append(events[r], Fresh)
      /\ DOMAIN events'[r] = 1..(Len(events[r]) + 1)
      /\ \A j \in 1..Len(events[r]) : events'[r][j] = events[r][j]
      /\ events'[r][Len(events[r]) + 1] = Fresh
  BY <1>1, <1>2, AppendProperties DEF TypeOK
<1>7. \A q \in Runs : \A j \in DOMAIN events[q] :
        j \in DOMAIN events'[q] /\ events'[q][j] = events[q][j]
  BY <1>5, <1>6, Typed
<1>8. \A q \in Runs : \A j \in DOMAIN events'[q] :
        \/ j \in DOMAIN events[q]
        \/ q = r /\ j = Len(events[r]) + 1 /\ events'[q][j] = Fresh
  BY <1>5, <1>6, Typed
<1>9. PublishedPrefix'
  <2> SUFFICES ASSUME NEW q \in Runs, NEW j \in DOMAIN events'[q], NEW k \in DOMAIN events'[q],
                      j < k, events'[q][j].status # "published"
               PROVE  events'[q][k].status = "pending" /\ events'[q][k].tries = 0
    BY DEF PublishedPrefix
  <2>1. CASE k \in DOMAIN events[q]
    BY <1>7, <1>8, <2>1, Typed DEF PublishedPrefix
  <2>2. CASE k \notin DOMAIN events[q]
    BY <1>1, <1>8, <2>2
  <2> QED
    BY <2>1, <2>2
<1>10. RowsSound'
  BY <1>1, <1>7, <1>8 DEF RowsSound
<1>11. HeldInTurn'
  <2> SUFFICES ASSUME NEW o \in Relays, NEW d \in held[o]
               PROVE  InTurn(events'[d.run], downstream[d.run], d)
    BY DEF HeldInTurn
  <2>1. InTurn(events[d.run], downstream[d.run], d) /\ d.run \in Runs
        /\ d.sequence \in Nat /\ d.sequence >= 1
    BY Typed DEF HeldInTurn, Deliveries
  <2>2. \A j \in 1..d.sequence : j \in DOMAIN events[d.run]
    BY <2>1, Typed DEF InTurn
  <2> QED
    BY <1>7, <2>1, <2>2 DEF InTurn
<1>12. Received'
  BY <1>1, <1>7, <1>8 DEF Received
<1> QED
  BY <1>4, <1>9, <1>10, <1>11, <1>12

\* A row that its relay still holds may be written by it.
LEMMA OwnedRow ==
    ASSUME IndInv, NEW o \in Relays, NEW d \in held[o]
    PROVE  /\ d.run \in Runs /\ d.sequence \in DOMAIN events[d.run]
           /\ events[d.run][d.sequence] \in Rows
           /\ RowSound(events[d.run][d.sequence])
           /\ InTurn(events[d.run], downstream[d.run], d)
  BY Typed DEF IndInv, HeldInTurn, RowsSound, InTurn, Deliveries

\* Several columns of one row are written as one row.
SetStatus(E, r, i, x, y) == [E EXCEPT ![r][i].status = x, ![r][i].owner = y]
SetDelayed(E, r, i, x, y) ==
    [E EXCEPT ![r][i].status = x, ![r][i].due = FALSE, ![r][i].owner = y]
WithStatus(e, x, y) == [e EXCEPT !.status = x, !.owner = y]
WithDelay(e, x, y) == [e EXCEPT !.status = x, !.due = FALSE, !.owner = y]
Row(E, r, i, v) == [E EXCEPT ![r] = [E[r] EXCEPT ![i] = v]]

\* The two ways a command writes a row replace that row and nothing else.
LEMMA OneRow ==
    ASSUME NEW E, NEW r \in DOMAIN E, NEW i \in DOMAIN E[r], NEW x, NEW y
    PROVE  /\ SetStatus(E, r, i, x, y) = Row(E, r, i, WithStatus(E[r][i], x, y))
           /\ SetDelayed(E, r, i, x, y)
                = Row(E, r, i, WithDelay(E[r][i], x, y))
<1> DEFINE row(v) == [E EXCEPT ![r] = [E[r] EXCEPT ![i] = v]]
<1>1. ASSUME NEW v, NEW F, F = row(v)
      PROVE  /\ [F EXCEPT ![r][i].due = FALSE] = row([v EXCEPT !.due = FALSE])
             /\ [F EXCEPT ![r][i].owner = y] = row([v EXCEPT !.owner = y])
  <2>1. F[r] = [E[r] EXCEPT ![i] = v] /\ F[r][i] = v
    BY <1>1
  <2>2. \A w : [[E[r] EXCEPT ![i] = v] EXCEPT ![i] = w] = [E[r] EXCEPT ![i] = w]
    OBVIOUS
  <2>3. \A w : [F EXCEPT ![r] = w] = [E EXCEPT ![r] = w]
    BY <1>1
  <2> QED
    BY <2>1, <2>2, <2>3
<1>2. PICK F : F = [E EXCEPT ![r][i].status = x]
  OBVIOUS
<1>3. F = row([E[r][i] EXCEPT !.status = x])
  BY <1>2
<1>4. PICK G : G = [F EXCEPT ![r][i].due = FALSE]
  OBVIOUS
<1> HIDE DEF row
<1>5. [F EXCEPT ![r][i].owner = y] = row([[E[r][i] EXCEPT !.status = x] EXCEPT !.owner = y])
  BY <1>1, <1>3
<1>6. G = row([[E[r][i] EXCEPT !.status = x] EXCEPT !.due = FALSE])
  BY <1>1, <1>3, <1>4
<1>7. [G EXCEPT ![r][i].owner = y]
        = row([[[E[r][i] EXCEPT !.status = x] EXCEPT !.due = FALSE] EXCEPT !.owner = y])
  BY <1>1, <1>6
<1> QED
  BY <1>2, <1>4, <1>5, <1>7 DEF row, Row, SetStatus, SetDelayed, WithStatus, WithDelay

\* A relay that lets go of deliveries, and does nothing else, keeps the
\* invariant.
LEMMA DropKeeps ==
    ASSUME IndInv, UNCHANGED <<events, downstream, crashes>>,
           held' \in [Relays -> SUBSET Deliveries],
           \A o \in Relays : held'[o] \subseteq held[o]
    PROVE  IndInv'
<1> USE DEF IndInv
<1>1. TypeOK'
  BY DEF TypeOK, Deliveries
<1>2. PublishedPrefix' /\ RowsSound' /\ Received'
  BY DEF PublishedPrefix, RowsSound, Received
<1>3. HeldInTurn'
  BY DEF HeldInTurn
<1> QED
  BY <1>1, <1>2, <1>3

\* MarkOutboxPublished keeps the invariant: the row it marks is next in its
\* run.
LEMMA MarkKeeps ==
    ASSUME IndInv, NEW o \in Relays, NEW d \in held[o], MarkOutboxPublished(o, d)
    PROVE  IndInv'
<1> USE DEF IndInv
<1>1. held' \in [Relays -> SUBSET Deliveries] /\ \A q \in Relays : held'[q] \subseteq held[q]
  BY DEF MarkOutboxPublished, TypeOK, Deliveries
<1>2. UNCHANGED <<downstream, crashes>> /\ d.sent
  BY DEF MarkOutboxPublished
<1>3. CASE ~Owned(o, d)
  BY <1>1, <1>2, <1>3, DropKeeps DEF MarkOutboxPublished
<1>4. CASE Owned(o, d)
  <2>1. PICK e, f : /\ e = events[d.run][d.sequence]
                    /\ f = [e EXCEPT !.status = "published", !.owner = None]
    OBVIOUS
  <2>2. e \in Rows /\ RowSound(e) /\ e.status = "in_flight" /\ ~e.expired
    BY <1>4, <2>1, OwnedRow DEF Owned
  <2>3. /\ f \in Rows /\ RowSound(f) /\ f.status = "published" /\ f.tries = e.tries
        /\ f.generation = e.generation
    BY <2>1, <2>2 DEF Rows, RowSound
  <2>4. events' = [events EXCEPT ![d.run] = [events[d.run] EXCEPT ![d.sequence] = f]]
    <3>1. events' = SetStatus(events, d.run, d.sequence, "published", None)
      BY <1>4 DEF MarkOutboxPublished, SetStatus
    <3>2. d.run \in DOMAIN events /\ d.sequence \in DOMAIN events[d.run]
      BY OwnedRow DEF TypeOK
    <3>3. events' = Row(events, d.run, d.sequence, WithStatus(e, "published", None))
      BY <2>1, <3>1, <3>2, OneRow
    <3> QED
      BY <2>1, <3>3 DEF Row, WithStatus, WithDelay
  <2>5. d.sequence \in Range(downstream[d.run])
    BY <1>2, OwnedRow DEF InTurn
  <2> QED
    BY <1>1, <1>2, <2>1, <2>2, <2>3, <2>4, <2>5, OwnedRow, TouchKeeps
<1> QED
  BY <1>3, <1>4

\* FailOutbox keeps the invariant, whether it reschedules or buries the row.
LEMMA FailKeeps ==
    ASSUME IndInv, NEW o \in Relays, NEW d \in held[o], FailOutbox(o, d)
    PROVE  IndInv'
<1> USE DEF IndInv
<1>1. held' \in [Relays -> SUBSET Deliveries] /\ \A q \in Relays : held'[q] \subseteq held[q]
  BY DEF FailOutbox, TypeOK, Deliveries
<1>2. UNCHANGED <<downstream, crashes>>
  BY DEF FailOutbox
<1>3. CASE ~Owned(o, d)
  BY <1>1, <1>2, <1>3, DropKeeps DEF FailOutbox
<1>4. CASE Owned(o, d)
  <2>1. PICK e, x, f :
          /\ e = events[d.run][d.sequence]
          /\ x = IF e.tries >= MaxDeliveries THEN "dead_lettered" ELSE "pending"
          /\ f = [e EXCEPT !.status = x, !.due = FALSE, !.owner = None]
    OBVIOUS
  <2>2. e \in Rows /\ RowSound(e) /\ e.status = "in_flight" /\ ~e.expired
    BY <1>4, <2>1, OwnedRow DEF Owned
  <2>3. /\ f \in Rows /\ RowSound(f) /\ f.status # "published" /\ f.tries = e.tries
        /\ f.generation = e.generation
    <3>1. /\ x \in {"pending", "dead_lettered"}
          /\ x = "dead_lettered" => e.tries = MaxDeliveries
      BY <2>1, <2>2, OutboxAssumption DEF Rows
    <3>2. f \in Rows
      BY <2>1, <2>2, <3>1 DEF Rows
    <3>3. /\ f.status = x /\ ~f.due /\ f.owner = None /\ f.tries = e.tries
          /\ f.generation = e.generation /\ f.expired = e.expired
      BY <2>1, <2>2 DEF Rows
    <3> QED
      BY <2>2, <3>1, <3>2, <3>3 DEF RowSound
  <2>4. events' = [events EXCEPT ![d.run] = [events[d.run] EXCEPT ![d.sequence] = f]]
    <3>1. events' = SetDelayed(events, d.run, d.sequence, x, None)
      BY <1>4, <2>1 DEF FailOutbox, SetDelayed
    <3>2. d.run \in DOMAIN events /\ d.sequence \in DOMAIN events[d.run]
      BY OwnedRow DEF TypeOK
    <3>3. events' = Row(events, d.run, d.sequence, WithDelay(e, x, None))
      BY <2>1, <3>1, <3>2, OneRow
    <3> QED
      BY <2>1, <3>3 DEF Row, WithStatus, WithDelay
  <2> QED
    BY <1>1, <1>2, <2>1, <2>2, <2>3, <2>4, OwnedRow, TouchKeeps
<1> QED
  BY <1>3, <1>4

\* The database clock passes a deadline of a row.
LEMMA ClockKeeps ==
    ASSUME IndInv, NEW r \in Runs, NEW i \in DOMAIN events[r],
           DeliveryExpires(r, i) \/ RetryFallsDue(r, i)
    PROVE  IndInv'
<1> USE DEF IndInv
<1>1. events[r][i] \in Rows /\ RowSound(events[r][i])
  BY Typed DEF RowsSound
<1>2. held' \in [Relays -> SUBSET Deliveries] /\ \A q \in Relays : held'[q] \subseteq held[q]
  BY DEF DeliveryExpires, RetryFallsDue, TypeOK, Deliveries
<1>3. UNCHANGED <<downstream, crashes>>
  BY DEF DeliveryExpires, RetryFallsDue
<1>4. PICK e, f : /\ e = events[r][i] /\ f \in Rows /\ RowSound(f)
                  /\ f.status = e.status /\ f.tries = e.tries /\ f.generation = e.generation
                  /\ events' = [events EXCEPT ![r] = [events[r] EXCEPT ![i] = f]]
  <2>1. CASE DeliveryExpires(r, i)
    <3>1. PICK f : f = [events[r][i] EXCEPT !.expired = TRUE]
      OBVIOUS
    <3>2. /\ f \in Rows /\ RowSound(f) /\ f.status = events[r][i].status
          /\ f.tries = events[r][i].tries /\ f.generation = events[r][i].generation
      BY <1>1, <2>1, <3>1 DEF Rows, RowSound, DeliveryExpires
    <3>3. events' = [events EXCEPT ![r] = [events[r] EXCEPT ![i] = f]]
      BY <2>1, <3>1 DEF DeliveryExpires
    <3> QED
      BY <3>2, <3>3
  <2>2. CASE RetryFallsDue(r, i)
    <3>1. PICK f : f = [events[r][i] EXCEPT !.due = TRUE]
      OBVIOUS
    <3>2. /\ f \in Rows /\ RowSound(f) /\ f.status = events[r][i].status
          /\ f.tries = events[r][i].tries /\ f.generation = events[r][i].generation
      BY <1>1, <2>2, <3>1 DEF Rows, RowSound, RetryFallsDue
    <3>3. events' = [events EXCEPT ![r] = [events[r] EXCEPT ![i] = f]]
      BY <2>2, <3>1 DEF RetryFallsDue
    <3> QED
      BY <3>2, <3>3
  <2> QED
    BY <2>1, <2>2
<1> QED
  BY <1>2, <1>3, <1>4, TouchKeeps

\* Claiming: a candidate's predecessors are published, so the run behind it is
\* untouched; burying changes no row that anything follows.
Claimed(e, o) == [e EXCEPT !.status = "in_flight", !.owner = o, !.expired = FALSE,
                           !.generation = @ + 1, !.tries = @ + 1]

\* ClaimOutbox keeps the invariant: it takes rows whose predecessors are
\* published.
LEMMA ClaimKeeps ==
    ASSUME IndInv, NEW o \in Relays, NEW C \in SUBSET Candidates, ClaimOutbox(o, C)
    PROVE  IndInv'
<1> USE DEF IndInv
<1>1. \A p \in C : /\ p = <<p[1], p[2]>> /\ p[1] \in Runs /\ p[2] \in DOMAIN events[p[1]]
                   /\ Candidate(p[1], p[2])
  BY DEF Candidates
<1>2. \A e \in Rows : RowSound(e) =>
        /\ Bury(e) \in Rows /\ RowSound(Bury(e)) /\ Bury(e).generation = e.generation
        /\ Bury(e).tries = e.tries
        /\ e.status # "in_flight" => Bury(e) = e
        /\ e.status = "in_flight" => Bury(e).status # "published"
  <2> SUFFICES ASSUME NEW e \in Rows, RowSound(e)
               PROVE  /\ Bury(e) \in Rows /\ RowSound(Bury(e)) /\ Bury(e).generation = e.generation
                      /\ Bury(e).tries = e.tries
                      /\ e.status # "in_flight" => Bury(e) = e
                      /\ e.status = "in_flight" => Bury(e).status # "published"
    OBVIOUS
  <2>1. CASE ~Buried(e)
    BY <2>1 DEF Bury
  <2>2. CASE Buried(e)
    <3>1. PICK f : f = [e EXCEPT !.status = "dead_lettered", !.owner = None, !.expired = FALSE]
      OBVIOUS
    <3>2. Bury(e) = f /\ f \in Rows
      BY <2>2, <3>1 DEF Bury, Rows
    <3>3. /\ f.status = "dead_lettered" /\ f.owner = None /\ ~f.expired /\ f.tries = e.tries
          /\ f.generation = e.generation /\ e.status = "in_flight" /\ f.tries = MaxDeliveries
      BY <2>2, <3>1, OutboxAssumption DEF Buried, Rows
    <3> QED
      BY <3>2, <3>3 DEF RowSound
  <2> QED
    BY <2>1, <2>2
<1>3. \A r \in Runs : \A i \in DOMAIN events[r] : <<r, i>> \in C =>
        /\ events[r][i].status \in {"pending", "in_flight"} /\ events[r][i].due
        /\ events[r][i].tries < MaxDeliveries
        /\ \A j \in 1..(i - 1) : events[r][j].status = "published"
  <2> SUFFICES ASSUME NEW r \in Runs, NEW i \in DOMAIN events[r], <<r, i>> \in C
               PROVE  /\ events[r][i].status \in {"pending", "in_flight"} /\ events[r][i].due
                      /\ events[r][i].tries < MaxDeliveries
                      /\ \A j \in 1..(i - 1) : events[r][j].status = "published"
    OBVIOUS
  <2>1. Candidate(r, i)
    BY <1>1
  <2>2. CASE Buried(events[r][i])
    <3>1. Bury(events[r][i]).status = "dead_lettered"
      BY <2>2, Typed DEF Bury, Rows
    <3> QED
      BY <2>1, <3>1 DEF Candidate
  <2>3. CASE ~Buried(events[r][i])
    BY <2>1, <2>3 DEF Candidate, Bury
  <2> QED
    BY <2>2, <2>3
<1>4. \A r \in Runs : \A i \in DOMAIN events[r] : <<r, i>> \in C =>
        LET f == Claimed(events[r][i], o) IN
        /\ f \in Rows /\ RowSound(f) /\ f.status = "in_flight"
        /\ f.generation = events[r][i].generation + 1
  <2> SUFFICES ASSUME NEW r \in Runs, NEW i \in DOMAIN events[r], <<r, i>> \in C,
                      NEW f, f = Claimed(events[r][i], o)
               PROVE  /\ f \in Rows /\ RowSound(f) /\ f.status = "in_flight"
                      /\ f.generation = events[r][i].generation + 1
    OBVIOUS
  <2>1. events[r][i] \in Rows /\ RowSound(events[r][i])
    BY Typed DEF RowsSound
  <2>2. f \in Rows
    <3>1. PICK e : e = events[r][i]
      OBVIOUS
    <3>2. e.tries + 1 \in 0..MaxDeliveries /\ e.generation + 1 \in Nat
      BY <1>3, <2>1, <3>1, OutboxAssumption DEF Rows
    <3> QED
      BY <2>1, <3>1, <3>2 DEF Claimed, Rows
  <2>3. /\ f.status = "in_flight" /\ f.owner = o /\ f.owner # None /\ f.due = events[r][i].due
        /\ f.tries = events[r][i].tries + 1 /\ f.generation = events[r][i].generation + 1
    BY <2>1, OutboxAssumption DEF Claimed, Rows
  <2> QED
    BY <1>3, <2>1, <2>2, <2>3 DEF RowSound
<1>5. PICK row : \A r \in Runs : \A i \in DOMAIN events[r] :
        row[r][i] = IF <<r, i>> \in C THEN Claimed(events[r][i], o) ELSE Bury(events[r][i])
  <2> WITNESS [r \in Runs |-> [i \in DOMAIN events[r] |->
         IF <<r, i>> \in C THEN Claimed(events[r][i], o) ELSE Bury(events[r][i])]]
  <2> QED
    OBVIOUS
<1>6. events' = [r \in Runs |-> [i \in DOMAIN events[r] |-> row[r][i]]]
  BY <1>5 DEF ClaimOutbox, Claimed
<1>7. \A r \in Runs : \A i \in DOMAIN events[r] :
        /\ row[r][i] \in Rows /\ RowSound(row[r][i])
        /\ row[r][i].generation >= events[r][i].generation
        /\ events[r][i].status = "published" => row[r][i].status = "published"
        /\ row[r][i].status = "published" => events[r][i].status = "published"
  <2> SUFFICES ASSUME NEW r \in Runs, NEW i \in DOMAIN events[r], NEW e, e = events[r][i]
               PROVE  /\ row[r][i] \in Rows /\ RowSound(row[r][i])
                      /\ row[r][i].generation >= e.generation
                      /\ e.status = "published" => row[r][i].status = "published"
                      /\ row[r][i].status = "published" => e.status = "published"
    OBVIOUS
  <2>1. e \in Rows /\ RowSound(e) /\ e.generation \in Nat
    BY Typed DEF RowsSound, Rows
  <2>2. CASE <<r, i>> \in C
    <3>1. row[r][i] = Claimed(e, o) /\ e.status # "published"
      BY <1>3, <1>5, <2>2
    <3> QED
      BY <1>4, <2>1, <2>2, <3>1
  <2>3. CASE <<r, i>> \notin C
    <3>1. row[r][i] = Bury(e)
      BY <1>5, <2>3
    <3> QED
      BY <1>2, <2>1, <3>1
  <2> QED
    BY <2>2, <2>3
<1>8. \A r \in Runs : /\ DOMAIN events'[r] = DOMAIN events[r]
                      /\ \A i \in DOMAIN events[r] : events'[r][i] = row[r][i]
  BY <1>6
<1>9. events' \in [Runs -> Seq(Rows)]
  <2>1. ASSUME NEW r \in Runs PROVE events'[r] \in Seq(Rows)
    <3>1. events'[r] = [i \in 1..Len(events[r]) |-> row[r][i]] /\ Len(events[r]) \in Nat
      BY <1>6, Typed
    <3>2. \A i \in 1..Len(events[r]) : row[r][i] \in Rows
      BY <1>7, Typed
    <3> QED
      BY <3>1, <3>2
  <2> QED
    BY <1>6, <2>1
<1>10. /\ held' \in [Relays -> SUBSET Deliveries]
       /\ \A q \in Relays : q # o => held'[q] = held[q]
       /\ \A d \in held'[o] : /\ <<d.run, d.sequence>> \in C /\ d.run \in Runs
                              /\ d.sequence \in DOMAIN events[d.run] /\ ~d.sent
                              /\ d.generation = events[d.run][d.sequence].generation + 1
  <2>1. PICK new : new = {Delivery(p[1], p[2], events[p[1]][p[2]].generation + 1) : p \in C}
    OBVIOUS
  <2>2. \A d \in new : /\ d \in Deliveries /\ <<d.run, d.sequence>> \in C /\ ~d.sent
                       /\ d.generation = events[d.run][d.sequence].generation + 1
    <3> SUFFICES ASSUME NEW p \in C, NEW d,
                        d = Delivery(p[1], p[2], events[p[1]][p[2]].generation + 1)
                 PROVE  /\ d \in Deliveries /\ <<d.run, d.sequence>> \in C /\ ~d.sent
                        /\ d.generation = events[d.run][d.sequence].generation + 1
      BY <2>1
    <3>1. /\ d.run = p[1] /\ d.sequence = p[2] /\ ~d.sent
          /\ d.generation = events[p[1]][p[2]].generation + 1
      BY DEF Delivery
    <3>2. /\ p[1] \in Runs /\ p[2] \in Nat \ {0} /\ <<p[1], p[2]>> \in C
          /\ events[p[1]][p[2]] \in Rows
      BY <1>1, Typed
    <3>3. events[p[1]][p[2]].generation + 1 \in Nat \ {0}
      BY <3>2 DEF Rows
    <3> QED
      BY <3>1, <3>2, <3>3 DEF Delivery, Deliveries
  <2>3. held' = [held EXCEPT ![o] = new]
    BY <2>1 DEF ClaimOutbox
  <2>4. held'[o] = new /\ \A q \in Relays : q # o => held'[q] = held[q]
    BY <2>3 DEF TypeOK
  <2>5. held' \in [Relays -> SUBSET Deliveries]
    BY <2>2, <2>3 DEF TypeOK, Deliveries
  <2> QED
    BY <1>1, <2>2, <2>4, <2>5
<1>11. TypeOK'
  BY <1>9, <1>10 DEF TypeOK, ClaimOutbox, Deliveries
<1>12. PublishedPrefix'
  <2> SUFFICES ASSUME NEW r \in Runs, NEW i \in DOMAIN events[r], NEW j \in DOMAIN events[r],
                      i < j, row[r][i].status # "published"
               PROVE  row[r][j].status = "pending" /\ row[r][j].tries = 0
    BY <1>8 DEF PublishedPrefix
  <2>1. events[r][i].status # "published"
    BY <1>7
  <2>2. events[r][j].status = "pending" /\ events[r][j].tries = 0
    BY <2>1 DEF PublishedPrefix
  <2>3. <<r, j>> \notin C
    BY <1>3, <2>1, Typed
  <2> QED
    BY <1>2, <1>5, <2>2, <2>3, Typed DEF RowsSound
<1>13. RowsSound'
  BY <1>7, <1>8 DEF RowsSound
<1>14. HeldInTurn'
  <2> SUFFICES ASSUME NEW q \in Relays, NEW d \in held'[q]
               PROVE  InTurn(events'[d.run], downstream[d.run], d)
    BY DEF HeldInTurn, ClaimOutbox
  <2>1. CASE q = o
    <3>1. /\ <<d.run, d.sequence>> \in C /\ d.run \in Runs
          /\ d.sequence \in DOMAIN events[d.run] /\ ~d.sent
          /\ d.generation = events[d.run][d.sequence].generation + 1
      BY <1>10, <2>1
    <3>2. d.generation <= row[d.run][d.sequence].generation
      BY <1>4, <1>5, <1>7, <3>1 DEF Rows
    <3>3. \A j \in 1..(d.sequence - 1) : j \in DOMAIN events[d.run]
      BY <3>1, Typed
    <3>4. \A j \in 1..(d.sequence - 1) : row[d.run][j].status = "published"
      BY <1>3, <1>7, <3>1, <3>3
    <3> QED
      BY <1>8, <3>1, <3>2, <3>3, <3>4 DEF InTurn
  <2>2. CASE q # o
    <3>1. /\ d \in held[q] /\ InTurn(events[d.run], downstream[d.run], d) /\ d.run \in Runs
          /\ d.sequence \in Nat /\ d.sequence >= 1 /\ d.generation \in Nat
      BY <1>10, <2>2, Typed DEF HeldInTurn, Deliveries
    <3>2. \A j \in 1..d.sequence : j \in DOMAIN events[d.run]
      BY <3>1, Typed DEF InTurn
    <3>3. d.generation <= row[d.run][d.sequence].generation
      <4>1. /\ d.sequence \in DOMAIN events[d.run]
            /\ d.generation <= events[d.run][d.sequence].generation
        BY <3>1 DEF InTurn
      <4>2. events[d.run][d.sequence].generation \in Nat /\ row[d.run][d.sequence].generation \in Nat
        <5>1. events[d.run][d.sequence] \in Rows /\ row[d.run][d.sequence] \in Rows
          BY <1>7, <3>1, <4>1, Typed
        <5> QED
          BY <5>1 DEF Rows
      <4> QED
        BY <1>7, <3>1, <4>1, <4>2
    <3> QED
      BY <1>7, <1>8, <3>1, <3>2, <3>3 DEF InTurn
  <2> QED
    BY <2>1, <2>2
<1>15. Received'
  <2>1. downstream' = downstream
    BY DEF ClaimOutbox
  <2> QED
    BY <1>7, <1>8, <2>1 DEF Received
<1> QED
  BY <1>11, <1>12, <1>13, <1>14, <1>15

-----------------------------------------------------------------------------
\* A repeat, or the next, leaves what was received without a gap.
LEMMA GaplessAppend ==
    ASSUME NEW s \in Seq(Nat \ {0}), NEW n \in Nat \ {0}, Gapless(s),
           \A k \in 1..(n - 1) : k \in Range(s)
    PROVE  /\ Gapless(Append(s, n))
           /\ \A k : k \in Range(s) \/ k = n => k \in Range(Append(s, n))
<1>1. PICK t : t = Append(s, n)
  OBVIOUS
<1>2. /\ Len(s) \in Nat /\ DOMAIN s = 1..Len(s) /\ DOMAIN t = 1..(Len(s) + 1)
      /\ \A j \in 1..Len(s) : t[j] = s[j]
      /\ t[Len(s) + 1] = n
  BY <1>1, AppendProperties, LenProperties
<1>3. \A k \in Range(s) : \E j \in 1..Len(s) : s[j] = k
  BY <1>2 DEF Range
<1>4. Gapless(t)
  <2> SUFFICES ASSUME NEW i \in 1..(Len(s) + 1), NEW k \in 1..t[i]
               PROVE  \E j \in 1..i : t[j] = k
    BY <1>2 DEF Gapless
  <2>1. CASE i \in 1..Len(s)
    <3>1. PICK j \in 1..i : s[j] = k
      BY <1>2, <2>1 DEF Gapless
    <3> QED
      BY <1>2, <2>1, <3>1
  <2>2. CASE i = Len(s) + 1 /\ k = n
    BY <1>2, <2>2
  <2>3. CASE i = Len(s) + 1 /\ k # n
    <3>1. k \in 1..(n - 1)
      BY <1>2, <2>3
    <3>2. PICK j \in 1..Len(s) : s[j] = k
      BY <1>3, <3>1
    <3> QED
      BY <1>2, <2>3, <3>2
  <2> QED
    BY <1>2, <2>1, <2>2, <2>3
<1>5. \A k : k \in Range(s) \/ k = n => k \in Range(t)
  BY <1>2, <1>3 DEF Range
<1> QED
  BY <1>1, <1>4, <1>5

\* Sending, however late: what precedes a held event was received, so it is a
\* repeat or the next.
LEMMA SendKeeps ==
    ASSUME IndInv, NEW o \in Relays, NEW d \in held[o], Send(o, d)
    PROVE  IndInv'
<1> USE DEF IndInv
<1>1. d \in Deliveries /\ d.run \in Runs /\ d.sequence \in Nat \ {0}
  BY Typed DEF Deliveries
<1>2. PICK s : s = downstream[d.run]
  OBVIOUS
<1>3. s \in Seq(Nat \ {0}) /\ Gapless(s)
  BY <1>1, <1>2, Typed DEF Received
<1>4. \A k \in 1..(d.sequence - 1) : k \in Range(s)
  <2>1. d.sequence \in DOMAIN events[d.run]
        /\ \A j \in 1..(d.sequence - 1) : events[d.run][j].status = "published"
    BY OwnedRow DEF InTurn
  <2>2. \A k \in 1..(d.sequence - 1) : k \in DOMAIN events[d.run]
    BY <1>1, <2>1, Typed
  <2> QED
    BY <1>1, <1>2, <2>1, <2>2 DEF Received
<1>5. PICK t : t = Append(s, d.sequence)
  OBVIOUS
<1>6. /\ t \in Seq(Nat \ {0}) /\ Gapless(t)
      /\ \A k : k \in Range(s) \/ k = d.sequence => k \in Range(t)
  BY <1>1, <1>3, <1>4, <1>5, GaplessAppend, AppendProperties
<1>7. downstream' = [downstream EXCEPT ![d.run] = t] /\ UNCHANGED <<events, crashes>>
  BY <1>2, <1>5 DEF Send
<1>8. /\ downstream'[d.run] = t
      /\ \A r \in Runs : r # d.run => downstream'[r] = downstream[r]
  BY <1>1, <1>7 DEF TypeOK
<1>9. \A r \in Runs : \A k : k \in Range(downstream[r]) => k \in Range(downstream'[r])
  BY <1>2, <1>6, <1>8
<1>10. PICK x : x = [d EXCEPT !.sent = TRUE]
  OBVIOUS
<1>11. /\ x \in Deliveries /\ x.run = d.run /\ x.sequence = d.sequence
       /\ x.generation = d.generation
  BY <1>1, <1>10 DEF Deliveries
<1>12. held' = [held EXCEPT ![o] = (held[o] \ {d}) \cup {x}]
  BY <1>10 DEF Send
<1>13. TypeOK'
  BY <1>6, <1>7, <1>11, <1>12 DEF TypeOK, Deliveries
<1>14. PublishedPrefix' /\ RowsSound'
  BY <1>7 DEF PublishedPrefix, RowsSound
<1>15. Received'
  BY <1>6, <1>7, <1>8, <1>9 DEF Received
<1>16. HeldInTurn'
  <2> SUFFICES ASSUME NEW q \in Relays, NEW c \in held'[q]
               PROVE  InTurn(events[c.run], downstream'[c.run], c)
    BY <1>7 DEF HeldInTurn
  <2>1. CASE c \in held[q]
    <3>1. c.run \in Runs /\ InTurn(events[c.run], downstream[c.run], c)
      BY <2>1, OwnedRow
    <3> QED
      BY <1>9, <3>1 DEF InTurn
  <2>2. CASE c = x
    <3>1. InTurn(events[d.run], s, d)
      BY <1>2, OwnedRow
    <3> QED
      BY <1>6, <1>8, <1>11, <2>2, <3>1 DEF InTurn
  <2> QED
    BY <1>12, <2>1, <2>2 DEF TypeOK
<1> QED
  BY <1>13, <1>14, <1>15, <1>16

\* A relay that dies keeps the invariant.
LEMMA CrashKeeps == ASSUME IndInv, NEW o \in Relays, Crash(o) PROVE IndInv'
<1> USE DEF IndInv
<1>1. crashes' \in 0..MaxCrashes /\ UNCHANGED <<events, downstream>>
  BY OutboxAssumption DEF Crash, TypeOK
<1>2. held' \in [Relays -> SUBSET Deliveries] /\ \A q \in Relays : held'[q] \subseteq held[q]
  BY DEF Crash, TypeOK, Deliveries
<1>3. TypeOK'
  BY <1>1, <1>2 DEF TypeOK, Deliveries
<1>4. PublishedPrefix' /\ RowsSound' /\ Received'
  BY <1>1 DEF PublishedPrefix, RowsSound, Received
<1>5. HeldInTurn'
  BY <1>1, <1>2 DEF HeldInTurn
<1> QED
  BY <1>3, <1>4, <1>5

\* Every step keeps the invariant.
LEMMA StepKeeps == IndInv /\ [Next]_vars => IndInv'
<1> SUFFICES ASSUME IndInv, [Next]_vars PROVE IndInv'
  OBVIOUS
<1>1. CASE \E r \in Runs : AppendEvent(r)
  BY <1>1, AppendKeeps
<1>2. CASE \E o \in Relays : Crash(o)
  BY <1>2, CrashKeeps
<1>3. CASE \E o \in Relays : Relay(o)
  BY <1>3, ClaimKeeps, SendKeeps, MarkKeeps, FailKeeps DEF Relay
<1>4. CASE \E r \in Runs : \E i \in DOMAIN events[r] : DeliveryExpires(r, i) \/ RetryFallsDue(r, i)
  BY <1>4, ClockKeeps
<1>5. CASE UNCHANGED vars
  <2>1. held' \in [Relays -> SUBSET Deliveries]
    BY <1>5 DEF IndInv, TypeOK, Deliveries, vars
  <2> QED
    BY <1>5, <2>1, DropKeeps DEF vars
<1> QED
  BY <1>1, <1>2, <1>3, <1>4, <1>5 DEF Next

-----------------------------------------------------------------------------
\* Without a gap, the first time a sequence is seen it is the next one.
LEMMA NextSeen ==
    ASSUME NEW s \in Seq(Nat \ {0}), Gapless(s), NEW i \in DOMAIN s, FirstSeen(s, i)
    PROVE  s[i] = 1 + Cardinality({s[j] : j \in 1..(i - 1)})
<1>1. /\ Len(s) \in Nat /\ DOMAIN s = 1..Len(s) /\ i \in Nat /\ i >= 1
      /\ \A j \in 1..i : s[j] \in Nat \ {0} /\ j \in DOMAIN s
  BY LenProperties, ElementOfSeq
<1>2. ASSUME NEW j \in 1..(i - 1) PROVE s[j] \in 1..(s[i] - 1)
  <2>1. s[j] # s[i] /\ s[j] \in Nat \ {0} /\ s[i] \in Nat \ {0} /\ j \in DOMAIN s
    BY <1>1 DEF FirstSeen
  <2>2. CASE s[j] > s[i]
    <3>0. s[i] \in 1..s[j]
      BY <2>1, <2>2
    <3>1. PICK k \in 1..j : s[k] = s[i]
      BY <2>1, <3>0 DEF Gapless
    <3> QED
      BY <1>1, <3>1 DEF FirstSeen
  <2> QED
    BY <2>1, <2>2
<1>3. ASSUME NEW k \in 1..(s[i] - 1) PROVE \E j \in 1..(i - 1) : s[j] = k
  <2>1. s[i] \in Nat \ {0} /\ k # s[i] /\ k \in 1..s[i]
    BY <1>1
  <2>2. PICK j \in 1..i : s[j] = k
    BY <2>1 DEF Gapless
  <2> QED
    BY <1>1, <2>1, <2>2
<1>4. {s[j] : j \in 1..(i - 1)} = 1..(s[i] - 1)
  BY <1>2, <1>3
<1>5. PICK n : n = s[i] - 1
  OBVIOUS
<1>6. n \in Nat /\ s[i] = 1 + n
  BY <1>1, <1>5
<1>7. Cardinality(1..n) = n
  BY <1>6, FS_Interval
<1> QED
  BY <1>4, <1>5, <1>6, <1>7

\* The invariant implies what the run checks.
LEMMA InvSound == IndInv => DeliverySound
<1> SUFFICES ASSUME IndInv PROVE DeliverySound
  OBVIOUS
<1> USE DEF IndInv
<1>1. SubscriberInOrder
  <2>1. ASSUME NEW r \in Runs PROVE
          \A i \in DOMAIN downstream[r] : FirstSeen(downstream[r], i) =>
            downstream[r][i] = 1 + Cardinality({downstream[r][j] : j \in 1..(i - 1)})
    BY NextSeen, Typed DEF Received
  <2>2. ASSUME NEW r \in Runs PROVE
          {i \in DOMAIN events[r] : events[r][i].status = "published"} \subseteq Range(downstream[r])
    BY DEF Received
  <2> QED
    BY <2>1, <2>2 DEF SubscriberInOrder
<1>2. OneDeliveryLease
  <2> SUFFICES ASSUME NEW r \in Runs, NEW i \in DOMAIN events[r], NEW live,
                      live = {o \in Relays : \E d \in held[o] :
                                d.run = r /\ d.sequence = i /\ Owned(o, d)}
               PROVE  Cardinality(live) <= 1
    BY DEF RowsSound, RowSound, OneDeliveryLease
  <2>1. live \subseteq {events[r][i].owner}
    BY DEF Owned
  <2>2. IsFiniteSet({events[r][i].owner}) /\ Cardinality({events[r][i].owner}) = 1
    BY FS_Singleton
  <2> QED
    BY <2>1, <2>2, FS_Subset
<1> QED
  BY <1>1, <1>2 DEF DeliverySound

\* The invariant holds in every reachable state.
LEMMA Inductive == Spec => []IndInv
  BY InitInv, StepKeeps, PTL DEF Spec

\* For any number of runs, relays and crashes, the relays publish each run's
\* events in order and never two at once under lease, and a subscriber that
\* drops repeats sees them in order and without a gap.
THEOREM DeliveryIsSound == Spec => []DeliverySound
  BY Inductive, InvSound, PTL

-----------------------------------------------------------------------------
\* What a step may do to a row that is final, or whose lease expired.
Settled(e, f) ==
    /\ e.status \in {"published", "dead_lettered"} => f.status = e.status
    /\ e.expired => f = e \/ f.generation > e.generation \/ f.status = "dead_lettered"

\* Writing one row leaves the other rows of all runs as they were.
LEMMA OtherRows ==
    ASSUME NEW E, NEW r \in DOMAIN E, NEW i \in DOMAIN E[r], NEW x, NEW y
    PROVE  /\ \A q \in DOMAIN E : \A j \in DOMAIN E[q] : (q # r \/ j # i) =>
                /\ SetStatus(E, r, i, x, y)[q][j] = E[q][j]
                /\ SetDelayed(E, r, i, x, y)[q][j] = E[q][j]
  BY DEF SetStatus, SetDelayed

\* A relay that reports settles only the row it owns, whose lease is live.
LEMMA ReportSettles ==
    ASSUME IndInv, NEW o \in Relays, NEW d \in held[o],
           MarkOutboxPublished(o, d) \/ FailOutbox(o, d),
           NEW r \in Runs, NEW i \in DOMAIN events[r]
    PROVE  Settled(events[r][i], events'[r][i])
<1>1. CASE ~Owned(o, d)
  BY <1>1 DEF MarkOutboxPublished, FailOutbox, Settled
<1>2. CASE Owned(o, d)
  <2>1. d.run \in DOMAIN events /\ d.sequence \in DOMAIN events[d.run] /\ r \in DOMAIN events
    BY OwnedRow DEF IndInv, TypeOK
  <2>2. PICK x : \/ events' = SetStatus(events, d.run, d.sequence, "published", None)
                 \/ events' = SetDelayed(events, d.run, d.sequence, x, None)
    <3>1. CASE MarkOutboxPublished(o, d)
      BY <1>2, <3>1 DEF MarkOutboxPublished, SetStatus
    <3>2. CASE FailOutbox(o, d)
      BY <1>2, <3>2 DEF FailOutbox, SetDelayed
    <3> QED
      BY <3>1, <3>2
  <2>3. CASE r = d.run /\ i = d.sequence
    BY <1>2, <2>3 DEF Owned, Settled
  <2>4. CASE ~(r = d.run /\ i = d.sequence)
    <3>1. events'[r][i] = events[r][i]
      BY <2>1, <2>2, <2>4, OtherRows
    <3> QED
      BY <3>1 DEF Settled
  <2> QED
    BY <2>3, <2>4
<1> QED
  BY <1>1, <1>2

\* A claim changes no row that was published or dead.
LEMMA ClaimSettles ==
    ASSUME IndInv, NEW o \in Relays, NEW C \in SUBSET Candidates, ClaimOutbox(o, C),
           NEW r \in Runs, NEW i \in DOMAIN events[r]
    PROVE  Settled(events[r][i], events'[r][i])
<1>1. PICK e, f : e = events[r][i] /\ f = events'[r][i]
  OBVIOUS
<1>2. e \in Rows
  BY <1>1, Typed DEF IndInv
<1>3. f = IF <<r, i>> \in C THEN Claimed(e, o) ELSE Bury(e)
  BY <1>1 DEF ClaimOutbox, Claimed
<1>4. CASE <<r, i>> \in C
  <2>1. f.generation > e.generation
    BY <1>2, <1>3, <1>4 DEF Claimed, Rows
  <2>2. Candidate(r, i)
    BY <1>4 DEF Candidates
  <2>3. e.status \notin {"published", "dead_lettered"}
    BY <1>1, <2>2 DEF Candidate, Bury, Buried
  <2> QED
    BY <1>1, <2>1, <2>3 DEF Settled
<1>5. CASE <<r, i>> \notin C
  BY <1>1, <1>2, <1>3, <1>5 DEF Settled, Bury, Buried, Rows
<1> QED
  BY <1>4, <1>5

\* Nor does the passing of a delivery lease or of a retry time.
LEMMA ClockSettles ==
    ASSUME IndInv, NEW q \in Runs, NEW j \in DOMAIN events[q],
           DeliveryExpires(q, j) \/ RetryFallsDue(q, j),
           NEW r \in Runs, NEW i \in DOMAIN events[r]
    PROVE  Settled(events[r][i], events'[r][i])
<1>1. RowSound(events[r][i]) /\ events[r][i] \in Rows
  BY Typed DEF IndInv, RowsSound
<1>2. CASE r = q /\ i = j
  <2>1. CASE DeliveryExpires(q, j)
    BY <1>1, <1>2, <2>1 DEF DeliveryExpires, Settled, IndInv, TypeOK, Rows
  <2>2. CASE RetryFallsDue(q, j)
    BY <1>1, <1>2, <2>2 DEF RetryFallsDue, Settled, RowSound, IndInv, TypeOK, Rows
  <2> QED
    BY <2>1, <2>2
<1>3. CASE ~(r = q /\ i = j)
  <2>1. events'[r][i] = events[r][i]
    BY <1>3 DEF DeliveryExpires, RetryFallsDue, IndInv, TypeOK
  <2> QED
    BY <2>1 DEF Settled
<1> QED
  BY <1>2, <1>3

\* No step of a relay, of the clock or of a command takes back what is
\* published or dead-lettered, or honours a delivery lease that expired.
THEOREM DeliveryIsFinal == Spec => DeliveryFinal
<1> DEFINE Final == \A r \in Runs : \A i \in DOMAIN events[r] :
                      /\ events[r][i].status \in {"published", "dead_lettered"} =>
                           events'[r][i].status = events[r][i].status
                      /\ events[r][i].expired =>
                           \/ events'[r][i] = events[r][i]
                           \/ events'[r][i].generation > events[r][i].generation
                           \/ events'[r][i].status = "dead_lettered"
<1>1. ASSUME IndInv, [Next]_vars PROVE [Final]_vars
  <2> SUFFICES ASSUME Next, NEW r \in Runs, NEW i \in DOMAIN events[r]
               PROVE  Settled(events[r][i], events'[r][i])
    BY <1>1 DEF Settled
  <2>1. CASE \E q \in Runs : AppendEvent(q)
    <3>1. PICK q \in Runs : events' = [events EXCEPT ![q] = Append(events[q], Fresh)]
      BY <2>1 DEF AppendEvent
    <3>2. Fresh \in Rows
      BY OutboxAssumption DEF Fresh, Rows
    <3>3. \A k \in 1..Len(events[q]) : Append(events[q], Fresh)[k] = events[q][k]
      BY <1>1, <3>2, Typed, AppendProperties DEF IndInv
    <3>4. events'[r][i] = events[r][i]
      BY <1>1, <3>1, <3>3, Typed DEF IndInv, TypeOK
    <3> QED
      BY <3>4 DEF Settled
  <2>2. CASE \E o \in Relays : Crash(o)
    BY <2>2 DEF Crash, Settled
  <2>3. CASE \E o \in Relays : \E C \in SUBSET Candidates : ClaimOutbox(o, C)
    BY <1>1, <2>3, ClaimSettles
  <2>4. CASE \E o \in Relays : \E d \in held[o] : Send(o, d)
    BY <2>4 DEF Send, Settled
  <2>5. CASE \E o \in Relays : \E d \in held[o] : MarkOutboxPublished(o, d) \/ FailOutbox(o, d)
    BY <1>1, <2>5, ReportSettles
  <2>6. CASE \E q \in Runs : \E j \in DOMAIN events[q] : DeliveryExpires(q, j) \/ RetryFallsDue(q, j)
    BY <1>1, <2>6, ClockSettles
  <2> QED
    BY <2>1, <2>2, <2>3, <2>4, <2>5, <2>6 DEF Next, Relay
<1> QED
  BY <1>1, Inductive, PTL DEF Spec, DeliveryFinal

=============================================================================
