-------------------------------- MODULE Outbox --------------------------------
(***************************************************************************)
(* The transactional outbox of the Go control plane (studio-backend/       *)
(* m3_persistence.go): every command appends its event to the run's        *)
(* sequence in its own transaction, and relays deliver the events of each  *)
(* run downstream, in order, under delivery leases.                        *)
(*                                                                         *)
(* As in TaskLeases a command is one step, only the database clock is      *)
(* compared, and a relay may stall, die, or go on with a delivery it has   *)
(* long lost.  A delivery token is drawn afresh by each claim and stands   *)
(* for no more than the generation the claim gives the event.              *)
(***************************************************************************)
EXTENDS Integers, Sequences, FiniteSets, SequencesExt

CONSTANTS
    Runs, Relays,
    MaxEvents,     \* bound on the events of each run
    MaxDeliveries, \* events.max_delivery_attempts
    ClaimLimit,    \* most events one call of ClaimOutbox takes
    MaxCrashes,    \* bound on crashes of relays
    None

ASSUME OutboxAssumption ==
    /\ MaxDeliveries \in 1..32 /\ ClaimLimit \in 1..500
    /\ MaxEvents \in [Runs -> Nat] /\ MaxCrashes \in Nat
    /\ None \notin Relays

VARIABLES
    events,     \* per run, its rows of the events table by sequence
    held,       \* per relay, the deliveries ClaimOutbox gave it
    downstream, \* per run, the sequences the subscriber received, as received
    crashes

vars == <<events, held, downstream, crashes>>

Fresh == [status |-> "pending", tries |-> 0, generation |-> 0, owner |-> None,
          expired |-> FALSE, due |-> TRUE]

Delivery(r, i, g) == [run |-> r, sequence |-> i, generation |-> g, sent |-> FALSE]

-----------------------------------------------------------------------------
\* appendEvent, in the transaction of the command it reports: the sequence is
\* allotted from the locked run row.
AppendEvent(r) ==
    /\ Len(events[r]) < MaxEvents[r]
    /\ events' = [events EXCEPT ![r] = Append(@, Fresh)]
    /\ UNCHANGED <<held, downstream, crashes>>

Buried(e) == e.status = "in_flight" /\ e.expired /\ e.tries >= MaxDeliveries

Bury(e) ==
    IF Buried(e) THEN [e EXCEPT !.status = "dead_lettered", !.owner = None, !.expired = FALSE]
                 ELSE e

\* Slips: out of turn, or only what no relay ever took.
CandidateAnywhere(r, i) ==
    LET e == Bury(events[r][i]) IN
    /\ e.status = "pending" \/ (e.status = "in_flight" /\ e.expired)
    /\ e.due /\ e.tries < MaxDeliveries

CandidatePending(r, i) ==
    /\ events[r][i].status = "pending" /\ events[r][i].due
    /\ \A j \in 1..(i - 1) : events[r][j].status = "published"

\* The first event of a run that is not published, if it may be delivered.
Candidate(r, i) ==
    LET e == Bury(events[r][i]) IN
    /\ e.status = "pending" \/ (e.status = "in_flight" /\ e.expired)
    /\ e.due
    /\ e.tries < MaxDeliveries
    /\ \A j \in 1..(i - 1) : events[r][j].status = "published"

Candidates ==
    UNION {{<<r, i>> : i \in {k \in DOMAIN events[r] : Candidate(r, k)}} : r \in Runs}

\* Which of the candidates a call takes depends on the rows other relays have
\* locked (SKIP LOCKED) and on the time each was committed: any few of them.
ClaimOutbox(o, C) ==
    /\ held[o] = {}
    /\ C \subseteq Candidates /\ Cardinality(C) <= ClaimLimit
    /\ C # {} \/ \E r \in Runs : \E i \in DOMAIN events[r] : Buried(events[r][i])
    /\ events' = [r \in Runs |-> [i \in DOMAIN events[r] |->
         IF <<r, i>> \in C
           THEN [events[r][i] EXCEPT !.status = "in_flight", !.owner = o, !.expired = FALSE,
                                     !.generation = @ + 1, !.tries = @ + 1]
           ELSE Bury(events[r][i])]]
    /\ held' = [held EXCEPT ![o] =
         {Delivery(p[1], p[2], events[p[1]][p[2]].generation + 1) : p \in C}]
    /\ UNCHANGED <<downstream, crashes>>

\* The relay hands the event to the transport.
Send(o, d) ==
    /\ d \in held[o] /\ ~d.sent
    /\ downstream' = [downstream EXCEPT ![d.run] = Append(@, d.sequence)]
    /\ held' = [held EXCEPT ![o] = (@ \ {d}) \cup {[d EXCEPT !.sent = TRUE]}]
    /\ UNCHANGED <<events, crashes>>

\* Slip: the owner's name is all that is compared.
OwnedByName(o, d) ==
    events[d.run][d.sequence].status = "in_flight" /\ events[d.run][d.sequence].owner = o

\* The fence of every change to delivery metadata.
Owned(o, d) ==
    LET e == events[d.run][d.sequence] IN
    /\ e.status = "in_flight" /\ e.owner = o
    /\ e.generation = d.generation /\ ~e.expired

\* The delivery leaves the relay whether or not the update finds its row.
MarkOutboxPublished(o, d) ==
    /\ d \in held[o] /\ d.sent
    /\ events' = IF Owned(o, d)
         THEN [events EXCEPT ![d.run][d.sequence].status = "published",
                             ![d.run][d.sequence].owner = None]
         ELSE events
    /\ held' = [held EXCEPT ![o] = @ \ {d}]
    /\ UNCHANGED <<downstream, crashes>>

\* The transport refused the event, or took it and seemed to refuse it.
FailOutbox(o, d) ==
    /\ d \in held[o]
    /\ LET last == events[d.run][d.sequence].tries >= MaxDeliveries IN
       events' = IF Owned(o, d)
         THEN [events EXCEPT ![d.run][d.sequence].status =
                                IF last THEN "dead_lettered" ELSE "pending",
                             ![d.run][d.sequence].due = FALSE,
                             ![d.run][d.sequence].owner = None]
         ELSE events
    /\ held' = [held EXCEPT ![o] = @ \ {d}]
    /\ UNCHANGED <<downstream, crashes>>

-----------------------------------------------------------------------------
\* The clock passes delivery_expires_at, or available_at.
DeliveryExpires(r, i) ==
    /\ events[r][i].status = "in_flight" /\ ~events[r][i].expired
    /\ events' = [events EXCEPT ![r][i].expired = TRUE]
    /\ UNCHANGED <<held, downstream, crashes>>

RetryFallsDue(r, i) ==
    /\ ~events[r][i].due
    /\ events' = [events EXCEPT ![r][i].due = TRUE]
    /\ UNCHANGED <<held, downstream, crashes>>

Crash(o) ==
    /\ held[o] # {} /\ crashes < MaxCrashes
    /\ crashes' = crashes + 1
    /\ held' = [held EXCEPT ![o] = {}]
    /\ UNCHANGED <<events, downstream>>

Init ==
    /\ events = [r \in Runs |-> <<>>]
    /\ held = [o \in Relays |-> {}]
    /\ downstream = [r \in Runs |-> <<>>]
    /\ crashes = 0

Relay(o) ==
    \/ \E C \in SUBSET Candidates : ClaimOutbox(o, C)
    \/ \E d \in held[o] : Send(o, d) \/ MarkOutboxPublished(o, d) \/ FailOutbox(o, d)

Next ==
    \/ \E r \in Runs : AppendEvent(r)
    \/ \E o \in Relays : Relay(o) \/ Crash(o)
    \/ \E r \in Runs : \E i \in DOMAIN events[r] : DeliveryExpires(r, i) \/ RetryFallsDue(r, i)

Abandoned(r, i) ==
    \A o \in Relays : \A d \in held[o] :
      ~(d.run = r /\ d.sequence = i /\ d.generation = events[r][i].generation)

\* Relays keep polling and work off what they hold; a delivery nobody works on
\* expires; retries fall due.
Fairness ==
    /\ \A o \in Relays : WF_vars(Relay(o))
    /\ \A r \in Runs : \A i \in 1..MaxEvents[r] :
         /\ WF_vars(i \in DOMAIN events[r] /\ Abandoned(r, i) /\ DeliveryExpires(r, i))
         /\ WF_vars(i \in DOMAIN events[r] /\ RetryFallsDue(r, i))
         /\ WF_vars(\E o \in Relays : \E C \in SUBSET Candidates :
                       <<r, i>> \in C /\ ClaimOutbox(o, C))

Spec == Init /\ [][Next]_vars /\ Fairness

-----------------------------------------------------------------------------
Rows == [status : {"pending", "in_flight", "published", "dead_lettered"},
         tries : 0..MaxDeliveries, generation : Nat, owner : Relays \cup {None},
         expired : BOOLEAN, due : BOOLEAN]

\* Every variable stays in its domain.
TypeOK ==
    /\ events \in [Runs -> Seq(Rows)]
    /\ held \in [Relays -> SUBSET [run : Runs, sequence : Nat \ {0}, generation : Nat \ {0},
                                   sent : BOOLEAN]]
    /\ downstream \in [Runs -> Seq(Nat \ {0})]
    /\ crashes \in 0..MaxCrashes

\* "The relay exposes only the first unpublished event for a run": what is
\* published is a prefix of the run, at most the event after it was ever
\* tried, and what lies behind a dead letter was never touched.
PublishedPrefix ==
    \A r \in Runs : \A i, j \in DOMAIN events[r] :
      i < j /\ events[r][i].status # "published" =>
        events[r][j].status = "pending" /\ events[r][j].tries = 0

FirstSeen(s, i) == \A j \in 1..(i - 1) : s[j] # s[i]

\* A subscriber that drops the sequences it has seen sees the run's events in
\* order and without gap, however often and however late they are delivered,
\* and it has seen every event that is marked as published.
SubscriberInOrder ==
    \A r \in Runs :
      LET s == downstream[r] IN
      /\ \A i \in DOMAIN s :
           FirstSeen(s, i) => s[i] = 1 + Cardinality({s[j] : j \in 1..(i - 1)})
      /\ {i \in DOMAIN events[r] : events[r][i].status = "published"} \subseteq Range(s)

\* One delivery lease at a time, and no more tries than allowed.
OneDeliveryLease ==
    \A r \in Runs : \A i \in DOMAIN events[r] :
      LET e == events[r][i]
          live == {o \in Relays : \E d \in held[o] :
                     d.run = r /\ d.sequence = i /\ Owned(o, d)}
      IN  /\ Cardinality(live) <= 1
          /\ e.generation = e.tries
          /\ (e.status = "in_flight") <=> (e.owner # None)
          /\ e.status = "dead_lettered" => e.tries = MaxDeliveries

\* The order of a run's events, in the table and at the subscriber, and the
\* leases under which relays deliver them.
DeliverySound == TypeOK /\ PublishedPrefix /\ SubscriberInOrder /\ OneDeliveryLease

\* Published and dead-lettered are final, and a delivery lease that expired is
\* never honoured: the event is claimed anew or buried.
DeliveryFinal ==
    [][ \A r \in Runs : \A i \in DOMAIN events[r] :
          /\ events[r][i].status \in {"published", "dead_lettered"} =>
               events'[r][i].status = events[r][i].status
          /\ events[r][i].expired =>
               \/ events'[r][i] = events[r][i]
               \/ events'[r][i].generation > events[r][i].generation
               \/ events'[r][i].status = "dead_lettered" ]_vars

\* Every event is published in the end, unless a dead letter of its run
\* stands before it or it is one itself.
EventsDelivered ==
    \A r \in Runs : \A i \in 1..MaxEvents[r] :
      i \in DOMAIN events[r] ~>
        \/ i \in DOMAIN events[r] /\ events[r][i].status = "published"
        \/ \E j \in 1..i : j \in DOMAIN events[r] /\ events[r][j].status = "dead_lettered"
=============================================================================
