--------------------------- MODULE WebhookProofs ---------------------------
(***************************************************************************)
(* What the webhook's runs check, for every value of the constants.  The   *)
(* inductive invariant has two halves: what a handler in flight knows      *)
(* (HInv) and what the waitlist remembers (OrderInv and                    *)
(* BookingsAreAccounted).                                                  *)
(***************************************************************************)
EXTENDS Webhook, FiniteSetTheorems, TLAPS

USE DEF Deliveries, Handlers

\* The text of a message is known once it was delivered.
KnowsContent ==
  /\ \A h \in Handlers : handlers[h].at # "none" => content[h[1]] \in Content
  /\ \A m \in processed : content[m] \in Content

\* A handler that ended registered its message, unless it was lost.
DoneIsRegistered ==
  \A h \in Handlers : handlers[h].at = "done" => ScopedId(h) \in processed

ActedHasArrived == \A h \in Handlers : handlers[h].acted => handlers[h].at # "none"

\* A cancellation that awaits its reply has an appointment, and so has an offer.
FreedHasAppt ==
  \A h \in Handlers : handlers[h].at = "freed" => handlers[h].appt \in Booked

\* The row is one of that queue, or is known to have left it.
Fits(row, queue) == row.moved \/ QueueFor(row) = queue

\* A cancellation knows the queue of its appointment.
FreedFits ==
  \A h \in Handlers :
    handlers[h].at = "freed" => Fits(appts[handlers[h].appt], handlers[h].queue)

HInv == KnowsContent /\ DoneIsRegistered /\ ActedHasArrived /\ FreedHasAppt /\ FreedFits

OffersAreBooked ==
  \A i \in Waiting : items[i].offer # None => items[i].offer.appt \in Booked

\* Entries are created in order.
CreatedInOrder ==
  \A i, j \in Items : i < j /\ items[j] # None => items[i] # None

IsResolved(i) == items[i] # None /\ items[i].resolved

\* An entry is booked once when it is resolved, and once per handler lost.
BookingsAreAccounted ==
  \A i \in Items : bookings[i] <= losses + (IF IsResolved(i) THEN 1 ELSE 0)

OrderInv == OffersAreBooked /\ CreatedInOrder /\ NoQueueJumping /\ OffersFitTheirQueue

IInv == TypeOK /\ HInv /\ RepeatsAreAccounted /\ OrderInv /\ BookingsAreAccounted
----------------------------------------------------------------------------
\* An arrival changes one handler and the content of its message.
LEMMA ArrivalShape ==
  ASSUME TypeOK, NEW h \in Handlers, NEW from, NEW text, NEW at, NEW appt, NEW acted,
         [from |-> from, text |-> text] \in Content,
         at \in {"none", "reply", "freed", "done", "lost"},
         appt \in Booked \cup {None}, acted \in BOOLEAN,
         Arrives(h, from, text, at, appt, acted)
  PROVE  /\ h[1] \in Messages
         /\ content' \in [Messages -> Content \cup {None}]
         /\ content'[h[1]] \in Content
         /\ \A m \in Messages : m # h[1] => content'[m] = content[m]
         /\ handlers' \in [Handlers -> Handler]
         /\ \A g \in Handlers : g # h => handlers'[g] = handlers[g]
         /\ handlers[h].at = "none"
         /\ handlers'[h].at = at /\ handlers'[h].appt = appt
         /\ handlers'[h].acted = acted
         /\ appt # None => handlers'[h].queue = QueueFor(appts[appt])
         /\ handlers'[h].raced <=>
              \E i \in Deliveries(h[1]) : handlers[<<h[1], i>>].at \in Awaiting
<1> DEFINE raced == \E i \in Deliveries(h[1]) : handlers[<<h[1], i>>].at \in Awaiting
           queue == IF appt = None THEN None ELSE QueueFor(appts[appt])
           new   == [at |-> at, appt |-> appt, queue |-> queue, acted |-> acted, raced |-> raced]
<1>1. h[1] \in Messages
  OBVIOUS
<1>2. /\ content' = [content EXCEPT ![h[1]] = [from |-> from, text |-> text]]
      /\ handlers' = [handlers EXCEPT ![h] = new]
      /\ handlers[h].at = "none"
  BY DEF Arrives
<1>3. raced \in BOOLEAN
  OBVIOUS
<1>4. new \in Handler
  <2>1. queue \in Queues \cup {None}
    BY DEF Booked, TypeOK, Row, Queues, QueueFor
  <2>2. appt \in Appts \cup {None}
    BY DEF Booked
  <2> HIDE DEF raced, queue
  <2> QED  BY <1>3, <2>1, <2>2 DEF Handler
<1>5. content \in [Messages -> Content \cup {None}] /\ handlers \in [Handlers -> Handler]
  BY DEF TypeOK
<1>6. /\ content' \in [Messages -> Content \cup {None}]
      /\ content'[h[1]] \in Content
      /\ \A m \in Messages : m # h[1] => content'[m] = content[m]
  BY <1>1, <1>2, <1>5
<1>7. /\ handlers' \in [Handlers -> Handler]
      /\ \A g \in Handlers : g # h => handlers'[g] = handlers[g]
      /\ handlers'[h] = new
  <2> HIDE DEF new, Handlers
  <2> QED  BY <1>2, <1>4, <1>5
<1>8. /\ new.at = at /\ new.appt = appt /\ new.acted = acted /\ new.queue = queue
      /\ new.raced <=> raced
  <2> HIDE DEF raced, queue
  <2> QED  OBVIOUS
<1> QED  BY <1>1, <1>2, <1>6, <1>7, <1>8
----------------------------------------------------------------------------
\* What every delivery does to its handler, its message and processed_webhooks.
Delivered(h) ==
  /\ handlers[h].at = "none"
  /\ content' \in [Messages -> Content \cup {None}]
  /\ content'[h[1]] \in Content
  /\ \A m \in Messages : m # h[1] => content'[m] = content[m]
  /\ handlers' \in [Handlers -> Handler]
  /\ \A g \in Handlers : g # h => handlers'[g] = handlers[g]
  /\ handlers'[h].at \in {"reply", "freed", "done", "lost"}
  /\ handlers'[h].at = "done" => ScopedId(h) \in processed'
  /\ handlers'[h].at = "freed" =>
       /\ handlers'[h].appt \in Booked
       /\ handlers'[h].queue = QueueFor(appts'[handlers'[h].appt])
  /\ handlers'[h].acted => New(h)
  /\ handlers'[h].raced <=>
       \E i \in Deliveries(h[1]) : handlers[<<h[1], i>>].at \in Awaiting
  /\ processed \subseteq processed' /\ processed' \subseteq processed \cup {ScopedId(h)}

LEMMA DeliveryShape ==
  ASSUME TypeOK, KnowsContent, NEW h \in Handlers, Delivery(h)
  PROVE  Delivered(h) /\ now' = now
<1>1. ASSUME NEW from, NEW text, NEW at, NEW appt, NEW acted,
             [from |-> from, text |-> text] \in Content,
             at \in {"reply", "freed", "done", "lost"},
             appt \in Booked \cup {None}, acted \in BOOLEAN,
             Arrives(h, from, text, at, appt, acted),
             at = "done" => ScopedId(h) \in processed',
             at = "freed" => appt \in Booked /\ QueueFor(appts'[appt]) = QueueFor(appts[appt]),
             acted => New(h),
             processed' = processed \/ processed' = processed \cup {ScopedId(h)}
      PROVE  Delivered(h)
  <2> at \in {"none", "reply", "freed", "done", "lost"}
    BY <1>1
  <2> at = "freed" => appt # None
    BY <1>1, WebhookAssumption DEF Booked
  <2> HIDE DEF Handlers
  <2> QED  BY <1>1, ArrivalShape DEF Delivered
<1>2. ASSUME NEW from, NEW text, NEW acted, [from |-> from, text |-> text] \in Content,
              acted \in BOOLEAN, Arrives(h, from, text, "reply", None, acted),
              acted => New(h), processed' = processed
       PROVE  Delivered(h)
  <2> HIDE DEF Handlers
  <2> QED  BY <1>1, <1>2
<1>3. ASSUME NEW from, NEW text, [from |-> from, text |-> text] \in Content,
              Arrives(h, from, text, "lost", None, TRUE), New(h), processed' = processed
       PROVE  Delivered(h)
  <2> HIDE DEF Handlers
  <2> QED  BY <1>1, <1>3
<1>4. ASSUME NEW from, NEW text, [from |-> from, text |-> text] \in Content,
              Arrives(h, from, text, "done", None, FALSE), ScopedId(h) \in processed',
              processed' = processed \/ processed' = processed \cup {ScopedId(h)}
       PROVE  Delivered(h)
  <2> HIDE DEF Handlers
  <2> QED  BY <1>1, <1>4
<1>5. \A c \in Clients, t \in {"confirm", "cancel", "reschedule"} :
        [from |-> c, text |-> t] \in Content
  BY DEF Content
<1>6. [from |-> Owner, text |-> "approve"] \in Content
  BY DEF Content
<1>7. CASE SkipDuplicate(h)
  <2>1. content[h[1]] \in Content /\ ScopedId(h) \in processed
    BY <1>7 DEF SkipDuplicate, New, KnowsContent, ScopedId
  <2>2. content[h[1]] = [from |-> content[h[1]].from, text |-> content[h[1]].text]
    BY <2>1 DEF Content
  <2>3. /\ Arrives(h, content[h[1]].from, content[h[1]].text, "done", None, FALSE)
        /\ processed' = processed /\ now' = now
    BY <1>7 DEF SkipDuplicate
  <2>4. [from |-> content[h[1]].from, text |-> content[h[1]].text] \in Content
    BY <2>1, <2>2
  <2>5. ScopedId(h) \in processed'
    BY <2>1, <2>3
  <2> QED  BY <1>4, <2>3, <2>4, <2>5, Zenon
<1>8. CASE OwnerApproves(h)
  <2>1. /\ Arrives(h, Owner, "approve", "reply", None, ToApprove # {})
        /\ processed' = processed /\ now' = now /\ New(h)
    BY <1>8 DEF OwnerApproves
  <2> QED  BY <1>2, <1>6, <2>1
<1>9. ASSUME NEW c \in Clients, Confirm(h, c)
      PROVE  Delivered(h) /\ now' = now
  <2>1. /\ Arrives(h, c, "confirm", "reply", None, TRUE)
        /\ processed' = processed /\ now' = now /\ New(h)
    BY <1>9 DEF Confirm
  <2>2. [from |-> c, text |-> "confirm"] \in Content
    BY <1>5
  <2> QED  BY <1>2, <2>1, <2>2, Zenon
<1>10. ASSUME NEW c \in Clients, RequestReschedule(h, c)
      PROVE  Delivered(h) /\ now' = now
  <2>1. /\ Arrives(h, c, "reschedule", "reply", None, TRUE)
        /\ processed' = processed /\ now' = now /\ New(h)
    BY <1>10 DEF RequestReschedule
  <2>2. [from |-> c, text |-> "reschedule"] \in Content
    BY <1>5
  <2> QED  BY <1>2, <2>1, <2>2, Zenon
<1>11. ASSUME NEW c \in Clients, Cancel(h, c)
      PROVE  Delivered(h) /\ now' = now
  <2>1. PICK a \in Nearest(c) : Reply(a, "cancelled") /\ Arrives(h, c, "cancel", "freed", a, TRUE)
    BY <1>11 DEF Cancel
  <2>2. processed' = processed /\ now' = now /\ New(h)
    BY <1>11 DEF Cancel
  <2>3. a \in Booked /\ a \in Appts
    BY DEF Nearest, ByRemoteId, ByPhone, Earliest, Latest, Upcoming, Linked, Pending, Booked
  <2>4. QueueFor(appts'[a]) = QueueFor(appts[a])
    <3>1. appts'[a].slot = appts[a].slot /\ appts'[a].service = appts[a].service
      BY <2>1, <2>3 DEF Reply, TypeOK
    <3> QED  BY <3>1 DEF QueueFor
  <2> HIDE DEF Handlers
  <2> QED  BY <1>1, <1>5, <2>1, <2>2, <2>3, <2>4
<1>12. ASSUME NEW c \in Clients, NEW text \in {"confirm", "cancel", "reschedule"},
             NoMatch(h, c, text)
      PROVE  Delivered(h) /\ now' = now
  <2>1. /\ Arrives(h, c, text, "done", None, FALSE)
        /\ processed' = processed \cup {ScopedId(h)} /\ now' = now
    BY <1>12 DEF NoMatch
  <2> HIDE DEF Handlers
  <2> QED  BY <1>1, <1>5, <2>1
<1>13. ASSUME NEW c \in Clients, BookOffer(h, c)
       PROVE  Delivered(h) /\ now' = now
  <2>1. \/ Arrives(h, c, "confirm", "reply", None, TRUE)
        \/ Arrives(h, c, "confirm", "lost", None, TRUE)
    BY <1>13 DEF BookOffer
  <2>2. processed' = processed /\ now' = now /\ New(h)
    BY <1>13 DEF BookOffer
  <2>3. [from |-> c, text |-> "confirm"] \in Content
    BY <1>5
  <2> QED  BY <1>2, <1>3, <2>1, <2>2, <2>3, Zenon
<1>14. ASSUME NEW c \in Clients, OfferGone(h, c)
       PROVE  Delivered(h) /\ now' = now
  <2>1. /\ Arrives(h, c, "confirm", "reply", None, FALSE)
        /\ processed' = processed /\ now' = now
    BY <1>14 DEF OfferGone
  <2>2. [from |-> c, text |-> "confirm"] \in Content
    BY <1>5
  <2> QED  BY <1>2, <2>1, <2>2, Zenon
<1> QED  BY <1>7, <1>8, <1>9, <1>10, <1>11, <1>12, <1>13, <1>14 DEF Delivery
----------------------------------------------------------------------------
\* What the end of an await does to its handler and to processed_webhooks.
Moved(h) ==
  /\ handlers[h].at \in Awaiting
  /\ content' = content
  /\ handlers' \in [Handlers -> Handler]
  /\ \A g \in Handlers : g # h => handlers'[g] = handlers[g]
  /\ handlers'[h].at \in {"reply", "done", "lost"}
  /\ handlers'[h].at = "done" => ScopedId(h) \in processed'
  /\ handlers'[h].acted = handlers[h].acted /\ handlers'[h].raced = handlers[h].raced
  /\ processed \subseteq processed' /\ processed' \subseteq processed \cup {ScopedId(h)}

LEMMA MoveShape ==
  ASSUME TypeOK, NEW h \in Handlers, TriggerWaitlist(h) \/ Register(h) \/ Lose(h)
  PROVE  Moved(h)
<1> HIDE DEF Handlers
<1> handlers \in [Handlers -> Handler]
  BY DEF TypeOK
<1>1. CASE TriggerWaitlist(h)
  <2>1. /\ handlers[h].at = "freed" /\ content' = content
        /\ \/ /\ handlers' = [handlers EXCEPT ![h].at = "done", ![h].appt = None, ![h].queue = None]
              /\ processed' = processed \cup {ScopedId(h)}
           \/ /\ handlers' = [handlers EXCEPT ![h].at = "reply", ![h].appt = None, ![h].queue = None]
              /\ processed' = processed
    BY <1>1 DEF TriggerWaitlist
  <2> QED  BY <2>1 DEF Moved, Awaiting, Handler
<1>2. CASE Register(h)
  BY <1>2 DEF Register, Moved, Awaiting, Handler
<1>3. CASE Lose(h)
  BY <1>3 DEF Lose, Moved, Awaiting, Handler
<1> QED  BY <1>1, <1>2, <1>3

\* A step is a delivery, the end of an await, or none of a handler.
LEMMA StepShape ==
  ASSUME TypeOK, KnowsContent, [Next]_vars
  PROVE  \/ \E h \in Handlers : Delivered(h) \/ Moved(h)
         \/ UNCHANGED <<content, handlers, processed>>
<1>1. ASSUME NEW h \in Handlers, Delivery(h)
      PROVE  Delivered(h)
  BY <1>1, DeliveryShape
<1>2. ASSUME NEW h \in Handlers, TriggerWaitlist(h) \/ Register(h) \/ Lose(h)
      PROVE  Moved(h)
  BY <1>2, MoveShape
<1>3. CASE Environment
  BY <1>3 DEF Environment, Book, Dashboard, Move, Remind, AddItem, ResolveItem, Tick
<1>4. CASE UNCHANGED vars
  BY <1>4 DEF vars
<1> QED  BY <1>1, <1>2, <1>3, <1>4 DEF Next

\* The half of the invariant about handlers, but for the agenda.
LEMMA HandlersInductive ==
  ASSUME TypeOK, HInv, RepeatsAreAccounted, [Next]_vars
  PROVE  /\ content' \in [Messages -> Content \cup {None}]
         /\ handlers' \in [Handlers -> Handler]
         /\ processed' \in SUBSET Messages
         /\ KnowsContent' /\ DoneIsRegistered' /\ ActedHasArrived'
         /\ RepeatsAreAccounted'
<1>0. /\ content \in [Messages -> Content \cup {None}]
      /\ handlers \in [Handlers -> Handler]
      /\ processed \in SUBSET Messages
  BY DEF TypeOK
<1>1. CASE UNCHANGED <<content, handlers, processed>>
  <2>1. RepeatsAreAccounted'
    <3> SUFFICES ASSUME NEW m \in Messages, NEW i \in Deliveries(m),
                        NEW j \in Deliveries(m), i # j,
                        handlers'[<<m, i>>].acted, handlers'[<<m, j>>].acted
                 PROVE  \E k \in {i, j} : \/ handlers'[<<m, k>>].raced
                                          \/ handlers'[<<m, k>>].at = "lost"
      BY DEF RepeatsAreAccounted
    <3> QED  BY <1>1 DEF RepeatsAreAccounted
  <2>2. KnowsContent' /\ DoneIsRegistered'
    BY <1>1 DEF HInv, KnowsContent, DoneIsRegistered, ScopedId
  <2>3. ActedHasArrived'
    BY <1>1 DEF HInv, ActedHasArrived
  <2> QED  BY <1>0, <1>1, <2>1, <2>2, <2>3
<1>2. ASSUME NEW h \in Handlers, Delivered(h) \/ Moved(h)
      PROVE  /\ content' \in [Messages -> Content \cup {None}]
             /\ handlers' \in [Handlers -> Handler]
             /\ processed' \in SUBSET Messages
             /\ KnowsContent' /\ DoneIsRegistered' /\ ActedHasArrived'
  <2>1. ScopedId(h) \in Messages /\ ScopedId(h) = h[1]
    BY DEF ScopedId
  <2>2. /\ content' \in [Messages -> Content \cup {None}]
        /\ handlers' \in [Handlers -> Handler]
        /\ processed' \in SUBSET Messages
    <3> HIDE DEF Handlers
    <3> QED  BY <1>0, <1>2, <2>1 DEF Delivered, Moved
  <2>3. /\ content'[h[1]] \in Content
        /\ \A m \in Messages : m # h[1] => content'[m] = content[m]
    BY <1>0, <1>2 DEF Delivered, Moved, Awaiting, HInv, KnowsContent
  <2>4. KnowsContent'
    <3>1. \A m \in Messages : content[m] \in Content => content'[m] \in Content
      BY <2>3
    <3>2. \A g \in Handlers : g # h => handlers'[g] = handlers[g]
      BY <1>2 DEF Delivered, Moved
    <3>3. processed' \subseteq processed \cup {h[1]}
      BY <1>2, <2>1 DEF Delivered, Moved
    <3>4. \A g \in Handlers : g[1] \in Messages
      OBVIOUS
    <3> HIDE DEF Handlers
    <3> QED  BY <1>0, <2>3, <3>1, <3>2, <3>3, <3>4 DEF HInv, KnowsContent
  <2>5. DoneIsRegistered'
    <3> HIDE DEF Handlers
    <3> QED  BY <1>0, <1>2 DEF Delivered, Moved, HInv, DoneIsRegistered, ScopedId
  <2>6. ActedHasArrived'
    <3> HIDE DEF Handlers
    <3> QED  BY <1>0, <1>2 DEF Delivered, Moved, Awaiting, HInv, ActedHasArrived
  <2> QED  BY <2>2, <2>4, <2>5, <2>6
<1>3. ASSUME NEW h \in Handlers, Delivered(h) \/ Moved(h)
      PROVE  RepeatsAreAccounted'
  <2> SUFFICES ASSUME NEW m \in Messages,
                      NEW i \in Deliveries(m), NEW j \in Deliveries(m), i # j,
                      handlers'[<<m, i>>].acted, handlers'[<<m, j>>].acted
               PROVE  \E k \in {i, j} : \/ handlers'[<<m, k>>].raced
                                        \/ handlers'[<<m, k>>].at = "lost"
    BY DEF RepeatsAreAccounted
  <2>1. \A k \in Deliveries(m) : <<m, k>> \in Handlers
    OBVIOUS
  <2>2. \A g \in Handlers : g # h => handlers'[g] = handlers[g]
    BY <1>3 DEF Delivered, Moved
  <2>3. CASE Moved(h)
    <3>1. \A g \in Handlers : /\ handlers'[g].acted = handlers[g].acted
                              /\ handlers'[g].raced = handlers[g].raced
                              /\ handlers[g].at = "lost" => handlers'[g].at = "lost"
      <4> HIDE DEF Handlers
      <4> QED  BY <2>2, <2>3 DEF Moved, Awaiting
    <3>2. \E k \in {i, j} : handlers[<<m, k>>].raced \/ handlers[<<m, k>>].at = "lost"
      BY <2>1, <3>1 DEF RepeatsAreAccounted
    <3> QED  BY <2>1, <3>1, <3>2
  <2>4. CASE Delivered(h) /\ h # <<m, i>> /\ h # <<m, j>>
    BY <2>1, <2>2, <2>4 DEF RepeatsAreAccounted
  <2>5. ASSUME NEW k \in Deliveries(m), NEW l \in Deliveries(m), k # l, Delivered(h),
               h = <<m, k>>, handlers'[<<m, k>>].acted, handlers'[<<m, l>>].acted
        PROVE  handlers'[<<m, k>>].raced \/ handlers'[<<m, l>>].at = "lost"
    <3>1. <<m, l>> # h /\ handlers'[<<m, l>>] = handlers[<<m, l>>]
      BY <2>1, <2>2, <2>5
    <3>2. m \notin processed
      BY <2>5 DEF Delivered, New, ScopedId
    <3>3. handlers[<<m, l>>].at \notin {"none", "done"}
      BY <2>1, <2>5, <3>1, <3>2 DEF HInv, ActedHasArrived, DoneIsRegistered, ScopedId
    <3>4. handlers[<<m, l>>].at \in {"none", "reply", "freed", "done", "lost"}
      <4>1. handlers[<<m, l>>] \in Handler
        BY <1>0, <2>1
      <4> QED  BY <4>1 DEF Handler
    <3>5. CASE handlers[<<m, l>>].at \in Awaiting
      BY <2>5, <3>5 DEF Delivered
    <3> QED  BY <3>1, <3>3, <3>4, <3>5 DEF Awaiting
  <2> QED  BY <1>3, <2>3, <2>4, <2>5
<1> QED  BY <1>1, <1>2, <1>3, StepShape DEF HInv
----------------------------------------------------------------------------
\* Of a row somebody follows, the new one is of the same queue or says it is not.
Follows(row, new) ==
  (row.moved => new.moved) /\ (new.moved \/ QueueFor(new) = QueueFor(row))

\* An appointment, once booked, stays in the table.
Kept ==
  /\ appts' \in [Appts -> Row \cup {None}] /\ Booked \subseteq Booked'
  /\ \A a \in Booked : Held(a) => Follows(appts[a], appts'[a])

LEMMA PutKeeps ==
  ASSUME TypeOK, NEW a \in Appts, NEW r \in Row, appts' = [appts EXCEPT ![a] = r],
         a \in Booked /\ Held(a) => Follows(appts[a], r)
  PROVE  Kept
<1>1. \A b \in Booked : b # a => Follows(appts[b], appts'[b])
  BY DEF TypeOK, Follows, Booked
<1>2. appts'[a] = r
  BY DEF TypeOK
<1>3. appts' \in [Appts -> Row \cup {None}] /\ Booked \subseteq Booked'
  BY NoneAssumption DEF TypeOK, Booked
<1> HIDE DEF Handlers
<1> QED  BY <1>1, <1>2, <1>3 DEF Kept

LEMMA ReplyKeeps ==
  ASSUME TypeOK, NEW a \in Booked, NEW status \in {"confirmed", "cancelled", "reschedule_req"},
         Reply(a, status)
  PROVE  Kept
<1> DEFINE r == [appts[a] EXCEPT !.status = status, !.linked = TRUE]
<1>1. a \in Appts /\ appts[a] \in Row
  BY DEF Booked, TypeOK
<1>2. r \in Row
  BY <1>1 DEF Row
<1>3. appts' = [appts EXCEPT ![a] = r]
  BY <1>1 DEF Reply, TypeOK
<1>4. r.slot = appts[a].slot /\ r.service = appts[a].service /\ r.moved = appts[a].moved
  BY <1>1 DEF Row
<1> HIDE DEF r
<1>5. Follows(appts[a], r)
  BY <1>4 DEF Follows, QueueFor
<1> QED  BY <1>1, <1>2, <1>3, <1>5, PutKeeps

LEMMA NearestIsBooked == \A c \in Clients : Nearest(c) \subseteq Booked
BY DEF Nearest, ByRemoteId, ByPhone, Earliest, Latest, Upcoming, Linked, Pending

LEMMA NewIsRow ==
  ASSUME NEW c \in Clients, NEW s \in Slots, NEW v \in Services
  PROVE  NewRow(c, s, v) \in Row
BY DEF NewRow, Row

\* An offer in the waitlist is for the slot of an appointment that exists.
LEMMA OfferShape ==
  ASSUME TypeOK, OffersAreBooked, NEW i \in Waiting, items[i].offer # None
  PROVE  /\ i \in Items /\ items[i] \in Item /\ items[i].offer \in Offer
         /\ items[i].offer.appt \in Booked
         /\ appts[items[i].offer.appt].slot \in Slots
         /\ appts[items[i].offer.appt].service \in Services
<1>1. i \in Items /\ items[i] \in Item
  BY DEF Waiting, TypeOK
<1>2. items[i].offer \in Offer
  BY <1>1 DEF Item
<1>3. items[i].offer.appt \in Booked
  BY DEF OffersAreBooked
<1>4. appts[items[i].offer.appt] \in Row
  BY <1>3 DEF Booked, TypeOK
<1> QED  BY <1>1, <1>2, <1>3, <1>4 DEF Row

\* No step of the webhook or of its environment removes an appointment.
LEMMA ApptsStay ==
  ASSUME TypeOK, OffersAreBooked, [Next]_vars
  PROVE  Kept
<1>1. CASE UNCHANGED appts
  <2>1. \A a \in Booked : Follows(appts[a], appts'[a])
    BY <1>1 DEF Follows
  <2> QED  BY <1>1, <2>1 DEF Kept, TypeOK, Booked
<1>2. ASSUME NEW h \in Handlers, NEW c \in Clients,
             Confirm(h, c) \/ RequestReschedule(h, c) \/ Cancel(h, c)
      PROVE  Kept
  <2>1. \E a \in Nearest(c), status \in {"confirmed", "cancelled", "reschedule_req"} :
          Reply(a, status)
    BY <1>2 DEF Confirm, RequestReschedule, Cancel
  <2> QED  BY <2>1, NearestIsBooked, ReplyKeeps
<1>3. ASSUME NEW h \in Handlers, NEW c \in Clients, BookOffer(h, c)
      PROVE  Kept
  <2>1. PICK i \in Offered(c), new \in FreshIds :
          appts' = [appts EXCEPT ![new] = NewRow(c, appts[items[i].offer.appt].slot,
                                                     appts[items[i].offer.appt].service)]
    BY <1>3 DEF BookOffer
  <2>2. i \in Waiting /\ items[i].offer # None
    BY DEF Offered, FirstOfPhone, Oldest
  <2>3. /\ appts[items[i].offer.appt].slot \in Slots
        /\ appts[items[i].offer.appt].service \in Services
    BY <2>2, OfferShape
  <2>4. new \in Appts /\ new \notin Booked
    BY DEF FreshIds
  <2> QED  BY <2>1, <2>3, <2>4, NewIsRow, PutKeeps
<1>4. ASSUME NEW c \in Clients, NEW s \in Slots, NEW v \in Services, Book(c, s, v)
      PROVE  Kept
  <2>1. PICK new \in FreshIds :
          appts' = [appts EXCEPT ![new] = NewRow(c, s, v)]
    BY <1>4 DEF Book
  <2>2. new \in Appts /\ new \notin Booked
    BY DEF FreshIds
  <2> QED  BY <2>1, <2>2, NewIsRow, PutKeeps
<1>5. ASSUME NEW a \in Booked, Dashboard(a) \/ Remind(a)
      PROVE  Kept
  <2>1. a \in Appts /\ appts[a] \in Row
    BY DEF Booked, TypeOK
  <2>2. PICK r : /\ r \in {[appts[a] EXCEPT !.status = "cancelled"],
                           [appts[a] EXCEPT !.status = "pending"],
                           [appts[a] EXCEPT !.linked = TRUE]}
                 /\ appts' = [appts EXCEPT ![a] = r]
    BY <1>5 DEF Dashboard, Remind
  <2>3. /\ r \in Row /\ r.slot = appts[a].slot /\ r.service = appts[a].service
        /\ r.moved = appts[a].moved
    BY <2>1, <2>2 DEF Row
  <2>4. Follows(appts[a], r)
    BY <2>3 DEF Follows, QueueFor
  <2> QED  BY <2>1, <2>2, <2>3, <2>4, PutKeeps
<1>7. ASSUME NEW a \in Booked, NEW s \in Slots, NEW v \in Services, Move(a, s, v)
      PROVE  Kept
  <2> DEFINE row == [appts[a] EXCEPT !.slot = s, !.service = v]
             m == Held(a) /\ (row.moved \/ QueueFor(row) # QueueFor(appts[a]))
             r == [row EXCEPT !.moved = m]
  <2>1. a \in Appts /\ appts[a] \in Row
    BY DEF Booked, TypeOK
  <2>2. appts' = [appts EXCEPT ![a] = r]
    BY <1>7 DEF Move
  <2>3. m \in BOOLEAN
    OBVIOUS
  <2>4. Held(a) => (row.moved => m) /\ (m \/ QueueFor(row) = QueueFor(appts[a]))
    OBVIOUS
  <2>7. row \in Row /\ row.moved = appts[a].moved
    BY <2>1 DEF Row
  <2> HIDE DEF m, row
  <2>5. r \in Row /\ r.slot = row.slot /\ r.service = row.service /\ r.moved = m
    BY <2>3, <2>7 DEF Row
  <2>6. Held(a) => Follows(appts[a], r)
    BY <2>4, <2>5, <2>7 DEF Follows, QueueFor
  <2> HIDE DEF r
  <2> QED  BY <2>1, <2>2, <2>5, <2>6, PutKeeps
<1>6. ASSUME Next, appts' # appts
      PROVE  \/ \E h \in Handlers, c \in Clients :
                  \/ Confirm(h, c) \/ RequestReschedule(h, c) \/ Cancel(h, c)
                  \/ BookOffer(h, c)
             \/ \E c \in Clients, s \in Slots, v \in Services : Book(c, s, v)
             \/ \E a \in Booked : Dashboard(a) \/ Remind(a)
             \/ \E a \in Booked, s \in Slots, v \in Services : Move(a, s, v)
  <2> HIDE DEF Handlers
  <2>1. ASSUME NEW h \in Handlers, TriggerWaitlist(h) \/ Register(h) \/ Lose(h)
        PROVE  FALSE
    BY <1>6, <2>1 DEF TriggerWaitlist, Register, Lose
  <2>2. ASSUME NEW h \in Handlers, NEW c \in Clients, NEW text,
               SkipDuplicate(h) \/ OwnerApproves(h) \/ NoMatch(h, c, text) \/ OfferGone(h, c)
        PROVE  FALSE
    BY <1>6, <2>2 DEF SkipDuplicate, OwnerApproves, NoMatch, OfferGone
  <2>3. ASSUME NEW h \in Handlers, SkipDuplicate(h) \/ OwnerApproves(h)
        PROVE  FALSE
    BY <1>6, <2>3 DEF SkipDuplicate, OwnerApproves
  <2>4. ASSUME NEW i \in Items, AddItem(i) \/ ResolveItem(i)
        PROVE  FALSE
    BY <1>6, <2>4 DEF AddItem, ResolveItem
  <2>5. ~Tick
    BY <1>6 DEF Tick
  <2> QED  BY <1>6, <2>1, <2>2, <2>3, <2>4, <2>5 DEF Next, Delivery, Environment
<1> QED  BY <1>1, <1>2, <1>3, <1>4, <1>5, <1>6, <1>7 DEF vars
----------------------------------------------------------------------------
\* An offer keeps what it says of the queue.
LEMMA OfferIsFollowed ==
  ASSUME OrderInv, Kept, NEW i \in Waiting, items[i].offer # None
  PROVE  Fits(appts'[items[i].offer.appt], QueueOf(i))
<1>1. items[i].offer.appt \in Booked /\ Held(items[i].offer.appt)
  BY DEF OrderInv, OffersAreBooked, Held
<1>2. Fits(appts[items[i].offer.appt], QueueOf(i))
  BY DEF OrderInv, OffersFitTheirQueue, Fits
<1> QED  BY <1>1, <1>2 DEF Kept, Follows, Fits

LEMMA SameItems ==
  ASSUME OrderInv, Kept, items' = items
  PROVE  OrderInv'
<1>1. (OffersAreBooked /\ CreatedInOrder /\ NoQueueJumping)'
  BY DEF OrderInv, OffersAreBooked, CreatedInOrder, NoQueueJumping, Waiting, Kept
<1>2. ASSUME NEW i \in Waiting', items'[i].offer # None
      PROVE  Fits(appts'[items'[i].offer.appt], QueueOf(i))
  <2>1. i \in Waiting /\ items[i].offer # None
    BY <1>2 DEF Waiting
  <2> QED  BY <2>1, OfferIsFollowed
<1> QED  BY <1>1, <1>2 DEF OrderInv, OffersFitTheirQueue, Fits

\* An entry may get a row, or the offer if it is the first of its queue.
LEMMA PutItem ==
  ASSUME TypeOK, OrderInv, Kept, NEW i \in Items, NEW r \in Item,
         items' = [items EXCEPT ![i] = r],
         items[i] = None \/ i \in Waiting,
         \A j \in Items : j < i => items[j] # None,
         \/ r.resolved
         \/ r.offer = None
         \/ /\ r.offer.appt \in Booked
            /\ Fits(appts'[r.offer.appt], QueueOf(i))
            /\ \A j \in Waiting : QueueOf(i) = QueueOf(j) => i <= j
  PROVE  items' \in [Items -> Item \cup {None}] /\ OrderInv'
<1>1. items \in [Items -> Item \cup {None}] /\ items' \in [Items -> Item \cup {None}]
  BY DEF TypeOK
<1>2. r # None /\ items'[i] = r /\ \A j \in Items : j # i => items'[j] = items[j]
  BY NoneAssumption, <1>1
<1>3. OffersAreBooked'
  BY <1>2 DEF OrderInv, OffersAreBooked, Waiting, Kept
<1>4. CreatedInOrder'
  BY <1>2 DEF OrderInv, CreatedInOrder
<1>5. NoQueueJumping'
  <2> SUFFICES ASSUME NEW j \in Waiting', NEW k \in Waiting', items'[j].offer # None,
                      QueueOf(k) = QueueOf(j)
               PROVE  j <= k
    BY DEF NoQueueJumping
  <2>1. j \in Nat /\ k \in Nat /\ j \in Items /\ k \in Items
    BY WebhookAssumption DEF Waiting
  <2>2. CASE j = i /\ k = i
    BY <2>1, <2>2
  <2>3. CASE j = i /\ k # i
    BY <1>2, <2>3 DEF Waiting
  <2>4. CASE j # i /\ k # i
    BY <1>2, <2>4 DEF Waiting, OrderInv, NoQueueJumping
  <2>5. CASE j # i /\ k = i
    <3>1. j \in Waiting /\ items[j].offer # None
      BY <1>2, <2>5 DEF Waiting
    <3>2. CASE i \in Waiting
      BY <2>5, <3>1, <3>2 DEF OrderInv, NoQueueJumping
    <3>3. CASE items[i] = None
      BY WebhookAssumption, <2>1, <2>5, <3>1, <3>3 DEF OrderInv, CreatedInOrder, Waiting
    <3> QED  BY <3>2, <3>3
  <2> QED  BY <2>2, <2>3, <2>4, <2>5
<1>6. OffersFitTheirQueue'
  <2> SUFFICES ASSUME NEW j \in Waiting', items'[j].offer # None
               PROVE  Fits(appts'[items'[j].offer.appt], QueueOf(j))
    BY DEF OffersFitTheirQueue, Fits
  <2>1. CASE j = i
    BY <1>2, <2>1 DEF Waiting
  <2>2. CASE j # i
    <3>1. j \in Waiting /\ items[j].offer # None /\ items'[j] = items[j]
      BY <1>2, <2>2 DEF Waiting
    <3> QED  BY <3>1, OfferIsFollowed
  <2> QED  BY <2>1, <2>2
<1> QED  BY <1>1, <1>3, <1>4, <1>5, <1>6 DEF OrderInv

WaitlistOK ==
  /\ items \in [Items -> Item \cup {None}] /\ bookings \in [Items -> Nat]
  /\ losses \in 0 .. MaxLosses
  /\ OrderInv /\ BookingsAreAccounted

\* An entry that was resolved stays so: only a booking counts.
LEMMA SameBookings ==
  ASSUME TypeOK, BookingsAreAccounted, bookings' = bookings,
         losses' \in Nat, losses' >= losses,
         \A i \in Items : IsResolved(i) => IsResolved(i)'
  PROVE  BookingsAreAccounted'
<1> SUFFICES ASSUME NEW i \in Items
             PROVE  bookings[i] <= losses' + (IF IsResolved(i)' THEN 1 ELSE 0)
  BY DEF BookingsAreAccounted
<1>1. bookings[i] \in Nat /\ losses \in Nat
  BY WebhookAssumption DEF TypeOK
<1>2. bookings[i] <= losses + (IF IsResolved(i) THEN 1 ELSE 0)
  BY DEF BookingsAreAccounted
<1>3. CASE IsResolved(i)
  BY <1>1, <1>2, <1>3
<1>4. CASE ~IsResolved(i)
  BY <1>1, <1>2, <1>4
<1> QED  BY <1>3, <1>4

LEMMA WaitingIsCreated ==
  ASSUME TypeOK, OrderInv, NEW i \in Waiting
  PROVE  /\ i \in Items /\ items[i] \in Item /\ ~items[i].resolved
         /\ \A j \in Items : j < i => items[j] # None
BY DEF Waiting, TypeOK, OrderInv, CreatedInOrder

\* A step that writes the row of an entry and books nothing.
LEMMA WriteItem ==
  ASSUME TypeOK, OrderInv, BookingsAreAccounted, Kept, NEW i \in Items, NEW r \in Item,
         items' = [items EXCEPT ![i] = r],
         items[i] = None \/ i \in Waiting,
         \A j \in Items : j < i => items[j] # None,
         \/ r.resolved
         \/ r.offer = None
         \/ /\ r.offer.appt \in Booked
            /\ Fits(appts'[r.offer.appt], QueueOf(i))
            /\ \A j \in Waiting : QueueOf(i) = QueueOf(j) => i <= j,
         bookings' = bookings, losses' = losses
  PROVE  WaitlistOK'
<1>1. items' \in [Items -> Item \cup {None}] /\ OrderInv'
  BY PutItem
<1>2. \A j \in Items : IsResolved(j) => j # i /\ items'[j] = items[j]
  BY DEF IsResolved, Waiting, TypeOK
<1>3. \A j \in Items : IsResolved(j) => IsResolved(j)'
  BY <1>2 DEF IsResolved
<1>4. losses' \in Nat /\ losses' >= losses
  BY WebhookAssumption DEF TypeOK
<1>5. BookingsAreAccounted'
  BY <1>3, <1>4, SameBookings
<1> QED  BY <1>1, <1>5 DEF WaitlistOK, TypeOK

LEMMA OfferToFirst ==
  ASSUME TypeOK, OrderInv, BookingsAreAccounted, FreedHasAppt, FreedFits, Kept,
         NEW h \in Handlers, TriggerWaitlist(h), items' # items
  PROVE  WaitlistOK'
<1> HIDE DEF Handlers
<1> DEFINE a == handlers[h].appt
<1>1. PICK q \in {handlers[h].queue, QueueFor(appts[a])} :
        \E i \in FirstOfQueue(q), kind \in {"pending", "sent"} :
          items' = [items EXCEPT ![i].offer = [kind |-> kind, appt |-> a]]
  BY DEF TriggerWaitlist
<1>9. PICK i \in FirstOfQueue(q), kind \in {"pending", "sent"} :
        items' = [items EXCEPT ![i].offer = [kind |-> kind, appt |-> a]]
  BY <1>1
<1>2. handlers[h].at = "freed" /\ bookings' = bookings /\ losses' = losses /\ appts' = appts
  BY DEF TriggerWaitlist
<1>3. a \in Booked
  BY <1>2 DEF FreedHasAppt
<1>4. /\ i \in Waiting /\ QueueOf(i) = q
      /\ \A j \in Waiting : QueueOf(i) = QueueOf(j) => i <= j
  BY DEF FirstOfQueue, Oldest
<1>5. [kind |-> kind, appt |-> a] \in Offer
  BY <1>3 DEF Offer, Booked
<1> DEFINE r == [items[i] EXCEPT !.offer = [kind |-> kind, appt |-> a]]
<1>6. i \in Items /\ items[i] \in Item /\ \A j \in Items : j < i => items[j] # None
  BY <1>4, WaitingIsCreated
<1>7. r \in Item /\ r.offer.appt = a
  BY <1>5, <1>6 DEF Item
<1>8. items' = [items EXCEPT ![i] = r]
  BY <1>9
<1>10. Fits(appts'[a], QueueOf(i))
  BY <1>1, <1>2, <1>4 DEF FreedFits, Fits
<1> HIDE DEF a, r
<1> QED  BY <1>2, <1>3, <1>4, <1>6, <1>7, <1>8, <1>10, WriteItem

LEMMA ApproveInPlace ==
  ASSUME TypeOK, OrderInv, BookingsAreAccounted, Kept,
         NEW h \in Handlers, OwnerApproves(h), items' # items
  PROVE  WaitlistOK'
<1> HIDE DEF Handlers
<1>1. PICK i \in ToApprove : items' = [items EXCEPT ![i].offer.kind = "sent"]
  BY DEF OwnerApproves
<1>2. bookings' = bookings /\ losses' = losses
  BY DEF OwnerApproves
<1>3. i \in Waiting /\ items[i].offer # None
  BY DEF ToApprove, Oldest
<1>4. /\ i \in Items /\ items[i] \in Item /\ items[i].offer \in Offer
      /\ items[i].offer.appt \in Booked
  BY <1>3, OfferShape DEF OrderInv
<1>5. \A j \in Items : j < i => items[j] # None
  BY <1>3, WaitingIsCreated
<1>10. Fits(appts'[items[i].offer.appt], QueueOf(i))
  BY <1>3, OfferIsFollowed
<1>6. \A j \in Waiting : QueueOf(i) = QueueOf(j) => i <= j
  BY <1>3 DEF OrderInv, NoQueueJumping
<1> DEFINE o == [items[i].offer EXCEPT !.kind = "sent"]
           r == [items[i] EXCEPT !.offer = o]
<1>7. o \in Offer /\ o.appt = items[i].offer.appt
  BY <1>4 DEF Offer
<1>8. items' = [items EXCEPT ![i] = r]
  BY <1>1, Zenon
<1> HIDE DEF o
<1>9. r \in Item /\ r.offer = o
  BY <1>4, <1>7 DEF Item
<1> HIDE DEF r
<1> QED  BY <1>2, <1>3, <1>4, <1>5, <1>6, <1>7, <1>8, <1>9, <1>10, WriteItem

LEMMA AddLast ==
  ASSUME TypeOK, OrderInv, BookingsAreAccounted, Kept, NEW i \in Items, AddItem(i)
  PROVE  WaitlistOK'
<1> DEFINE r == [resolved |-> FALSE, offer |-> None]
<1>1. r \in Item /\ r.offer = None
  BY DEF Item
<1>2. /\ items' = [items EXCEPT ![i] = r] /\ items[i] = None
      /\ \A j \in Items : j < i => items[j] # None
      /\ bookings' = bookings /\ losses' = losses
  BY DEF AddItem
<1> HIDE DEF r
<1> QED  BY <1>1, <1>2, WriteItem

LEMMA ResolvedRow == \A i \in Items : Resolved(i) \in Item /\ Resolved(i).resolved
BY DEF Resolved, Item

LEMMA ResolveWaiting ==
  ASSUME TypeOK, OrderInv, BookingsAreAccounted, Kept, NEW i \in Items, ResolveItem(i)
  PROVE  WaitlistOK'
<1>1. /\ items' = [items EXCEPT ![i] = Resolved(i)] /\ i \in Waiting
      /\ bookings' = bookings /\ losses' = losses
  BY DEF ResolveItem
<1>2. \A j \in Items : j < i => items[j] # None
  BY <1>1, WaitingIsCreated
<1> QED  BY <1>1, <1>2, ResolvedRow, WriteItem

\* A booking resolves the entry, or is one of those a lost handler accounts for.
LEMMA BookingIsAccounted ==
  ASSUME TypeOK, OrderInv, BookingsAreAccounted, Kept,
         NEW h \in Handlers, NEW c \in Clients, BookOffer(h, c)
  PROVE  WaitlistOK'
<1> HIDE DEF Handlers
<1>1. PICK i \in Offered(c) :
        /\ bookings' = [bookings EXCEPT ![i] = @ + 1]
        /\ \/ items' = [items EXCEPT ![i] = Resolved(i)] /\ losses' = losses
           \/ items' = items /\ losses' = losses + 1 /\ losses < MaxLosses
  BY DEF BookOffer
<1>2. i \in Waiting
  BY DEF Offered, FirstOfPhone, Oldest
<1>3. /\ i \in Items /\ ~IsResolved(i)
      /\ \A j \in Items : j < i => items[j] # None
  BY <1>2, WaitingIsCreated DEF IsResolved
<1>4. items' \in [Items -> Item \cup {None}] /\ OrderInv'
  <2>1. CASE items' = items
    BY <2>1, SameItems DEF TypeOK
  <2>2. CASE items' = [items EXCEPT ![i] = Resolved(i)]
    BY <1>2, <1>3, <2>2, ResolvedRow, PutItem
  <2> QED  BY <1>1, <2>1, <2>2
<1>5. /\ bookings \in [Items -> Nat] /\ losses \in Nat /\ MaxLosses \in Nat
      /\ items \in [Items -> Item \cup {None}] /\ losses \in 0 .. MaxLosses
  BY WebhookAssumption DEF TypeOK
<1>6. /\ bookings' \in [Items -> Nat] /\ losses' \in 0 .. MaxLosses
      /\ losses' \in Nat /\ losses' >= losses
      /\ bookings'[i] = bookings[i] + 1
      /\ \A j \in Items : j # i => bookings'[j] = bookings[j]
  BY <1>1, <1>3, <1>5
<1>7. /\ \A j \in Items : j # i => (IsResolved(j)' <=> IsResolved(j))
      /\ losses' = losses => IsResolved(i)'
      /\ losses' # losses => losses' = losses + 1
  BY NoneAssumption, <1>1, <1>3, <1>5, ResolvedRow DEF IsResolved
<1>8. BookingsAreAccounted'
  <2> SUFFICES ASSUME NEW j \in Items
               PROVE  bookings'[j] <= losses' + (IF IsResolved(j)' THEN 1 ELSE 0)
    BY DEF BookingsAreAccounted
  <2>1. bookings[j] \in Nat
    BY <1>5
  <2>2. bookings[j] <= losses + (IF IsResolved(j) THEN 1 ELSE 0)
    BY DEF BookingsAreAccounted
  <2>3. CASE j # i
    <3>1. CASE IsResolved(j)
      BY <1>5, <1>6, <1>7, <2>1, <2>2, <2>3, <3>1
    <3>2. CASE ~IsResolved(j)
      BY <1>5, <1>6, <1>7, <2>1, <2>2, <2>3, <3>2
    <3> QED  BY <3>1, <3>2
  <2>4. CASE j = i
    <3>1. bookings'[j] = bookings[j] + 1 /\ bookings[j] <= losses
      BY <1>3, <1>5, <1>6, <2>1, <2>2, <2>4
    <3>2. CASE losses' = losses
      BY <1>5, <1>7, <2>1, <2>4, <3>1, <3>2
    <3>3. CASE losses' # losses
      <4>1. losses' = losses + 1
        BY <1>7, <3>3
      <4>2. CASE IsResolved(j)'
        BY <1>5, <2>1, <3>1, <4>1, <4>2
      <4>3. CASE ~IsResolved(j)'
        BY <1>5, <2>1, <3>1, <4>1, <4>3
      <4> QED  BY <4>2, <4>3
    <3> QED  BY <3>2, <3>3
  <2> QED  BY <2>3, <2>4
<1> QED  BY <1>4, <1>6, <1>8 DEF WaitlistOK

\* Every other step leaves the waitlist and its bookings alone.
LEMMA Elsewhere ==
  ASSUME TypeOK, OrderInv, BookingsAreAccounted, Kept,
         items' = items, bookings' = bookings,
         losses' = losses \/ (losses < MaxLosses /\ losses' = losses + 1)
  PROVE  WaitlistOK'
<1>1. losses \in Nat /\ MaxLosses \in Nat /\ losses \in 0 .. MaxLosses
  BY WebhookAssumption DEF TypeOK
<1>2. losses' \in Nat /\ losses' >= losses /\ losses' \in 0 .. MaxLosses
  BY <1>1
<1>3. \A i \in Items : IsResolved(i) => IsResolved(i)'
  BY DEF IsResolved
<1>4. BookingsAreAccounted'
  BY <1>2, <1>3, SameBookings
<1>5. OrderInv'
  BY SameItems
<1> QED  BY <1>2, <1>4, <1>5 DEF WaitlistOK, TypeOK

LEMMA WaitlistInductive ==
  ASSUME TypeOK, FreedHasAppt, FreedFits, OrderInv, BookingsAreAccounted, [Next]_vars
  PROVE  Kept /\ WaitlistOK'
<1>1. Kept
  BY ApptsStay DEF OrderInv
<1> DEFINE Untouched == items' = items /\ bookings' = bookings /\ losses' = losses
<1>2. ASSUME Untouched
      PROVE  WaitlistOK'
  BY <1>1, <1>2, Elsewhere
<1>3. ASSUME NEW h \in Handlers, SkipDuplicate(h)
      PROVE  WaitlistOK'
  BY <1>2, <1>3 DEF SkipDuplicate
<1>4. ASSUME NEW h \in Handlers, OwnerApproves(h)
      PROVE  WaitlistOK'
  <2>1. bookings' = bookings /\ losses' = losses
    BY <1>4 DEF OwnerApproves
  <2> QED  BY <1>1, <1>2, <1>4, <2>1, ApproveInPlace
<1>5. ASSUME NEW h \in Handlers, NEW c \in Clients,
             Confirm(h, c) \/ RequestReschedule(h, c) \/ Cancel(h, c) \/ OfferGone(h, c)
      PROVE  WaitlistOK'
  BY <1>2, <1>5 DEF Confirm, RequestReschedule, Cancel, OfferGone
<1>6. ASSUME NEW h \in Handlers, NEW c \in Clients, NEW text, NoMatch(h, c, text)
      PROVE  WaitlistOK'
  BY <1>2, <1>6 DEF NoMatch
<1>7. ASSUME NEW h \in Handlers, NEW c \in Clients, BookOffer(h, c)
      PROVE  WaitlistOK'
  BY <1>1, <1>7, BookingIsAccounted
<1>8. ASSUME NEW h \in Handlers, TriggerWaitlist(h)
      PROVE  WaitlistOK'
  <2>1. bookings' = bookings /\ losses' = losses
    BY <1>8 DEF TriggerWaitlist
  <2> QED  BY <1>1, <1>2, <1>8, <2>1, OfferToFirst
<1>9. ASSUME NEW h \in Handlers, Register(h)
      PROVE  WaitlistOK'
  BY <1>2, <1>9 DEF Register
<1>10. ASSUME NEW h \in Handlers, Lose(h)
       PROVE  WaitlistOK'
  BY <1>1, <1>10, Elsewhere DEF Lose
<1>11. CASE Environment
  <2>1. ASSUME NEW i \in Items, AddItem(i)
        PROVE  WaitlistOK'
    BY <1>1, <2>1, AddLast
  <2>2. ASSUME NEW i \in Items, ResolveItem(i)
        PROVE  WaitlistOK'
    BY <1>1, <2>2, ResolveWaiting
  <2> QED  BY <1>1, <1>2, <1>11, <2>1, <2>2 DEF Environment, Book, Dashboard, Move, Remind, Tick
<1>12. CASE UNCHANGED vars
  BY <1>1, <1>2, <1>12 DEF vars
<1> HIDE DEF Handlers
<1>13. ASSUME NEW h \in Handlers, Delivery(h)
       PROVE  WaitlistOK'
  BY <1>3, <1>4, <1>5, <1>6, <1>7, <1>13 DEF Delivery
<1> QED  BY <1>1, <1>8, <1>9, <1>10, <1>11, <1>12, <1>13 DEF Next
----------------------------------------------------------------------------
LEMMA InitIInv == Init => IInv
<1> SUFFICES ASSUME Init PROVE IInv
  OBVIOUS
<1>0. /\ appts = [a \in Appts |-> None] /\ items = [i \in Items |-> None]
      /\ content = [m \in Messages |-> None]
      /\ handlers = [h \in Handlers |->
                      [at |-> "none", appt |-> None, queue |-> None, acted |-> FALSE, raced |-> FALSE]]
      /\ processed = {} /\ now = 0 /\ losses = 0
      /\ bookings = [i \in Items |-> 0]
  BY DEF Init
<1>1. TypeOK
  <2> HIDE DEF Handlers
  <2>1. [at |-> "none", appt |-> None, queue |-> None, acted |-> FALSE, raced |-> FALSE] \in Handler
    BY DEF Handler
  <2> QED  BY <1>0, <2>1, WebhookAssumption DEF TypeOK
<1>2. \A h \in Handlers : handlers[h].at = "none" /\ handlers[h].acted = FALSE
  <2> HIDE DEF Handlers
  <2> QED  BY <1>0
<1>3. HInv
  <2> HIDE DEF Handlers
  <2> QED  BY <1>0, <1>2 DEF HInv, KnowsContent, DoneIsRegistered, ActedHasArrived, FreedHasAppt, FreedFits
<1>4. RepeatsAreAccounted
  <2>1. \A m \in Messages : \A i \in Deliveries(m) : <<m, i>> \in Handlers
    OBVIOUS
  <2> HIDE DEF Handlers, Deliveries
  <2> QED  BY <1>2, <2>1, Zenon DEF RepeatsAreAccounted
<1>5. OrderInv
  BY <1>0 DEF OrderInv, OffersAreBooked, CreatedInOrder, NoQueueJumping, OffersFitTheirQueue, Waiting
<1>6. BookingsAreAccounted
  BY <1>0 DEF BookingsAreAccounted, IsResolved
<1> QED  BY <1>1, <1>3, <1>4, <1>5, <1>6 DEF IInv

LEMMA ClockTicks ==
  ASSUME TypeOK, KnowsContent, [Next]_vars
  PROVE  now' \in 0 .. MaxNow
<1> HIDE DEF Handlers
<1>1. now \in 0 .. MaxNow /\ MaxNow \in Nat
  BY WebhookAssumption DEF TypeOK
<1>2. ASSUME NEW h \in Handlers, Delivery(h)
      PROVE  now' = now
  BY <1>2, DeliveryShape
<1>3. ASSUME NEW h \in Handlers, TriggerWaitlist(h) \/ Register(h) \/ Lose(h)
      PROVE  now' = now
  BY <1>3 DEF TriggerWaitlist, Register, Lose
<1>4. CASE Environment
  <2>1. CASE Tick
    BY <1>1, <2>1 DEF Tick
  <2>2. ASSUME ~Tick
        PROVE  now' = now
    BY <1>4, <2>2 DEF Environment, Book, Dashboard, Move, Remind, AddItem, ResolveItem
  <2> QED  BY <1>1, <2>1, <2>2
<1>5. CASE UNCHANGED vars
  BY <1>1, <1>5 DEF vars
<1> QED  BY <1>1, <1>2, <1>3, <1>4, <1>5 DEF Next

LEMMA Inductive == IInv /\ [Next]_vars => IInv'
<1> SUFFICES ASSUME IInv, [Next]_vars PROVE IInv'
  OBVIOUS
<1> USE DEF IInv
<1> HIDE DEF Handlers, Deliveries
<1>1. /\ content' \in [Messages -> Content \cup {None}]
      /\ handlers' \in [Handlers -> Handler]
      /\ processed' \in SUBSET Messages
      /\ KnowsContent' /\ DoneIsRegistered' /\ ActedHasArrived'
      /\ RepeatsAreAccounted'
  BY HandlersInductive
<1>2. Kept /\ WaitlistOK'
  BY WaitlistInductive DEF HInv
<1>3. now' \in 0 .. MaxNow
  BY ClockTicks DEF HInv
<1>4. TypeOK'
  BY <1>1, <1>2, <1>3 DEF Kept, WaitlistOK, TypeOK
<1>5. FreedHasAppt'
  <2>1. CASE UNCHANGED <<content, handlers, processed>>
    BY <1>2, <2>1 DEF HInv, FreedHasAppt, Kept
  <2>2. ASSUME NEW h \in Handlers, Delivered(h) \/ Moved(h)
        PROVE  FreedHasAppt'
    BY <1>2, <2>2 DEF HInv, FreedHasAppt, Kept, Delivered, Moved
  <2> QED  BY <2>1, <2>2, StepShape DEF HInv
<1>6. ASSUME NEW h \in Handlers, handlers'[h].at = "freed"
      PROVE  Fits(appts'[handlers'[h].appt], handlers'[h].queue)
  <2>1. CASE handlers'[h] = handlers[h]
    <3>1. handlers[h].appt \in Booked /\ Held(handlers[h].appt)
      BY <1>6, <2>1 DEF HInv, FreedHasAppt, Held
    <3>2. Fits(appts[handlers[h].appt], handlers[h].queue)
      BY <1>6, <2>1 DEF HInv, FreedFits
    <3> QED  BY <1>2, <2>1, <3>1, <3>2 DEF Kept, Follows, Fits
  <2>2. CASE Delivered(h)
    BY <1>6, <2>2 DEF Delivered, Fits
  <2>3. ~Moved(h)
    BY <1>6 DEF Moved
  <2>4. handlers'[h] = handlers[h] \/ Delivered(h) \/ Moved(h)
    BY StepShape DEF HInv, Delivered, Moved
  <2> QED  BY <2>1, <2>2, <2>3, <2>4
<1>7. FreedFits'
  BY <1>6 DEF FreedFits, Fits
<1> QED  BY <1>1, <1>2, <1>4, <1>5, <1>7 DEF HInv, WaitlistOK

LEMMA AlwaysIInv == Spec => []IInv
BY InitIInv, Inductive, PTL DEF Spec

\* Every variable of the webhook keeps its type: in particular no step books
\* or offers the slot of an appointment that does not exist.
THEOREM WebhookTypeCorrect == Spec => []TypeOK
<1>1. IInv => TypeOK
  BY DEF IInv
<1> QED  BY AlwaysIInv, <1>1, PTL

\* The deduplication of process_incoming_message: two deliveries of a message
\* both act only if one began while another awaited, or one was lost.
THEOREM RepeatsNeedARaceOrALoss == Spec => []RepeatsAreAccounted
<1>1. IInv => RepeatsAreAccounted
  BY DEF IInv
<1> QED  BY AlwaysIInv, <1>1, PTL

\* A waitlist entry gets one appointment, and one more for each handler that is
\* lost between the create and the resolve of _try_waitlist_auto_booking.
THEOREM OneBookingPerEntryHolds == Spec => []OneBookingPerEntry
<1>1. ASSUME IInv
      PROVE  OneBookingPerEntry
  <2> SUFFICES ASSUME NEW i \in Items
               PROVE  bookings[i] <= 1 + losses
    BY DEF OneBookingPerEntry
  <2>1. bookings[i] \in Nat /\ losses \in Nat
    BY <1>1, WebhookAssumption DEF IInv, TypeOK
  <2>2. bookings[i] <= losses + (IF IsResolved(i) THEN 1 ELSE 0)
    BY <1>1 DEF IInv, BookingsAreAccounted
  <2>3. CASE IsResolved(i)
    BY <2>1, <2>2, <2>3
  <2>4. CASE ~IsResolved(i)
    BY <2>1, <2>2, <2>4
  <2> QED  BY <2>3, <2>4
<1> QED  BY AlwaysIInv, <1>1, PTL

\* first_unresolved_by_date offers in the order of the waitlist, whatever else
\* happens between two offers.
THEOREM NoQueueJumpingHolds == Spec => []NoQueueJumping
<1>1. IInv => NoQueueJumping
  BY DEF IInv, OrderInv
<1> QED  BY AlwaysIInv, <1>1, PTL

\* _trigger_waitlist_flow: the slot offered is of the day and the service its
\* customer waits for, unless the appointment was moved under the cancellation
\* or the offer.
THEOREM OffersFitHolds == Spec => []OffersFitTheirQueue
<1>1. IInv => OffersFitTheirQueue
  BY DEF IInv, OrderInv
<1> QED  BY AlwaysIInv, <1>1, PTL

\* get_first_unresolved_by_phone: who holds an offer can accept it, unless
\* another entry of theirs, for another day or another service, is older.
THEOREM OffersCanBeAcceptedHolds == Spec => []OffersCanBeAccepted
<1>1. ASSUME TypeOK, NoQueueJumping
      PROVE  OffersCanBeAccepted
  <2> SUFFICES ASSUME NEW i \in Waiting, items[i].offer # None,
                      i \notin Offered(Waits[i].client)
               PROVE  \E j \in Waiting : /\ j < i /\ Waits[j].client = Waits[i].client
                                         /\ QueueOf(j) # QueueOf(i)
    BY DEF OffersCanBeAccepted
  <2>1. PICK j \in Waiting : Waits[j].client = Waits[i].client /\ ~(i <= j)
    BY DEF Offered, FirstOfPhone, Oldest
  <2>2. i \in Nat /\ j \in Nat
    BY WebhookAssumption DEF Waiting
  <2>3. QueueOf(j) # QueueOf(i)
    BY <1>1, <2>1 DEF NoQueueJumping
  <2> QED  BY <2>1, <2>2, <2>3
<1>2. IInv => TypeOK /\ NoQueueJumping
  BY DEF IInv, OrderInv
<1> QED  BY AlwaysIInv, <1>1, <1>2, PTL
----------------------------------------------------------------------------
\* How far an entry with row r has come.
StageOf(r) ==
  IF r = None THEN "none"
  ELSE IF r.resolved THEN "closed"
  ELSE IF r.offer = None THEN "waiting"
  ELSE IF r.offer.kind = "pending" THEN "proposed" ELSE "sent"

LEMMA StageAt ==
  ASSUME TypeOK
  PROVE  \A i \in Items :
           /\ Stage[i] = StageOf(items[i])
           /\ items[i] = None <=> Stage[i] = "none"
           /\ i \in Waiting <=> Stage[i] \in FW!Open
           /\ i \in Waiting /\ items[i].offer # None <=> Stage[i] \in FW!Offered
BY DEF Stage, StageOf, Waiting, FW!Open, FW!Offered

LEMMA PutStage ==
  ASSUME TypeOK, NEW i \in Items, NEW r, items' = [items EXCEPT ![i] = r]
  PROVE  Stage' = [Stage EXCEPT ![i] = StageOf(r)]
<1>1. Stage = [j \in Items |-> StageOf(items[j])] /\ Stage' = [j \in Items |-> StageOf(items'[j])]
  BY DEF Stage, StageOf
<1>2. items'[i] = r /\ \A j \in Items : j # i => items'[j] = items[j]
  BY DEF TypeOK
<1> HIDE DEF StageOf
<1> QED  BY <1>1, <1>2

LEMMA AddIsJoin ==
  ASSUME IInv, NEW i \in Items, AddItem(i)
  PROVE  FW!Join(i)
<1> DEFINE r == [resolved |-> FALSE, offer |-> None]
<1>1. /\ items' = [items EXCEPT ![i] = r] /\ UNCHANGED <<bookings, losses>>
      /\ items[i] = None /\ \A j \in Items : j < i => items[j] # None
  BY DEF AddItem
<1>2. r # None /\ StageOf(r) = "waiting"
  <2>1. r \in Item
    BY DEF Item
  <2> QED  BY <2>1, NoneAssumption DEF StageOf
<1> HIDE DEF r
<1>3. Stage' = [Stage EXCEPT ![i] = "waiting"]
  BY <1>1, <1>2, PutStage DEF IInv
<1>4. Stage[i] = "none" /\ \A j \in Items : j < i => Stage[j] # "none"
  BY <1>1, StageAt DEF IInv
<1> QED  BY <1>1, <1>3, <1>4 DEF FW!Join, FW!Becomes

LEMMA ResolveIsClose ==
  ASSUME IInv, NEW i \in Items, ResolveItem(i)
  PROVE  FW!Close(i)
<1>1. /\ items' = [items EXCEPT ![i] = Resolved(i)] /\ i \in Waiting
      /\ UNCHANGED <<bookings, losses>>
  BY DEF ResolveItem
<1>2. StageOf(Resolved(i)) = "closed"
  BY ResolvedRow, NoneAssumption DEF StageOf
<1>3. Stage' = [Stage EXCEPT ![i] = "closed"]
  BY <1>1, <1>2, PutStage DEF IInv
<1> QED  BY <1>1, <1>3, StageAt DEF IInv, FW!Close, FW!Becomes

\* The first entry of the queue is the first of it still waiting.
LEMMA TriggerIsOffer ==
  ASSUME IInv, NEW h \in Handlers, TriggerWaitlist(h)
  PROVE  UNCHANGED FW!vars \/ \E i \in Items : FW!Offer(i)
<1> HIDE DEF Handlers
<1>1. UNCHANGED <<bookings, losses>>
  BY DEF TriggerWaitlist
<1>2. CASE items' = items
  BY <1>1, <1>2 DEF FW!vars, Stage
<1>3. CASE items' # items
  <2> DEFINE a == handlers[h].appt
  <2>1. PICK q \in {handlers[h].queue, QueueFor(appts[a])} :
          \E i \in FirstOfQueue(q), kind \in {"pending", "sent"} :
            items' = [items EXCEPT ![i].offer = [kind |-> kind, appt |-> a]]
    BY <1>3 DEF TriggerWaitlist
  <2>2. PICK i \in FirstOfQueue(q), kind \in {"pending", "sent"} :
          items' = [items EXCEPT ![i].offer = [kind |-> kind, appt |-> a]]
    BY <2>1
  <2>3. a \in Appts
    BY DEF TriggerWaitlist, IInv, HInv, FreedHasAppt, Booked
  <2>4. /\ i \in Waiting /\ i \in Items /\ items[i] \in Item /\ ~items[i].resolved
        /\ \A j \in Waiting : QueueOf(i) = QueueOf(j) => i <= j
    BY DEF FirstOfQueue, Oldest, Waiting, IInv, TypeOK
  <2> DEFINE o == [kind |-> kind, appt |-> a]
             r == [items[i] EXCEPT !.offer = o]
  <2>5. o \in Offer /\ o.kind = kind
    BY <2>3 DEF Offer
  <2>6. items' = [items EXCEPT ![i] = r]
    BY <2>2
  <2> HIDE DEF o, a
  <2>7. r \in Item /\ r.offer = o /\ ~r.resolved
    BY <2>4, <2>5 DEF Item
  <2> HIDE DEF r
  <2>8. StageOf(r) \in FW!Offered
    <3>1. r # None /\ r.offer # None
      BY <2>5, <2>7, NoneAssumption
    <3> QED  BY <2>7, <3>1 DEF StageOf, FW!Offered
  <2>9. Stage' = [Stage EXCEPT ![i] = StageOf(r)]
    BY <2>4, <2>6, PutStage DEF IInv
  <2>10. ASSUME NEW j \in Items, j < i, QueueOf(i) = QueueOf(j)
         PROVE  Stage[j] \notin FW!Open
    <3>1. i \in Nat /\ j \in Nat
      BY <2>4, WebhookAssumption
    <3>2. j \notin Waiting
      BY <2>4, <2>10, <3>1
    <3> QED  BY <3>2, StageAt DEF IInv
  <2>11. Stage[i] \in FW!Open
    BY <2>4, StageAt DEF IInv
  <2>12. FW!Offer(i)
    BY <1>1, <2>4, <2>8, <2>9, <2>10, <2>11 DEF FW!Offer, FW!Becomes
  <2> QED  BY <2>4, <2>12
<1> QED  BY <1>2, <1>3

LEMMA ApproveIsApprove ==
  ASSUME IInv, NEW h \in Handlers, OwnerApproves(h)
  PROVE  UNCHANGED FW!vars \/ \E i \in Items : FW!Approve(i)
<1> HIDE DEF Handlers
<1>1. UNCHANGED <<bookings, losses>>
  BY DEF OwnerApproves
<1>2. CASE items' = items
  BY <1>1, <1>2 DEF FW!vars, Stage
<1>3. CASE items' # items
  <2>1. PICK i \in ToApprove : items' = [items EXCEPT ![i].offer.kind = "sent"]
    BY <1>3 DEF OwnerApproves
  <2>2. i \in Waiting /\ items[i].offer # None /\ items[i].offer.kind = "pending"
    BY DEF ToApprove, Oldest
  <2>3. /\ i \in Items /\ items[i] \in Item /\ ~items[i].resolved
        /\ items[i].offer \in Offer
    BY <2>2, OfferShape DEF IInv, OrderInv, Waiting
  <2> DEFINE o == [items[i].offer EXCEPT !.kind = "sent"]
             r == [items[i] EXCEPT !.offer = o]
  <2>4. o \in Offer /\ o.kind = "sent"
    BY <2>3 DEF Offer
  <2>5. items' = [items EXCEPT ![i] = r]
    BY <2>1, Zenon
  <2> HIDE DEF o
  <2>6. r \in Item /\ r.offer = o /\ ~r.resolved
    BY <2>3, <2>4 DEF Item
  <2> HIDE DEF r
  <2>7. StageOf(r) = "sent"
    BY <2>4, <2>6, NoneAssumption DEF StageOf
  <2>8. Stage[i] = "proposed"
    BY <2>2, <2>3, NoneAssumption, StageAt DEF IInv, StageOf
  <2>9. Stage' = [Stage EXCEPT ![i] = "sent"]
    BY <2>3, <2>5, <2>7, PutStage DEF IInv
  <2>10. FW!Approve(i)
    BY <1>1, <2>8, <2>9 DEF FW!Approve, FW!Becomes
  <2> QED  BY <2>3, <2>10
<1> QED  BY <1>2, <1>3

LEMMA BookIsTake ==
  ASSUME IInv, NEW h \in Handlers, NEW c \in Clients, BookOffer(h, c)
  PROVE  \E i \in Items : FW!Take(i)
<1> HIDE DEF Handlers
<1>1. PICK i \in Offered(c) :
        /\ bookings' = [bookings EXCEPT ![i] = @ + 1]
        /\ \/ items' = [items EXCEPT ![i] = Resolved(i)] /\ losses' = losses
           \/ items' = items /\ losses' = losses + 1
  BY DEF BookOffer
<1>2. i \in Waiting /\ i \in Items /\ items[i].offer # None
  BY DEF Offered, FirstOfPhone, Oldest, Waiting
<1>3. Stage[i] \in FW!Offered
  BY <1>2, StageAt DEF IInv
<1>4. CASE items' = [items EXCEPT ![i] = Resolved(i)] /\ losses' = losses
  <2>1. StageOf(Resolved(i)) = "closed"
    BY <1>2, ResolvedRow, NoneAssumption DEF StageOf
  <2>2. Stage' = [Stage EXCEPT ![i] = "closed"]
    BY <1>2, <1>4, <2>1, PutStage DEF IInv
  <2> QED  BY <1>1, <1>2, <1>3, <1>4, <2>2 DEF FW!Take, FW!Becomes
<1>5. CASE items' = items /\ losses' = losses + 1
  <2>1. Stage' = Stage
    BY <1>5 DEF Stage
  <2> QED  BY <1>1, <1>2, <1>3, <1>5, <2>1 DEF FW!Take
<1> QED  BY <1>1, <1>4, <1>5

LEMMA NextIsFair == IInv /\ [Next]_vars => [FW!Next]_(FW!vars)
<1> SUFFICES ASSUME IInv, [Next]_vars PROVE FW!Next \/ UNCHANGED FW!vars
  OBVIOUS
<1>1. ASSUME items' = items, bookings' = bookings, losses' = losses
      PROVE  UNCHANGED FW!vars
  BY <1>1 DEF FW!vars, Stage
<1>2. ASSUME NEW h \in Handlers, OwnerApproves(h) \/ TriggerWaitlist(h)
      PROVE  FW!Next \/ UNCHANGED FW!vars
  BY <1>2, ApproveIsApprove, TriggerIsOffer DEF FW!Next
<1>3. ASSUME NEW h \in Handlers, SkipDuplicate(h) \/ Register(h)
      PROVE  UNCHANGED FW!vars
  BY <1>1, <1>3 DEF SkipDuplicate, Register
<1>4. ASSUME NEW h \in Handlers, NEW c \in Clients,
             Confirm(h, c) \/ RequestReschedule(h, c) \/ Cancel(h, c) \/ OfferGone(h, c)
      PROVE  UNCHANGED FW!vars
  BY <1>1, <1>4 DEF Confirm, RequestReschedule, Cancel, OfferGone
<1>5. ASSUME NEW h \in Handlers, NEW c \in Clients, NEW text, NoMatch(h, c, text)
      PROVE  UNCHANGED FW!vars
  BY <1>1, <1>5 DEF NoMatch
<1>6. ASSUME NEW h \in Handlers, NEW c \in Clients, BookOffer(h, c)
      PROVE  FW!Next
  BY <1>6, BookIsTake DEF FW!Next
<1>7. ASSUME NEW h \in Handlers, Lose(h)
      PROVE  FW!Next
  BY <1>7 DEF Lose, FW!Next, FW!Fail, Stage
<1>8. CASE Environment
  <2>1. ASSUME NEW i \in Items, AddItem(i) \/ ResolveItem(i)
        PROVE  FW!Next
    BY <2>1, AddIsJoin, ResolveIsClose DEF FW!Next
  <2> QED  BY <1>1, <1>8, <2>1 DEF Environment, Book, Dashboard, Move, Remind, Tick
<1>9. CASE UNCHANGED vars
  BY <1>1, <1>9 DEF vars
<1> HIDE DEF Handlers
<1>10. ASSUME NEW h \in Handlers, Delivery(h)
       PROVE  FW!Next \/ UNCHANGED FW!vars
  BY <1>2, <1>3, <1>4, <1>5, <1>6, <1>10 DEF Delivery
<1> QED  BY <1>2, <1>3, <1>7, <1>8, <1>9, <1>10 DEF Next

\* Handlers that overlap, repeat and fail, and the endpoints beside them, treat
\* the waitlist as a fair one (_trigger_waitlist_flow, _handle_owner_approval,
\* _try_waitlist_auto_booking, create_waitlist, resolve_waitlist).
THEOREM WaitlistIsFair == Spec => ImplementsFairWaitlist
<1>1. Init => FW!Init
  BY DEF Init, FW!Init, Stage
<1> QED  BY <1>1, AlwaysIInv, NextIsFair, PTL DEF Spec, ImplementsFairWaitlist, FW!Spec
----------------------------------------------------------------------------
\* Why the fair waitlist is fair: entries join in order, and an entry that is
\* still open has had no place but for failures.
FairInv ==
  /\ FW!TypeOK /\ FW!Orderly
  /\ \A i, j \in Items : i < j /\ Stage[j] # "none" => Stage[i] # "none"
  /\ \A i \in Items : bookings[i] <= losses + (IF Stage[i] = "closed" THEN 1 ELSE 0)

LEMMA FairInductive == FairInv /\ [FW!Next]_(FW!vars) => FairInv'
<1> SUFFICES ASSUME FairInv, FW!Next \/ UNCHANGED FW!vars PROVE FairInv'
  OBVIOUS
<1> USE WebhookAssumption DEF FairInv, FW!TypeOK, FW!Orderly, FW!Becomes, FW!Open, FW!Offered
<1>1. ASSUME NEW i \in Items, FW!Join(i) PROVE FairInv'
  BY <1>1 DEF FW!Join
<1>2. ASSUME NEW i \in Items, FW!Offer(i) PROVE FairInv'
  BY <1>2 DEF FW!Offer
<1>3. ASSUME NEW i \in Items, FW!Approve(i) PROVE FairInv'
  BY <1>3 DEF FW!Approve
<1>4. ASSUME NEW i \in Items, FW!Take(i) PROVE FairInv'
  BY <1>4 DEF FW!Take
<1>5. ASSUME NEW i \in Items, FW!Close(i) PROVE FairInv'
  BY <1>5 DEF FW!Close
<1>6. CASE FW!Fail
  BY <1>6 DEF FW!Fail
<1>7. CASE UNCHANGED FW!vars
  BY <1>7 DEF FW!vars
<1> QED  BY <1>1, <1>2, <1>3, <1>4, <1>5, <1>6, <1>7 DEF FW!Next

\* The fair waitlist keeps its promises: the order of a queue, and one place for
\* each entry but for failures.
THEOREM FairWaitlistIsFair == FW!Spec => [](FW!Orderly /\ FW!OnePlaceEach)
<1>1. FW!Init => FairInv
  BY DEF FW!Init, FairInv, FW!TypeOK, FW!Orderly, FW!Offered, FW!Open
<1>2. FairInv => FW!Orderly /\ FW!OnePlaceEach
  BY DEF FairInv, FW!TypeOK, FW!OnePlaceEach
<1> QED  BY <1>1, <1>2, FairInductive, PTL DEF FW!Spec
----------------------------------------------------------------------------
\* When the document is right about repeated deliveries.

\* A message is not delivered again while a delivery of it awaits.
DeliveredInTurn ==
  [][\A h \in Handlers :
        handlers[h].at = "none" /\ handlers'[h].at # "none" =>
          \A i \in Deliveries(h[1]) : handlers[<<h[1], i>>].at \notin Awaiting]_vars

\* Every handler comes to its end.
NoneIsLost == \A h \in Handlers : handlers[h].at # "lost"

NoneRaced == \A h \in Handlers : ~ handlers[h].raced

LEMMA NoneRacedKept ==
  ASSUME IInv, NoneRaced, [Next]_vars,
         \A h \in Handlers :
           handlers[h].at = "none" /\ handlers'[h].at # "none" =>
             \A i \in Deliveries(h[1]) : handlers[<<h[1], i>>].at \notin Awaiting
  PROVE  NoneRaced'
<1>1. TypeOK /\ KnowsContent
  BY DEF IInv, HInv
<1> HIDE DEF Handlers
<1>2. ASSUME NEW h \in Handlers, Delivered(h) PROVE NoneRaced'
  <2>1. \A i \in Deliveries(h[1]) : handlers[<<h[1], i>>].at \notin Awaiting
    <3>1. handlers[h].at = "none" /\ handlers'[h].at # "none"
      BY <1>2 DEF Delivered
    <3> QED  BY <3>1
  <2>2. ~ handlers'[h].raced /\ \A g \in Handlers : g # h => handlers'[g] = handlers[g]
    BY <1>2, <2>1 DEF Delivered
  <2> QED  BY <2>2 DEF NoneRaced
<1>3. ASSUME NEW h \in Handlers, Moved(h) PROVE NoneRaced'
  BY <1>3 DEF Moved, NoneRaced
<1>4. CASE UNCHANGED handlers
  BY <1>4 DEF NoneRaced
<1> QED  BY <1>1, <1>2, <1>3, <1>4, StepShape

\* docs/whatsapp_multitenant_context.md:123 holds of deliveries that come one
\* after the other and of handlers that end: then a message acts at most once
\* (process_incoming_message), which the run webhook_duplicate refutes otherwise.
THEOREM DeliveriesInTurnActOnce ==
  Spec /\ DeliveredInTurn /\ []NoneIsLost => []OneActionPerMessage
<1>1. Init => NoneRaced
  BY DEF Init, NoneRaced
<1>2. IInv /\ NoneRaced /\ [Next]_vars
      /\ [\A h \in Handlers :
            handlers[h].at = "none" /\ handlers'[h].at # "none" =>
              \A i \in Deliveries(h[1]) : handlers[<<h[1], i>>].at \notin Awaiting]_vars
        => NoneRaced'
  <2> SUFFICES ASSUME IInv, NoneRaced, [Next]_vars, UNCHANGED vars PROVE NoneRaced'
    BY NoneRacedKept
  <2> QED  BY DEF vars, NoneRaced
<1>3. IInv /\ NoneRaced /\ NoneIsLost => OneActionPerMessage
  <2> SUFFICES ASSUME RepeatsAreAccounted, NoneRaced, NoneIsLost, NEW m \in Messages
               PROVE  Cardinality({i \in Deliveries(m) : handlers[<<m, i>>].acted}) <= 1
    BY DEF IInv, OneActionPerMessage
  <2> DEFINE D == {i \in Deliveries(m) : handlers[<<m, i>>].acted}
  <2>1. ASSUME NEW i \in D, NEW j \in D, i # j PROVE FALSE
    <3>1. \A k \in {i, j} : <<m, k>> \in Handlers
      OBVIOUS
    <3> HIDE DEF Handlers
    <3> QED  BY <2>1, <3>1 DEF RepeatsAreAccounted, NoneRaced, NoneIsLost
  <2> HIDE DEF D
  <2>2. Cardinality(D) <= 1
    <3>1. CASE D = {}
      BY <3>1, FS_EmptySet
    <3>2. CASE D # {}
      <4>1. PICK i \in D : D = {i}
        BY <2>1, <3>2
      <4>2. Cardinality({i}) = 1
        BY FS_Singleton
      <4> QED  BY <4>1, <4>2
    <3> QED  BY <3>1, <3>2
  <2> QED  BY <2>2 DEF D
<1> QED
  BY <1>1, <1>2, <1>3, AlwaysIInv, PTL DEF Spec, DeliveredInTurn
----------------------------------------------------------------------------
\* When the document is right about the "1".

\* The "1" of a customer with a single pending appointment, who holds no offer
\* of the waitlist, takes the appointment from pending to confirmed.
ConfirmsWithoutOffer ==
  [][\A h \in Handlers, c \in Clients, a \in Appts :
       /\ handlers[h].at = "none" /\ handlers'[h].at # "none" /\ New(h)
       /\ content'[h[1]] = [from |-> c, text |-> "confirm"]
       /\ Pending(c) = {a} /\ Offered(c) = {}
       => appts'[a].status = "confirmed"]_vars

\* A single pending appointment is the nearest, and not ambiguous.
LEMMA OneIsNearest ==
  ASSUME TypeOK, NEW c \in Clients, NEW a \in Appts, Pending(c) = {a}
  PROVE  Nearest(c) = {a} /\ ~ Ambiguous(c) /\ a \in Booked
<1>1. a \in Booked /\ appts[a] \in Row
  BY DEF Pending, Booked, TypeOK
<1>2. appts[a].slot \in Nat
  BY <1>1, WebhookAssumption DEF Row
<1>3. Earliest({a}) = {a} /\ Latest({a}) = {a} /\ Earliest({}) = {}
  BY <1>2 DEF Earliest, Latest
<1>4. /\ Upcoming(Pending(c)) \in {{}, {a}} /\ Linked(Pending(c)) \in {{}, {a}}
      /\ Upcoming(Linked(Pending(c))) \in {{}, {a}}
  BY DEF Upcoming, Linked
<1>5. ByRemoteId(c) \in {{}, {a}} /\ ByPhone(c) = {a}
  BY <1>3, <1>4 DEF ByRemoteId, ByPhone
<1>6. Cardinality(Upcoming(Pending(c))) \in {0, 1}
  BY <1>4, FS_EmptySet, FS_Singleton
<1> QED  BY <1>1, <1>5, <1>6 DEF Nearest, Ambiguous

\* A delivery says what its message says.
LEMMA SaysIt ==
  ASSUME TypeOK, NEW h \in Handlers, NEW from, NEW text, NEW at, NEW appt, NEW acted,
         Arrives(h, from, text, at, appt, acted)
  PROVE  content'[h[1]] = [from |-> from, text |-> text]
BY DEF Arrives, TypeOK

\* _handle_appointment_confirmation after _try_waitlist_auto_booking found no
\* offer: what the run webhook_confirm refutes for customers who hold one.
THEOREM ConfirmsHold == Spec => ConfirmsWithoutOffer
<1>1. ASSUME IInv, Next, NEW h \in Handlers, NEW c \in Clients, NEW a \in Appts,
             handlers[h].at = "none", handlers'[h].at # "none", New(h),
             content'[h[1]] = [from |-> c, text |-> "confirm"],
             Pending(c) = {a}, Offered(c) = {}
      PROVE  appts'[a].status = "confirmed"
  <2> HIDE DEF Handlers
  <2>1. TypeOK /\ KnowsContent
    BY <1>1 DEF IInv, HInv
  <2>2. Nearest(c) = {a} /\ ~ Ambiguous(c) /\ a \in Booked
    BY <1>1, <2>1, OneIsNearest
  <2>3. PICK g \in Handlers : Delivery(g) \/ TriggerWaitlist(g) \/ Register(g) \/ Lose(g)
    <3>1. CASE Environment
      BY <1>1, <3>1 DEF Environment, Book, Dashboard, Move, Remind, AddItem, ResolveItem, Tick
    <3> QED  BY <1>1, <3>1 DEF Next
  <2>4. g = h
    <3>1. Delivered(g) \/ Moved(g)
      BY <2>1, <2>3, DeliveryShape, MoveShape
    <3> QED  BY <1>1, <3>1 DEF Delivered, Moved
  <2>5. Delivery(h)
    <3>1. ~ Moved(h)
      BY <1>1 DEF Moved, Awaiting
    <3> QED  BY <2>1, <2>3, <2>4, <3>1, MoveShape
  <2>6. ~ SkipDuplicate(h)
    BY <1>1 DEF SkipDuplicate
  <2>7. ~ OwnerApproves(h)
    <3>1. OwnerApproves(h) => content'[h[1]] = [from |-> Owner, text |-> "approve"]
      BY <2>1, SaysIt DEF OwnerApproves
    <3> QED  BY <1>1, <3>1
  <2>8. PICK d \in Clients :
           \/ Confirm(h, d) \/ RequestReschedule(h, d) \/ Cancel(h, d)
           \/ \E text \in {"confirm", "cancel", "reschedule"} : NoMatch(h, d, text)
           \/ BookOffer(h, d) \/ OfferGone(h, d)
    BY <2>5, <2>6, <2>7 DEF Delivery
  <2>9. ASSUME Confirm(h, d) PROVE appts'[a].status = "confirmed"
    <3>1. d = c
      <4>1. content'[h[1]] = [from |-> d, text |-> "confirm"]
        BY <2>1, <2>9, SaysIt DEF Confirm
      <4> QED  BY <1>1, <4>1
    <3>2. Reply(a, "confirmed")
      BY <2>2, <2>9, <3>1 DEF Confirm
    <3>3. appts[a] \in Row /\ appts \in [Appts -> Row \cup {None}]
      BY <2>1, <2>2 DEF TypeOK, Booked
    <3> QED  BY <1>1, <3>2, <3>3 DEF Reply, Row
  <2>10. ~ RequestReschedule(h, d)
    <3>1. RequestReschedule(h, d) => content'[h[1]] = [from |-> d, text |-> "reschedule"]
      BY <2>1, SaysIt DEF RequestReschedule
    <3> QED  BY <1>1, <3>1
  <2>11. ~ Cancel(h, d)
    <3>1. Cancel(h, d) => content'[h[1]] = [from |-> d, text |-> "cancel"]
      BY <2>1, SaysIt DEF Cancel
    <3> QED  BY <1>1, <3>1
  <2>12. ASSUME NEW text \in {"confirm", "cancel", "reschedule"} PROVE ~ NoMatch(h, d, text)
    <3>1. NoMatch(h, d, text) => content'[h[1]] = [from |-> d, text |-> text]
      BY <2>1, SaysIt DEF NoMatch
    <3>2. NoMatch(h, d, text) => Nearest(d) = {} \/ (text = "confirm" /\ Ambiguous(d))
      BY DEF NoMatch
    <3>3. NoMatch(h, d, text) => d = c
      BY <1>1, <3>1
    <3>4. Nearest(c) # {} /\ ~ Ambiguous(c)
      BY <2>2
    <3> QED  BY <3>2, <3>3, <3>4
  <2>13. ~ BookOffer(h, d)
    <3>1. BookOffer(h, d) => content'[h[1]] = [from |-> d, text |-> "confirm"]
      BY <2>1, SaysIt DEF BookOffer
    <3>2. BookOffer(h, d) => Offered(d) # {}
      BY DEF BookOffer
    <3>3. BookOffer(h, d) => d = c
      BY <1>1, <3>1
    <3> QED  BY <1>1, <3>2, <3>3
  <2>14. ~ OfferGone(h, d)
    <3>1. OfferGone(h, d) => content'[h[1]] = [from |-> d, text |-> "confirm"]
      BY <2>1, SaysIt DEF OfferGone
    <3>2. OfferGone(h, d) => Offered(d) # {}
      BY DEF OfferGone
    <3>3. OfferGone(h, d) => d = c
      BY <1>1, <3>1
    <3> QED  BY <1>1, <3>2, <3>3
  <2> QED  BY <2>8, <2>9, <2>10, <2>11, <2>12, <2>13, <2>14
<1>2. IInv /\ [Next]_vars =>
        [\A h \in Handlers, c \in Clients, a \in Appts :
           /\ handlers[h].at = "none" /\ handlers'[h].at # "none" /\ New(h)
           /\ content'[h[1]] = [from |-> c, text |-> "confirm"]
           /\ Pending(c) = {a} /\ Offered(c) = {}
           => appts'[a].status = "confirmed"]_vars
  BY <1>1
<1> QED  BY <1>2, AlwaysIInv, PTL DEF Spec, ConfirmsWithoutOffer
=============================================================================
