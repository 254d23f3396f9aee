---------------------------- MODULE OutboxProofs ----------------------------
(***************************************************************************)
(* What holds of the outbox for every number of events, loops, requests,   *)
(* attempts, requeues and faults: its state stays well-formed, an event    *)
(* has one holder and a budget of attempts, and every step is one that     *)
(* EventDelivery allows.                                                   *)
(***************************************************************************)
EXTENDS Outbox, TLAPS

\* What the sinks have seen is mostly left alone as a whole.
USE DEF sinks

-----------------------------------------------------------------------------
(* The inductive invariant.                                                  *)

\* What each phase of a loop has in its variables; no event is there twice.
LoopOK(l) ==
    /\ loop[l].phase = "idle" =>
          loop[l].ids = {} /\ loop[l].batch = {} /\ loop[l].current = NoEvent
    /\ loop[l].phase = "reload" =>
          loop[l].batch = {} /\ loop[l].current = NoEvent
    /\ loop[l].phase = "batch" => loop[l].ids = {} /\ loop[l].current = NoEvent
    /\ loop[l].phase \in {"markDelivered", "markFailed"} =>
          /\ loop[l].ids = {} /\ loop[l].current # NoEvent
          /\ \A c \in loop[l].batch : c.id # loop[l].current.id
    /\ loop[l].phase = "markDelivered" => loop[l].current.id \in sent \cup skipped
    /\ \A c, d \in loop[l].batch : c.id = d.id => c = d

\* The copies of events that a loop has loaded.
Copies(l) == loop[l].batch \cup ({loop[l].current} \ {NoEvent})

\* The loop marks an event as failed.
Failing(l, e) == loop[l].phase = "markFailed" /\ loop[l].current.id = e

\* The row of an event that a loop holds.  It is delivered already only when
\* markDelivered has thrown after it was written.
HeldRow(l, e) ==
    \/ status[e] = "deleted"
    \/ status[e] = "processing" /\ e \notin lockOld
    \/ status[e] = "delivered" /\ e \in lost /\ Failing(l, e)

\* While nothing disturbs an event: the loop that holds it has the row as it
\* is, nobody may requeue it who saw it given up before its only requeue, and
\* an attempt above the limit was paid for by a loop that died.
Calm(e) ==
    /\ \A k, l \in Loops : e \in Holds(k) /\ e \in Holds(l) => k = l
    /\ \A l \in Loops : e \in Holds(l) => HeldRow(l, e)
    /\ \A l \in Loops : \A c \in Copies(l) : c.id = e => c.attempts = attempts[e]
    /\ \A r \in Requests :
          e \in request[r].ids /\ request[r].op = "requeue" /\ requeues[e] = 0
             => status[e] \in {"dead_letter", "deleted"}
    /\ status[e] \in {"none", "pending", "failed"} => attempts[e] < MaxAttempts
    /\ status[e] = "processing" /\ (\A l \in Loops : e \notin Holds(l)) =>
          attempts[e] < MaxAttempts + crashes
    /\ attempts[e] <= MaxAttempts + crashes

\* Loops and requests deal with events that were enqueued.
Enqueued(e) ==
    status[e] = "none" => /\ \A l \in Loops : e \notin Holds(l)
                          /\ \A r \in Requests : e \notin request[r].ids

EventOK(e) == Enqueued(e) /\ (Undisturbed(e) => Calm(e))

OutboxInv == /\ TypeOK /\ \A l \in Loops : LoopOK(l)
             /\ \A e \in Events : EventOK(e)

-----------------------------------------------------------------------------
(* Loops.                                                                    *)

LEMMA IdleLoopOK ==
    /\ IdleLoop \in LoopStates
    /\ IdleLoop.phase = "idle" /\ IdleLoop.ids = {} /\ IdleLoop.batch = {}
    /\ IdleLoop.current = NoEvent
  BY DEF IdleLoop, LoopStates, Phases

LEMMA LoopFields ==
    ASSUME NEW r \in LoopStates
    PROVE  /\ r.phase \in Phases /\ r.ids \subseteq Events
           /\ r.batch \subseteq Claimed /\ r.current \in Claimed \cup {NoEvent}
  BY DEF LoopStates

LEMMA HoldsCopies ==
    ASSUME TypeOK, NEW l \in Loops
    PROVE  /\ Holds(l) = loop[l].ids \cup {c.id : c \in Copies(l)}
           /\ Holds(l) \subseteq Events /\ Copies(l) \subseteq Claimed
<1>1. loop[l] \in LoopStates
  BY DEF TypeOK
<1>2. \A c \in Claimed : c.id \in Events
  BY DEF Claimed
<1> QED
  BY <1>1, <1>2, LoopFields DEF Holds, Copies

\* One loop goes on, the others stay where they are.
LEMMA OneLoop ==
    ASSUME TypeOK, NEW l \in Loops, NEW r \in LoopStates,
           loop' = [loop EXCEPT ![l] = r]
    PROVE  /\ loop' \in [Loops -> LoopStates] /\ loop'[l] = r
           /\ \A k \in Loops \ {l} : /\ loop'[k] = loop[k]
                                     /\ Holds(k)' = Holds(k)
                                     /\ Copies(k)' = Copies(k)
<1>1. loop \in [Loops -> LoopStates]
  BY DEF TypeOK
<1>2. /\ loop' \in [Loops -> LoopStates] /\ loop'[l] = r
      /\ \A k \in Loops \ {l} : loop'[k] = loop[k]
  BY <1>1
<1> QED
  BY <1>2 DEF Holds, Copies

\* Loops of which neither the variables nor the events they may call delivered
\* change are as they were.
LEMMA SameLoopOK ==
    ASSUME NEW k \in Loops, LoopOK(k), loop'[k] = loop[k],
           sent \cup skipped \subseteq sent' \cup skipped'
    PROVE  LoopOK(k)'
  BY DEF LoopOK

\* An event is as it was when its row, the requests for it and the loops that
\* hold it are.
LEMMA Untouched ==
    ASSUME OutboxInv, TypeOK', NEW e \in Events,
           status'[e] = status[e], attempts'[e] = attempts[e],
           requeues'[e] = requeues[e], slow \subseteq slow',
           e \in lockOld' => e \in lockOld, e \in lost => e \in lost',
           crashes' >= crashes,
           \A l \in Loops : e \in Holds(l)' <=> e \in Holds(l),
           \A l \in Loops : \A c \in Copies(l)' : c.id = e => c \in Copies(l),
           \A l \in Loops : Failing(l, e) => Failing(l, e)',
           \A r \in Requests : e \in request'[r].ids =>
              e \in request[r].ids /\ request'[r].op = request[r].op
    PROVE  EventOK(e)'
<1>1. EventOK(e)
  BY DEF OutboxInv
<1>2. Enqueued(e)'
  BY <1>1 DEF EventOK, Enqueued
<1>3. Undisturbed(e)' => Undisturbed(e)
  BY DEF Undisturbed
<1>4. ASSUME Calm(e) PROVE Calm(e)'
  <2>1. /\ crashes \in Nat /\ crashes' \in Nat /\ MaxAttempts \in Nat
        /\ attempts[e] \in Nat
    BY OutboxAssumption DEF OutboxInv, TypeOK
  <2>2. \A l \in Loops : e \in Holds(l)' => HeldRow(l, e)'
    BY <1>4 DEF Calm, HeldRow
  <2>3. \A l \in Loops : \A c \in Copies(l)' : c.id = e => c.attempts = attempts'[e]
    BY <1>4 DEF Calm
  <2>4. \A r \in Requests :
           /\ e \in request'[r].ids /\ request'[r].op = "requeue"
           /\ requeues'[e] = 0
           => status'[e] \in {"dead_letter", "deleted"}
    BY <1>4 DEF Calm
  <2>5. /\ status'[e] = "processing" /\ (\A l \in Loops : e \notin Holds(l)')
        => attempts'[e] < MaxAttempts + crashes'
    BY <1>4, <2>1 DEF Calm
  <2>6. attempts'[e] <= MaxAttempts + crashes'
    BY <1>4, <2>1 DEF Calm
  <2> QED
    BY <1>4, <2>2, <2>3, <2>4, <2>5, <2>6 DEF Calm
<1> QED
  BY <1>1, <1>2, <1>3, <1>4 DEF EventOK

LEMMA InitInv == Init => OutboxInv
<1> SUFFICES ASSUME Init PROVE OutboxInv
  OBVIOUS
<1>1. \A l \in Loops : /\ loop[l] = IdleLoop
                       /\ Holds(l) = {} /\ Copies(l) = {}
  BY IdleLoopOK DEF Init, Holds, Copies
<1>2. TypeOK
  BY IdleLoopOK DEF Init, TypeOK, Statuses, IdleRequest
<1>3. \A l \in Loops : LoopOK(l)
  BY <1>1, IdleLoopOK DEF LoopOK
<1>4. ASSUME NEW e \in Events PROVE EventOK(e)
  <2>1. /\ status[e] = "none" /\ attempts[e] = 0 /\ requeues[e] = 0
        /\ crashes = 0
        /\ \A r \in Requests : request[r].ids = {}
    BY DEF Init, IdleRequest
  <2>2. MaxAttempts \in Nat /\ MaxAttempts > 0
    BY OutboxAssumption
  <2> QED
    BY <1>1, <2>1, <2>2 DEF EventOK, Enqueued, Calm
<1> QED
  BY <1>2, <1>3, <1>4 DEF OutboxInv

LEMMA EnqueueInv ==
    ASSUME OutboxInv, NEW e \in Events, Enqueue(e) PROVE OutboxInv'
<1>1. /\ status[e] = "none" /\ status' = [status EXCEPT ![e] = "pending"]
      /\ due' = due \cup {e}
      /\ UNCHANGED <<attempts, lockOld, loop, request, sinks, requeues, slow,
                     crashes, lost>>
  BY DEF Enqueue
<1>2. TypeOK'
  BY <1>1 DEF OutboxInv, TypeOK, Statuses
<1>3. /\ \A l \in Loops : LoopOK(l)'
      /\ \A l \in Loops : Holds(l)' = Holds(l) /\ Copies(l)' = Copies(l)
      /\ \A l \in Loops, d \in Events : Failing(l, d)' <=> Failing(l, d)
  BY <1>1 DEF OutboxInv, LoopOK, Holds, Copies, Failing
<1>4. /\ status'[e] = "pending"
      /\ \A d \in Events : d # e => status'[d] = status[d]
  BY <1>1 DEF OutboxInv, TypeOK
<1>5. ASSUME NEW d \in Events, d # e PROVE EventOK(d)'
  <2>1. crashes' >= crashes
    BY <1>1 DEF OutboxInv, TypeOK
  <2> QED
    BY <1>1, <1>2, <1>3, <1>4, <1>5, <2>1, Untouched
<1>6. EventOK(e)'
  <2>1. EventOK(e) /\ Enqueued(e) /\ (Undisturbed(e)' => Calm(e))
    BY <1>1 DEF OutboxInv, EventOK, Undisturbed
  <2>2. /\ \A l \in Loops : e \notin Holds(l)'
        /\ \A r \in Requests : e \notin request'[r].ids
    BY <1>1, <1>3, <2>1 DEF Enqueued
  <2>3. \A l \in Loops : \A c \in Copies(l)' : c.id # e
    BY <1>2, <2>2, HoldsCopies DEF OutboxInv, Holds, Copies
  <2>4. Undisturbed(e)' => Calm(e)'
    BY <1>1, <1>4, <2>1, <2>2, <2>3 DEF Calm
  <2> QED
    BY <1>4, <2>4 DEF EventOK, Enqueued
<1> QED
  BY <1>2, <1>3, <1>5, <1>6 DEF OutboxInv

\* Who claims an event that nothing disturbs takes it from no other loop.
LEMMA ClaimDueBatchInv ==
    ASSUME OutboxInv, NEW l \in Loops, NEW ids \in SUBSET Events,
           ClaimDueBatch(l, ids)
    PROVE  OutboxInv'
<1> DEFINE r == [IdleLoop EXCEPT !.phase = "reload", !.ids = ids]
<1>1. /\ loop[l].phase = "idle"
      /\ status' = [e \in Events |-> IF e \in ids THEN "processing" ELSE status[e]]
      /\ attempts' = [e \in Events |-> IF e \in ids THEN attempts[e] + 1
                                       ELSE attempts[e]]
      /\ lockOld' = lockOld \ ids
      /\ loop' = [loop EXCEPT ![l] = r]
      /\ UNCHANGED <<due, request, sinks, requeues, slow, crashes, lost>>
      /\ \A e \in ids : Due(e)
  BY DEF ClaimDueBatch
<1>2. /\ r.phase = "reload" /\ r.ids = ids /\ r.batch = {}
      /\ r.current = NoEvent
  BY Zenon DEF IdleLoop
<1>3. r \in LoopStates
  <2>1. IdleLoop \in LoopStates /\ "reload" \in Phases
    BY IdleLoopOK DEF Phases
  <2> QED
    BY <2>1, Zenon DEF LoopStates
<1>4. TypeOK /\ loop \in [Loops -> LoopStates] /\ attempts \in [Events -> Nat]
      /\ status \in [Events -> Statuses]
  BY DEF OutboxInv, TypeOK
<1> HIDE DEF r
<1>5. /\ loop' \in [Loops -> LoopStates] /\ loop'[l] = r
      /\ \A k \in Loops \ {l} : /\ loop'[k] = loop[k]
                                /\ Holds(k)' = Holds(k)
                                /\ Copies(k)' = Copies(k)
  BY <1>1, <1>3, <1>4, OneLoop
<1>6. TypeOK'
  <2>1. /\ status' \in [Events -> Statuses] /\ attempts' \in [Events -> Nat]
    BY <1>1, <1>4 DEF Statuses
  <2> QED
    BY <1>1, <1>5, <2>1 DEF OutboxInv, TypeOK
<1>7. ASSUME NEW k \in Loops PROVE LoopOK(k)'
  <2>1. CASE k = l
    BY <2>1, <1>2, <1>5 DEF LoopOK
  <2>2. CASE k # l
    BY <2>2, <1>1, <1>5, SameLoopOK DEF OutboxInv
  <2> QED
    BY <2>1, <2>2
<1>8. /\ Holds(l) = {} /\ Copies(l) = {}
      /\ Holds(l)' = ids /\ Copies(l)' = {}
  <2>1. loop[l].ids = {} /\ loop[l].batch = {} /\ loop[l].current = NoEvent
    BY <1>1 DEF OutboxInv, LoopOK
  <2> QED
    BY <1>2, <1>5, <2>1 DEF Holds, Copies
<1>9. ASSUME NEW e \in Events, e \notin ids PROVE EventOK(e)'
  <2>1. /\ status'[e] = status[e] /\ attempts'[e] = attempts[e]
        /\ requeues'[e] = requeues[e] /\ slow \subseteq slow'
        /\ (e \in lockOld' => e \in lockOld) /\ (e \in lost => e \in lost')
        /\ crashes' >= crashes /\ request' = request
    BY <1>1, <1>9 DEF OutboxInv, TypeOK
  <2>2. /\ \A k \in Loops : e \in Holds(k)' <=> e \in Holds(k)
        /\ \A k \in Loops : \A c \in Copies(k)' : c \in Copies(k)
        /\ \A k \in Loops : Failing(k, e) => Failing(k, e)'
    BY <1>1, <1>5, <1>8, <1>9 DEF Failing
  <2> QED
    BY <1>6, <2>1, <2>2, Untouched
<1>10. ASSUME NEW e \in ids PROVE EventOK(e)'
  <2>1. /\ e \in Events /\ Due(e) /\ status'[e] = "processing"
        /\ attempts'[e] = attempts[e] + 1 /\ e \notin lockOld'
        /\ attempts[e] \in Nat /\ crashes \in Nat /\ MaxAttempts \in Nat
    BY <1>1, <1>4, OutboxAssumption DEF OutboxInv, TypeOK
  <2>2. ASSUME Undisturbed(e)' PROVE Calm(e)'
    <3>1. Calm(e)
      BY <1>1, <2>1, <2>2 DEF OutboxInv, EventOK, Undisturbed
    <3>2. \A k \in Loops : e \notin Holds(k)
      BY <2>1, <3>1 DEF Calm, HeldRow, Due
    <3>3. \A k \in Loops : e \in Holds(k)' <=> k = l
      BY <1>5, <1>8, <3>2
    <3>4. \A k \in Loops : \A c \in Copies(k)' : c.id # e
      <4>1. \A k \in Loops : \A c \in Copies(k) : c.id # e
        BY <1>4, <3>2, HoldsCopies
      <4> QED
        BY <4>1, <1>5, <1>8
    <3>5. attempts[e] < MaxAttempts + crashes
      BY <2>1, <3>1, <3>2 DEF Calm, Due
    <3>6. \A k \in Loops : e \in Holds(k)' => HeldRow(k, e)'
      BY <2>1 DEF HeldRow
    <3>7. \A q \in Requests :
             ~(/\ e \in request'[q].ids /\ request'[q].op = "requeue"
               /\ requeues'[e] = 0)
      BY <1>1, <2>1, <3>1 DEF Calm, Due
    <3> QED
      BY <1>1, <2>1, <3>3, <3>4, <3>5, <3>6, <3>7 DEF Calm
  <2> QED
    BY <2>1, <2>2 DEF EventOK, Enqueued
<1> QED
  BY <1>6, <1>7, <1>9, <1>10 DEF OutboxInv

\* Rows that have gone are dropped; the others are loaded as they are.
LEMMA ReloadClaimedInv ==
    ASSUME OutboxInv, NEW l \in Loops, ReloadClaimed(l) PROVE OutboxInv'
<1> DEFINE found == {e \in loop[l].ids : status[e] # "deleted"}
           copies == {[id |-> e, attempts |-> attempts[e]] : e \in found}
           r == [IdleLoop EXCEPT !.phase = "batch", !.batch = copies]
           s == IF found = {} THEN IdleLoop ELSE r
<1>1. /\ loop[l].phase = "reload" /\ loop' = [loop EXCEPT ![l] = s]
      /\ UNCHANGED <<status, attempts, due, lockOld, request, sinks, requeues,
                     slow, crashes, lost>>
  BY DEF ReloadClaimed
<1>2. TypeOK /\ loop[l] \in LoopStates /\ loop[l].ids \subseteq Events
  BY LoopFields DEF OutboxInv, TypeOK
<1>3. copies \subseteq Claimed
  BY <1>2 DEF Claimed, TypeOK
<1>4. /\ \A c \in copies : c.id \in found /\ c.attempts = attempts[c.id]
      /\ \A c, d \in copies : c.id = d.id => c = d
      /\ \A e \in found : [id |-> e, attempts |-> attempts[e]] \in copies
      /\ \A e \in found : [id |-> e, attempts |-> attempts[e]].id = e
      /\ found = {} => copies = {}
  OBVIOUS
<1> HIDE DEF copies
<1>5. r \in LoopStates
  <2>1. IdleLoop \in LoopStates /\ "batch" \in Phases
    BY IdleLoopOK DEF Phases
  <2> QED
    BY <1>3, <2>1, Zenon DEF LoopStates
<1>6. r.phase = "batch" /\ r.ids = {} /\ r.batch = copies /\ r.current = NoEvent
  BY Zenon DEF IdleLoop
<1> HIDE DEF r
<1>7. /\ s \in LoopStates /\ s.ids = {} /\ s.batch = copies
      /\ s.current = NoEvent /\ s.phase \in {"idle", "batch"}
      /\ s.phase = "idle" => copies = {}
  BY <1>4, <1>5, <1>6, IdleLoopOK
<1> HIDE DEF s, found
<1>8. /\ loop' \in [Loops -> LoopStates] /\ loop'[l] = s
      /\ \A k \in Loops \ {l} : /\ loop'[k] = loop[k]
                                /\ Holds(k)' = Holds(k)
                                /\ Copies(k)' = Copies(k)
  BY <1>1, <1>2, <1>7, OneLoop
<1>9. TypeOK'
  BY <1>1, <1>8 DEF OutboxInv, TypeOK
<1>10. ASSUME NEW k \in Loops PROVE LoopOK(k)'
  <2>1. CASE k = l
    BY <2>1, <1>4, <1>7, <1>8 DEF LoopOK
  <2>2. CASE k # l
    BY <2>2, <1>1, <1>8, SameLoopOK DEF OutboxInv
  <2> QED
    BY <2>1, <2>2
<1>11. /\ Holds(l) = loop[l].ids /\ Copies(l)' = copies
       /\ Holds(l)' = found
  <2>1. loop[l].batch = {} /\ loop[l].current = NoEvent
    BY <1>1 DEF OutboxInv, LoopOK
  <2>2. Holds(l)' = {c.id : c \in copies}
    BY <1>7, <1>8 DEF Holds
  <2>3. {c.id : c \in copies} = found
    <3>1. \A e \in found : \E c \in copies : c.id = e
      BY <1>4
    <3>2. \A c \in copies : c.id \in found
      BY <1>4
    <3> QED
      BY <3>1, <3>2
  <2> QED
    BY <1>7, <1>8, <2>1, <2>2, <2>3 DEF Holds, Copies
<1>12. ASSUME NEW e \in Events, e \notin Holds(l) \/ e \in found
       PROVE  EventOK(e)'
  <2>1. \A k \in Loops : e \in Holds(k)' <=> e \in Holds(k)
    BY <1>8, <1>11, <1>12 DEF found
  <2>2. \A k \in Loops : Failing(k, e) => Failing(k, e)'
    BY <1>1, <1>8 DEF Failing
  <2>3. EventOK(e) /\ crashes \in Nat
    BY DEF OutboxInv, TypeOK
  <2>4. \A k \in Loops : \A c \in Copies(k)' :
           c.id = e => c \in Copies(k) \/ c.attempts = attempts[e]
    BY <1>4, <1>8, <1>11
  <2>5. Enqueued(e)'
    BY <1>1, <2>1, <2>3 DEF EventOK, Enqueued
  <2>6. ASSUME Calm(e) PROVE Calm(e)'
    <3>1. \A k \in Loops : \A c \in Copies(k)' :
             c.id = e => c.attempts = attempts'[e]
      BY <1>1, <2>4, <2>6 DEF Calm
    <3>2. \A k \in Loops : e \in Holds(k)' => HeldRow(k, e)'
      BY <1>1, <2>1, <2>2, <2>6 DEF Calm, HeldRow
    <3> QED
      BY <1>1, <2>1, <2>6, <3>1, <3>2 DEF Calm
  <2> QED
    BY <1>1, <2>3, <2>5, <2>6 DEF EventOK, Undisturbed
<1>13. ASSUME NEW e \in Events, e \in Holds(l), e \notin found
       PROVE  EventOK(e)'
  <2>1. status[e] = "deleted"
    BY <1>11, <1>13 DEF found
  <2>2. ASSUME Calm(e) PROVE Calm(e)'
    <3>1. \A k \in Loops : e \notin Holds(k)'
      BY <1>8, <1>11, <1>13, <2>2 DEF Calm
    <3>2. \A k \in Loops : \A c \in Copies(k)' : c.id # e
      BY <1>9, <3>1, HoldsCopies DEF Holds, Copies
    <3> QED
      BY <1>1, <2>1, <2>2, <3>1, <3>2 DEF Calm
  <2> QED
    BY <1>1, <2>1, <2>2 DEF OutboxInv, EventOK, Enqueued, Undisturbed
<1> QED
  BY <1>9, <1>10, <1>12, <1>13 DEF OutboxInv

\* The event moves from the batch to the hands of the loop.
LEMMA DispatchEventInv ==
    ASSUME OutboxInv, NEW l \in Loops, NEW c \in loop[l].batch,
           NEW outcome \in Dispatches, DispatchEvent(l, c, outcome)
    PROVE  OutboxInv'
<1> DEFINE phase == IF outcome = "thrown" THEN "markFailed" ELSE "markDelivered"
           rest == loop[l].batch \ {c}
           r == [loop[l] EXCEPT !.phase = phase, !.batch = rest, !.current = c]
<1>1. /\ loop[l].phase = "batch" /\ loop' = [loop EXCEPT ![l] = r]
      /\ SinksSee(c.id, outcome)
      /\ sent \cup skipped \subseteq sent' \cup skipped'
      /\ UNCHANGED <<status, attempts, due, lockOld, request, requeues, slow,
                     crashes, lost>>
  BY DEF DispatchEvent, SinksSee
<1>2. /\ TypeOK /\ loop[l] \in LoopStates /\ c \in Claimed /\ c # NoEvent
      /\ c.id \in Events /\ rest \subseteq Claimed
  BY LoopFields, OutboxAssumption DEF OutboxInv, TypeOK, Claimed
<1>3. /\ loop[l].ids = {} /\ loop[l].current = NoEvent
      /\ \A a, b \in loop[l].batch : a.id = b.id => a = b
  BY <1>1 DEF OutboxInv, LoopOK
<1>4. phase \in Phases /\ phase \in {"markDelivered", "markFailed"}
  BY DEF Phases
<1>5. \A d \in rest : d \in loop[l].batch /\ d # c
  OBVIOUS
<1>6. loop[l].batch = rest \cup {c}
  OBVIOUS
<1>7. phase = "markDelivered" => c.id \in sent' \cup skipped'
  BY <1>1 DEF Dispatches, SinksSee
<1> HIDE DEF phase, rest
<1>8. r \in LoopStates
  BY <1>2, <1>4, Zenon DEF LoopStates
<1>9. /\ r.phase = phase /\ r.ids = loop[l].ids /\ r.batch = rest
      /\ r.current = c
  BY <1>2, Zenon DEF LoopStates
<1> HIDE DEF r
<1>10. /\ loop' \in [Loops -> LoopStates] /\ loop'[l] = r
       /\ \A k \in Loops \ {l} : /\ loop'[k] = loop[k]
                                 /\ Holds(k)' = Holds(k)
                                 /\ Copies(k)' = Copies(k)
  BY <1>1, <1>2, <1>8, OneLoop
<1>11. TypeOK'
  <2>1. sent' \subseteq Events /\ skipped' \subseteq Events
    BY <1>1, <1>2 DEF TypeOK, SinksSee
  <2> QED
    BY <1>1, <1>2, <1>10, <2>1 DEF TypeOK
<1>12. ASSUME NEW k \in Loops PROVE LoopOK(k)'
  <2>1. CASE k = l
    BY <2>1, <1>2, <1>3, <1>4, <1>5, <1>7, <1>9, <1>10 DEF LoopOK
  <2>2. CASE k # l
    BY <2>2, <1>1, <1>10, SameLoopOK DEF OutboxInv
  <2> QED
    BY <2>1, <2>2
<1>13. Copies(l)' = Copies(l) /\ Holds(l)' = Holds(l)
  <2>1. Copies(l)' = Copies(l)
    BY <1>2, <1>3, <1>6, <1>9, <1>10 DEF Copies
  <2>2. Holds(l) = loop[l].ids \cup {d.id : d \in Copies(l)}
    BY <1>2, HoldsCopies
  <2>3. Holds(l)' = loop'[l].ids \cup {d.id : d \in Copies(l)'}
    BY <1>11, HoldsCopies, <1>10, <1>9 DEF Holds, Copies
  <2> QED
    BY <1>9, <1>10, <2>1, <2>2, <2>3
<1>14. ASSUME NEW e \in Events PROVE EventOK(e)'
  <2>1. \A k \in Loops : Failing(k, e) => Failing(k, e)'
    BY <1>1, <1>10 DEF Failing
  <2>2. crashes' >= crashes
    BY <1>1, <1>2 DEF TypeOK
  <2>3. \A k \in Loops : Holds(k)' = Holds(k) /\ Copies(k)' = Copies(k)
    BY <1>10, <1>13
  <2> QED
    BY <1>1, <1>11, <2>1, <2>2, <2>3, Untouched
<1> QED
  BY <1>11, <1>12, <1>14 DEF OutboxInv

\* What a loop that marks an event has in hand.
LEMMA MarkerHolds ==
    ASSUME OutboxInv, NEW l \in Loops,
           loop[l].phase \in {"markDelivered", "markFailed"}
    PROVE  /\ loop[l].current \in Claimed /\ loop[l].current.id \in Events
           /\ loop[l].current.attempts \in Nat
           /\ loop[l].current.id \in Holds(l) /\ loop[l].current \in Copies(l)
           /\ status[loop[l].current.id] # "none"
           /\ loop[l].ids = {}
           /\ \A c \in loop[l].batch : c.id # loop[l].current.id
<1>1. /\ loop[l] \in LoopStates /\ loop[l].current # NoEvent
      /\ loop[l].ids = {}
      /\ \A c \in loop[l].batch : c.id # loop[l].current.id
  BY DEF OutboxInv, TypeOK, LoopOK
<1>2. loop[l].current \in Claimed
  BY <1>1, LoopFields
<1>3. /\ loop[l].current.id \in Events /\ loop[l].current.attempts \in Nat
      /\ loop[l].current.id \in Holds(l) /\ loop[l].current \in Copies(l)
  BY <1>1, <1>2 DEF Claimed, Holds, Copies
<1>4. status[loop[l].current.id] # "none"
  BY <1>3 DEF OutboxInv, EventOK, Enqueued
<1> QED
  BY <1>1, <1>2, <1>3, <1>4

\* The loop lets go of the event at hand, and of no other.
LEMMA NextEventOK ==
    ASSUME OutboxInv, NEW l \in Loops, NextEvent(l), UNCHANGED sinks,
           loop[l].phase \in {"markDelivered", "markFailed"}
    PROVE  /\ loop' \in [Loops -> LoopStates]
           /\ \A k \in Loops : LoopOK(k)'
           /\ \A k \in Loops \ {l} : /\ loop'[k] = loop[k]
                                     /\ Holds(k)' = Holds(k)
                                     /\ Copies(k)' = Copies(k)
           /\ Holds(l)' = Holds(l) \ {loop[l].current.id}
           /\ Copies(l)' \subseteq Copies(l)
           /\ \A c \in Copies(l)' : c.id # loop[l].current.id
<1> DEFINE r == [loop[l] EXCEPT !.phase = "batch", !.current = NoEvent]
           s == IF loop[l].batch = {} THEN IdleLoop ELSE r
<1>1. loop' = [loop EXCEPT ![l] = s]
  BY DEF NextEvent
<1>2. /\ TypeOK /\ loop[l] \in LoopStates /\ loop[l].batch \subseteq Claimed
      /\ loop[l].current \in Claimed /\ loop[l].ids = {}
      /\ loop[l].current # NoEvent
      /\ \A c \in loop[l].batch : c.id # loop[l].current.id
      /\ \A c, d \in loop[l].batch : c.id = d.id => c = d
  BY MarkerHolds, LoopFields, OutboxAssumption DEF OutboxInv, TypeOK, LoopOK
<1>3. r \in LoopStates
  <2>1. "batch" \in Phases
    BY DEF Phases
  <2> QED
    BY <1>2, <2>1, Zenon DEF LoopStates
<1>4. /\ r.phase = "batch" /\ r.ids = loop[l].ids /\ r.batch = loop[l].batch
      /\ r.current = NoEvent
  BY <1>2, Zenon DEF LoopStates
<1> HIDE DEF r
<1>5. /\ s \in LoopStates /\ s.phase \in {"idle", "batch"} /\ s.ids = {}
      /\ s.batch = loop[l].batch /\ s.current = NoEvent
      /\ s.phase = "idle" => s.batch = {}
  BY <1>2, <1>3, <1>4, IdleLoopOK
<1> HIDE DEF s
<1>6. /\ loop' \in [Loops -> LoopStates] /\ loop'[l] = s
      /\ \A k \in Loops \ {l} : /\ loop'[k] = loop[k]
                                /\ Holds(k)' = Holds(k)
                                /\ Copies(k)' = Copies(k)
  BY <1>1, <1>2, <1>5, OneLoop
<1>7. ASSUME NEW k \in Loops PROVE LoopOK(k)'
  <2>1. CASE k = l
    BY <2>1, <1>2, <1>5, <1>6 DEF LoopOK
  <2>2. CASE k # l
    BY <2>2, <1>6, SameLoopOK DEF OutboxInv
  <2> QED
    BY <2>1, <2>2
<1>8. Copies(l)' = loop[l].batch /\ Copies(l)' \subseteq Copies(l)
  BY <1>5, <1>6 DEF Copies
<1>9. Holds(l)' = Holds(l) \ {loop[l].current.id}
  <2>1. Holds(l)' = {c.id : c \in loop[l].batch}
    BY <1>5, <1>6 DEF Holds
  <2>2. Holds(l) = {c.id : c \in loop[l].batch} \cup {loop[l].current.id}
    BY <1>2 DEF Holds
  <2> QED
    BY <1>2, <2>1, <2>2
<1> QED
  BY <1>2, <1>6, <1>7, <1>8, <1>9

\* The row of the event at hand is written by its id, and the loop goes on.
LEMMA WriteBackInv ==
    ASSUME OutboxInv, NEW l \in Loops,
           loop[l].phase \in {"markDelivered", "markFailed"},
           NEW new \in {"delivered", "failed", "dead_letter"},
           new = "failed" => loop[l].current.attempts < MaxAttempts,
           SetStatus(loop[l].current.id, new), NextEvent(l),
           lockOld' = lockOld \ {loop[l].current.id}, due' \subseteq Events,
           UNCHANGED <<attempts, request, sinks, requeues, slow, crashes, lost>>
    PROVE  OutboxInv'
<1> DEFINE c == loop[l].current
           x == c.id
<1>1. /\ x \in Events /\ c.attempts \in Nat /\ x \in Holds(l)
      /\ c \in Copies(l) /\ status[x] # "none"
  BY MarkerHolds
<1>2. /\ loop' \in [Loops -> LoopStates]
      /\ \A k \in Loops : LoopOK(k)'
      /\ \A k \in Loops \ {l} : /\ loop'[k] = loop[k]
                                /\ Holds(k)' = Holds(k)
                                /\ Copies(k)' = Copies(k)
      /\ Holds(l)' = Holds(l) \ {x} /\ Copies(l)' \subseteq Copies(l)
      /\ \A d \in Copies(l)' : d.id # x
  BY NextEventOK
<1>3. \A e \in Events, k \in Loops : e # x /\ Failing(k, e) => Failing(k, e)'
  BY <1>2 DEF Failing
<1> HIDE DEF c
<1>4. /\ status' \in [Events -> Statuses]
      /\ \A e \in Events : e # x => status'[e] = status[e]
      /\ status'[x] = IF status[x] = "deleted" THEN "deleted" ELSE new
  BY <1>1 DEF SetStatus, OutboxInv, TypeOK, Statuses, c
<1>5. TypeOK'
  BY <1>2, <1>4 DEF OutboxInv, TypeOK
<1>6. ASSUME NEW e \in Events, e # x PROVE EventOK(e)'
  <2>1. crashes' >= crashes
    BY DEF OutboxInv, TypeOK
  <2>2. \A k \in Loops : e \in Holds(k)' <=> e \in Holds(k)
    BY <1>2, <1>6
  <2>3. \A k \in Loops : \A d \in Copies(k)' : d \in Copies(k)
    BY <1>2
  <2>4. /\ status'[e] = status[e] /\ attempts'[e] = attempts[e]
        /\ requeues'[e] = requeues[e] /\ slow \subseteq slow'
        /\ (e \in lockOld' => e \in lockOld) /\ (e \in lost => e \in lost')
        /\ request' = request
    BY <1>4, <1>6
  <2> QED
    BY <1>3, <1>5, <1>6, <2>1, <2>2, <2>3, <2>4, Untouched
<1>7. ASSUME NEW e \in Events, e = x PROVE EventOK(e)'
  <2>1. EventOK(e) /\ e \in Holds(l)
    BY <1>1, <1>7 DEF OutboxInv
  <2>2. status'[e] # "none" /\ status'[e] # "pending" /\ status'[e] # "processing"
    BY <1>4, <1>7
  <2>3. ASSUME Calm(e) PROVE Calm(e)'
    <3>1. \A k \in Loops : e \notin Holds(k)'
      BY <1>2, <1>7, <2>1, <2>3 DEF Calm
    <3>2. \A k \in Loops : \A d \in Copies(k)' : d.id # e
      BY <1>5, <3>1, HoldsCopies DEF Holds, Copies
    <3>3. c.attempts = attempts[e] /\ attempts'[e] = attempts[e]
      BY <1>1, <1>7, <2>3 DEF Calm
    <3>4. \A r \in Requests :
             /\ e \in request'[r].ids /\ request'[r].op = "requeue"
             /\ requeues'[e] = 0
             => status'[e] \in {"dead_letter", "deleted"}
      BY <1>4, <1>7, <2>1, <2>3 DEF Calm, HeldRow
    <3>5. status'[e] = "failed" => attempts'[e] < MaxAttempts
      BY <1>4, <1>7, <3>3 DEF c
    <3>6. attempts'[e] <= MaxAttempts + crashes'
      BY <2>3 DEF Calm
    <3> QED
      BY <2>2, <3>1, <3>2, <3>4, <3>5, <3>6 DEF Calm
  <2>4. Undisturbed(e)' => Undisturbed(e)
    BY DEF Undisturbed
  <2> QED
    BY <2>1, <2>2, <2>3, <2>4 DEF EventOK, Enqueued
<1> QED
  BY <1>2, <1>5, <1>6, <1>7 DEF OutboxInv

LEMMA MarkDeliveredInv ==
    ASSUME OutboxInv, NEW l \in Loops, MarkDelivered(l) PROVE OutboxInv'
<1>1. due' \subseteq Events
  BY DEF MarkDelivered, OutboxInv, TypeOK
<1> QED
  BY <1>1, WriteBackInv DEF MarkDelivered

LEMMA MarkFailedInv ==
    ASSUME OutboxInv, NEW l \in Loops, MarkFailed(l) PROVE OutboxInv'
<1> DEFINE c == loop[l].current
<1>1. /\ loop[l].phase = "markFailed" /\ SetStatus(c.id, FailedStatus(c))
      /\ lockOld' = lockOld \ {c.id} /\ NextEvent(l)
      /\ due' = due \cup {c.id} \/ due' = due \ {c.id}
      /\ UNCHANGED <<attempts, request, sinks, requeues, slow, crashes, lost>>
  BY DEF MarkFailed
<1>2. c.id \in Events /\ c.attempts \in Nat
  BY <1>1, MarkerHolds
<1>3. due' \subseteq Events
  BY <1>1, <1>2 DEF OutboxInv, TypeOK
<1>4. /\ FailedStatus(c) \in {"delivered", "failed", "dead_letter"}
      /\ FailedStatus(c) = "failed" => c.attempts < MaxAttempts
  BY <1>2, OutboxAssumption DEF FailedStatus
<1> QED
  BY <1>1, <1>3, <1>4, WriteBackInv

\* The loop keeps the event, whose row may say "delivered" by now.
LEMMA MarkDeliveredThrowsInv ==
    ASSUME OutboxInv, NEW l \in Loops, NEW written \in BOOLEAN,
           MarkDeliveredThrows(l, written)
    PROVE  OutboxInv'
<1> DEFINE x == loop[l].current.id
           r == [loop[l] EXCEPT !.phase = "markFailed"]
<1>1. /\ loop[l].phase = "markDelivered" /\ lost' = lost \cup {x}
      /\ loop' = [loop EXCEPT ![l] = r]
      /\ lockOld' \subseteq lockOld
      /\ \A e \in Events : e # x /\ e \in lockOld => e \in lockOld'
      /\ UNCHANGED <<attempts, due, request, sinks, requeues, slow, crashes>>
      /\ (SetStatus(x, "delivered") \/ UNCHANGED status)
  BY DEF MarkDeliveredThrows
<1>2. /\ TypeOK /\ loop[l] \in LoopStates /\ x \in Events /\ x \in Holds(l)
      /\ loop[l].current # NoEvent /\ loop[l].ids = {}
      /\ \A d \in loop[l].batch : d.id # x
      /\ \A a, b \in loop[l].batch : a.id = b.id => a = b
      /\ status[x] # "none"
  BY <1>1, MarkerHolds DEF OutboxInv, TypeOK, LoopOK
<1>3. r \in LoopStates
  <2>1. "markFailed" \in Phases
    BY DEF Phases
  <2> QED
    BY <1>2, <2>1, Zenon DEF LoopStates
<1>4. /\ r.phase = "markFailed" /\ r.ids = loop[l].ids
      /\ r.batch = loop[l].batch /\ r.current = loop[l].current
  BY <1>2, Zenon DEF LoopStates
<1> HIDE DEF r
<1>5. /\ loop' \in [Loops -> LoopStates] /\ loop'[l] = r
      /\ \A k \in Loops \ {l} : /\ loop'[k] = loop[k]
                                /\ Holds(k)' = Holds(k)
                                /\ Copies(k)' = Copies(k)
  BY <1>1, <1>2, <1>3, OneLoop
<1>6. /\ status' \in [Events -> Statuses]
      /\ \A e \in Events : e # x => status'[e] = status[e]
      /\ status'[x] = status[x] \/ (status[x] # "deleted" /\ status'[x] = "delivered")
  BY <1>1, <1>2 DEF SetStatus, TypeOK, Statuses
<1>7. TypeOK'
  BY <1>1, <1>2, <1>5, <1>6 DEF TypeOK
<1>8. ASSUME NEW k \in Loops PROVE LoopOK(k)'
  <2>1. CASE k = l
    BY <2>1, <1>2, <1>4, <1>5 DEF LoopOK
  <2>2. CASE k # l
    BY <2>2, <1>1, <1>5, SameLoopOK DEF OutboxInv
  <2> QED
    BY <2>1, <2>2
<1>9. \A k \in Loops : Holds(k)' = Holds(k) /\ Copies(k)' = Copies(k)
  BY <1>4, <1>5 DEF Holds, Copies
<1>10. \A k \in Loops, e \in Events : Failing(k, e) => Failing(k, e)'
  BY <1>1, <1>5 DEF Failing
<1>11. ASSUME NEW e \in Events, e # x PROVE EventOK(e)'
  <2>1. crashes' >= crashes
    BY <1>1, <1>2 DEF TypeOK
  <2>2. /\ status'[e] = status[e] /\ attempts'[e] = attempts[e]
        /\ requeues'[e] = requeues[e] /\ slow \subseteq slow'
        /\ (e \in lockOld' => e \in lockOld) /\ (e \in lost => e \in lost')
        /\ request' = request
    BY <1>1, <1>6, <1>11
  <2> HIDE DEF x
  <2> QED
    BY <1>7, <1>9, <1>10, <2>1, <2>2, Untouched
<1>12. ASSUME NEW e \in Events, e = x PROVE EventOK(e)'
  <2>1. EventOK(e) /\ e \in Holds(l) /\ Failing(l, e)' /\ ~Failing(l, e)
    BY <1>1, <1>2, <1>4, <1>5, <1>12 DEF OutboxInv, Failing
  <2>2. status'[e] # "none"
    BY <1>2, <1>6, <1>12
  <2>3. ASSUME Calm(e) PROVE Calm(e)'
    <3>1. \A k \in Loops : e \in Holds(k) => k = l
      BY <2>1, <2>3 DEF Calm
    <3>2. status[e] = "deleted" \/ (status[e] = "processing" /\ e \notin lockOld)
      BY <2>1, <2>3 DEF Calm, HeldRow
    <3>3. HeldRow(l, e)'
      BY <1>1, <1>6, <1>12, <2>1, <3>2 DEF HeldRow
    <3>4. \A k \in Loops : e \in Holds(k)' => HeldRow(k, e)'
      BY <1>9, <3>1, <3>3
    <3>5. \A k \in Loops : \A c \in Copies(k)' : c.id = e => c.attempts = attempts'[e]
      BY <1>1, <1>9, <2>3 DEF Calm
    <3>6. \A q \in Requests :
             /\ e \in request'[q].ids /\ request'[q].op = "requeue"
             /\ requeues'[e] = 0
             => status'[e] \in {"dead_letter", "deleted"}
      BY <1>1, <1>6, <1>12, <2>3, <3>2 DEF Calm
    <3>7. status'[e] \notin {"none", "pending", "failed"}
      BY <1>6, <1>12, <3>2
    <3>8. attempts'[e] <= MaxAttempts + crashes'
      BY <1>1, <2>3 DEF Calm
    <3> QED
      BY <1>9, <2>1, <2>3, <3>4, <3>5, <3>6, <3>7, <3>8 DEF Calm
  <2>4. Undisturbed(e)' => Undisturbed(e)
    BY <1>1 DEF Undisturbed
  <2> QED
    BY <2>1, <2>2, <2>3, <2>4 DEF EventOK, Enqueued
<1> QED
  BY <1>7, <1>8, <1>11, <1>12 DEF OutboxInv

\* Every event that a dead loop has held may cost one attempt more.
LEMMA LoopDiesInv ==
    ASSUME OutboxInv, NEW l \in Loops, LoopDies(l) PROVE OutboxInv'
<1>1. /\ loop' = [loop EXCEPT ![l] = IdleLoop] /\ crashes' = crashes + 1
      /\ UNCHANGED <<status, attempts, due, lockOld, request, sinks, requeues,
                     slow, lost>>
  BY DEF LoopDies
<1>2. TypeOK /\ crashes \in Nat /\ MaxAttempts \in Nat
  BY OutboxAssumption DEF OutboxInv, TypeOK
<1>3. /\ loop' \in [Loops -> LoopStates] /\ loop'[l] = IdleLoop
      /\ \A k \in Loops \ {l} : /\ loop'[k] = loop[k]
                                /\ Holds(k)' = Holds(k)
                                /\ Copies(k)' = Copies(k)
  BY <1>1, <1>2, IdleLoopOK, OneLoop
<1>4. TypeOK'
  BY <1>1, <1>2, <1>3 DEF TypeOK
<1>5. ASSUME NEW k \in Loops PROVE LoopOK(k)'
  <2>1. CASE k = l
    BY <2>1, <1>3, IdleLoopOK DEF LoopOK
  <2>2. CASE k # l
    BY <2>2, <1>1, <1>3, SameLoopOK DEF OutboxInv
  <2> QED
    BY <2>1, <2>2
<1>6. Holds(l)' = {} /\ Copies(l)' = {}
  BY <1>3, IdleLoopOK DEF Holds, Copies
<1>7. ASSUME NEW e \in Events PROVE EventOK(e)'
  <2>1. EventOK(e) /\ attempts[e] \in Nat
    BY <1>2 DEF OutboxInv, TypeOK
  <2>2. \A k \in Loops : e \in Holds(k)' => k # l /\ e \in Holds(k)
    BY <1>3, <1>6
  <2>3. ASSUME Calm(e) PROVE Calm(e)'
    <3>1. \A k \in Loops : e \in Holds(k)' => HeldRow(k, e)'
      BY <1>1, <1>3, <2>2, <2>3 DEF Calm, HeldRow, Failing
    <3>2. \A k \in Loops : \A c \in Copies(k)' :
             c.id = e => c.attempts = attempts'[e]
      BY <1>1, <1>3, <1>6, <2>3 DEF Calm
    <3>3. /\ attempts'[e] < MaxAttempts + crashes'
          /\ attempts'[e] <= MaxAttempts + crashes'
      BY <1>1, <1>2, <2>1, <2>3 DEF Calm
    <3> QED
      BY <1>1, <2>2, <2>3, <3>1, <3>2, <3>3 DEF Calm
  <2> QED
    BY <1>1, <2>1, <2>2, <2>3 DEF EventOK, Enqueued, Undisturbed
<1> QED
  BY <1>4, <1>5, <1>7 DEF OutboxInv

-----------------------------------------------------------------------------
(* Requests and the clock: the loops do not move.                            *)

LEMMA SameLoops ==
    ASSUME OutboxInv, UNCHANGED <<loop, sinks>>
    PROVE  /\ loop' \in [Loops -> LoopStates]
           /\ \A l \in Loops : /\ LoopOK(l)'
                               /\ Holds(l)' = Holds(l) /\ Copies(l)' = Copies(l)
           /\ \A l \in Loops, e \in Events : Failing(l, e)' <=> Failing(l, e)
  BY DEF OutboxInv, TypeOK, LoopOK, Holds, Copies, Failing

\* Only dead letters are chosen.
LEMMA AssertEligibleInv ==
    ASSUME OutboxInv, NEW q \in Requests, NEW op \in {"requeue", "delete"},
           NEW ids \in SUBSET Events, AssertEligible(q, op, ids)
    PROVE  OutboxInv'
<1>1. /\ request' = [request EXCEPT ![q] = [op |-> op, ids |-> ids]]
      /\ ids \subseteq Remediable /\ \A e \in ids : status[e] = "dead_letter"
      /\ UNCHANGED <<status, attempts, due, lockOld, loop, sinks, requeues,
                     slow, crashes, lost>>
  BY DEF AssertEligible
<1>2. /\ loop' \in [Loops -> LoopStates]
      /\ \A l \in Loops : /\ LoopOK(l)'
                          /\ Holds(l)' = Holds(l) /\ Copies(l)' = Copies(l)
      /\ \A l \in Loops, e \in Events : Failing(l, e)' <=> Failing(l, e)
  BY <1>1, SameLoops
<1>3. /\ request' \in [Requests -> [op: {"none", "requeue", "delete"},
                                    ids: SUBSET Remediable]]
      /\ request'[q].ids = ids
      /\ \A r \in Requests \ {q} : request'[r] = request[r]
  BY <1>1 DEF OutboxInv, TypeOK
<1>4. TypeOK'
  BY <1>1, <1>3 DEF OutboxInv, TypeOK
<1>5. ASSUME NEW e \in Events PROVE EventOK(e)'
  <2>1. EventOK(e)
    BY DEF OutboxInv
  <2>2. \A r \in Requests : e \in request'[r].ids =>
           \/ status[e] = "dead_letter"
           \/ e \in request[r].ids /\ request'[r].op = request[r].op
    BY <1>1, <1>3
  <2>3. ASSUME Calm(e) PROVE Calm(e)'
    <3>1. \A l \in Loops : e \in Holds(l)' => HeldRow(l, e)'
      BY <1>1, <1>2, <2>3 DEF Calm, HeldRow
    <3> QED
      BY <1>1, <1>2, <2>2, <2>3, <3>1 DEF Calm
  <2>4. Enqueued(e)'
    BY <1>1, <1>2, <2>1, <2>2 DEF EventOK, Enqueued
  <2> QED
    BY <1>1, <2>1, <2>3, <2>4 DEF EventOK, Undisturbed
<1> QED
  BY <1>2, <1>4, <1>5 DEF OutboxInv

\* The first requeue of an event that nothing disturbs finds it given up, so
\* that no loop holds it; after a second one it counts as disturbed.
LEMMA RequeueDeadLettersInv ==
    ASSUME OutboxInv, NEW q \in Requests, RequeueDeadLetters(q)
    PROVE  OutboxInv'
<1> DEFINE ids == {e \in request[q].ids : status[e] # "deleted"}
<1>1. /\ request[q].op = "requeue"
      /\ status' = [e \in Events |-> IF e \in ids THEN "failed" ELSE status[e]]
      /\ attempts' = [e \in Events |-> IF e \in ids THEN 0 ELSE attempts[e]]
      /\ due' = due \cup ids /\ lockOld' = lockOld \ ids
      /\ requeues' = [e \in Events |-> IF e \in ids THEN requeues[e] + 1
                                       ELSE requeues[e]]
      /\ request' = [request EXCEPT ![q] = IdleRequest]
      /\ UNCHANGED <<loop, sinks, slow, crashes, lost>>
  BY DEF RequeueDeadLetters
<1>2. /\ loop' \in [Loops -> LoopStates]
      /\ \A l \in Loops : /\ LoopOK(l)'
                          /\ Holds(l)' = Holds(l) /\ Copies(l)' = Copies(l)
      /\ \A l \in Loops, e \in Events : Failing(l, e)' <=> Failing(l, e)
  BY <1>1, SameLoops
<1>3. /\ request' \in [Requests -> [op: {"none", "requeue", "delete"},
                                    ids: SUBSET Remediable]]
      /\ request'[q].ids = {}
      /\ \A r \in Requests \ {q} : request'[r] = request[r]
  BY <1>1 DEF OutboxInv, TypeOK, IdleRequest
<1>4. ids \subseteq Events /\ ids \subseteq request[q].ids
  BY OutboxAssumption DEF OutboxInv, TypeOK
<1>5. \A e \in ids : status[e] # "deleted"
  OBVIOUS
<1> HIDE DEF ids
<1>6. TypeOK'
  <2>1. /\ status' \in [Events -> Statuses] /\ attempts' \in [Events -> Nat]
        /\ requeues' \in [Events -> Nat]
    BY <1>1 DEF OutboxInv, TypeOK, Statuses
  <2> QED
    BY <1>1, <1>2, <1>3, <1>4, <2>1 DEF OutboxInv, TypeOK
<1>7. ASSUME NEW e \in Events, e \notin ids PROVE EventOK(e)'
  <2>1. crashes' >= crashes
    BY <1>1 DEF OutboxInv, TypeOK
  <2>2. /\ status'[e] = status[e] /\ attempts'[e] = attempts[e]
        /\ requeues'[e] = requeues[e] /\ slow \subseteq slow'
        /\ (e \in lockOld' => e \in lockOld) /\ (e \in lost => e \in lost')
    BY <1>1, <1>7
  <2>3. \A r \in Requests : e \in request'[r].ids =>
           e \in request[r].ids /\ request'[r].op = request[r].op
    BY <1>3
  <2> QED
    BY <1>2, <1>6, <2>1, <2>2, <2>3, Untouched
<1>8. ASSUME NEW e \in ids PROVE EventOK(e)'
  <2>1. /\ e \in Events /\ status'[e] = "failed" /\ attempts'[e] = 0
        /\ requeues'[e] = requeues[e] + 1 /\ requeues[e] \in Nat
        /\ crashes \in Nat /\ MaxAttempts \in Nat \ {0} /\ EventOK(e)
    BY <1>1, <1>4, OutboxAssumption DEF OutboxInv, TypeOK
  <2>2. ASSUME Undisturbed(e)' PROVE Calm(e)'
    <3>1. requeues[e] = 0 /\ Calm(e)
      BY <1>1, <2>1, <2>2 DEF EventOK, Undisturbed
    <3>2. status[e] = "dead_letter"
      BY <1>1, <1>4, <1>5, <3>1 DEF Calm
    <3>3. \A l \in Loops : e \notin Holds(l)'
      BY <1>2, <3>1, <3>2 DEF Calm, HeldRow
    <3>4. \A l \in Loops : \A c \in Copies(l)' : c.id # e
      BY <1>6, <3>3, HoldsCopies DEF Holds, Copies
    <3> QED
      BY <1>1, <2>1, <3>3, <3>4 DEF Calm
  <2> QED
    BY <2>1, <2>2 DEF EventOK, Enqueued
<1> QED
  BY <1>2, <1>6, <1>7, <1>8 DEF OutboxInv

LEMMA DeleteDeadLettersInv ==
    ASSUME OutboxInv, NEW q \in Requests, DeleteDeadLetters(q)
    PROVE  OutboxInv'
<1> DEFINE ids == request[q].ids
<1>1. /\ status' = [e \in Events |-> IF e \in ids THEN "deleted" ELSE status[e]]
      /\ request' = [request EXCEPT ![q] = IdleRequest]
      /\ UNCHANGED <<attempts, due, lockOld, loop, sinks, requeues, slow,
                     crashes, lost>>
  BY DEF DeleteDeadLetters
<1> HIDE DEF ids
<1>2. /\ loop' \in [Loops -> LoopStates]
      /\ \A l \in Loops : /\ LoopOK(l)'
                          /\ Holds(l)' = Holds(l) /\ Copies(l)' = Copies(l)
      /\ \A l \in Loops, e \in Events : Failing(l, e)' <=> Failing(l, e)
  BY <1>1, SameLoops
<1>3. /\ request' \in [Requests -> [op: {"none", "requeue", "delete"},
                                    ids: SUBSET Remediable]]
      /\ request'[q].ids = {}
      /\ \A r \in Requests \ {q} : request'[r] = request[r]
  BY <1>1 DEF OutboxInv, TypeOK, IdleRequest
<1>4. TypeOK'
  <2>1. status' \in [Events -> Statuses]
    BY <1>1 DEF OutboxInv, TypeOK, Statuses
  <2> QED
    BY <1>1, <1>2, <1>3, <2>1 DEF OutboxInv, TypeOK
<1>5. ASSUME NEW e \in Events, e \notin ids PROVE EventOK(e)'
  <2>1. crashes' >= crashes
    BY <1>1 DEF OutboxInv, TypeOK
  <2>2. /\ status'[e] = status[e] /\ attempts'[e] = attempts[e]
        /\ requeues'[e] = requeues[e] /\ slow \subseteq slow'
        /\ (e \in lockOld' => e \in lockOld) /\ (e \in lost => e \in lost')
    BY <1>1, <1>5
  <2>3. \A r \in Requests : e \in request'[r].ids =>
           e \in request[r].ids /\ request'[r].op = request[r].op
    BY <1>3
  <2> QED
    BY <1>2, <1>4, <2>1, <2>2, <2>3, Untouched
<1>6. ASSUME NEW e \in Events, e \in ids PROVE EventOK(e)'
  <2>1. status'[e] = "deleted" /\ EventOK(e)
    BY <1>1, <1>6 DEF OutboxInv
  <2>2. ASSUME Calm(e) PROVE Calm(e)'
    <3>1. \A l \in Loops : e \in Holds(l)' => HeldRow(l, e)'
      BY <2>1 DEF HeldRow
    <3> QED
      BY <1>1, <1>2, <2>1, <2>2, <3>1 DEF Calm
  <2> QED
    BY <1>1, <2>1, <2>2 DEF EventOK, Enqueued, Undisturbed
<1> QED
  BY <1>2, <1>4, <1>5, <1>6 DEF OutboxInv

LEMMA RetryComesDueInv ==
    ASSUME OutboxInv, NEW e \in Events, RetryComesDue(e) PROVE OutboxInv'
<1>1. /\ due' = due \cup {e}
      /\ UNCHANGED <<status, attempts, lockOld, loop, request, sinks, requeues,
                     slow, crashes, lost>>
  BY DEF RetryComesDue
<1>2. TypeOK'
  BY <1>1 DEF OutboxInv, TypeOK
<1>3. \A l \in Loops : LoopOK(l)'
  BY <1>1, SameLoops
<1>4. \A d \in Events : EventOK(d)'
  BY <1>1 DEF OutboxInv, EventOK, Enqueued, Undisturbed, Calm, Holds, Copies,
              HeldRow, Failing
<1> QED
  BY <1>2, <1>3, <1>4 DEF OutboxInv

\* The lock of an event that a loop holds makes the event a disturbed one.
LEMMA LockExpiresInv ==
    ASSUME OutboxInv, NEW e \in Events, LockExpires(e) PROVE OutboxInv'
<1>1. /\ lockOld' = lockOld \cup {e} /\ slow \subseteq slow'
      /\ UNCHANGED <<status, attempts, due, loop, request, sinks, requeues,
                     crashes, lost>>
      /\ \/ (\A l \in Loops : e \notin Holds(l)) /\ slow' = slow
         \/ slow' = slow \cup {[id |-> e, attempts |-> attempts[e]]}
  BY DEF LockExpires
<1>2. [id |-> e, attempts |-> attempts[e]] \in Claimed
  BY DEF OutboxInv, TypeOK, Claimed
<1>3. /\ loop' \in [Loops -> LoopStates]
      /\ \A l \in Loops : /\ LoopOK(l)'
                          /\ Holds(l)' = Holds(l) /\ Copies(l)' = Copies(l)
      /\ \A l \in Loops, d \in Events : Failing(l, d)' <=> Failing(l, d)
  BY <1>1, SameLoops
<1>4. TypeOK'
  BY <1>1, <1>2, <1>3 DEF OutboxInv, TypeOK
<1>5. ASSUME NEW d \in Events, d # e PROVE EventOK(d)'
  <2>1. crashes' >= crashes
    BY <1>1 DEF OutboxInv, TypeOK
  <2> QED
    BY <1>1, <1>3, <1>4, <1>5, <2>1, Untouched
<1>6. EventOK(e)'
  <2>1. EventOK(e)
    BY DEF OutboxInv
  <2>2. ASSUME Undisturbed(e)' PROVE Calm(e)'
    <3>1. Undisturbed(e)
      BY <1>1, <2>2 DEF Undisturbed
    <3>2. \A l \in Loops : e \notin Holds(l)
      <4>1. [id |-> e, attempts |-> attempts[e]].id = e
        OBVIOUS
      <4>2. [id |-> e, attempts |-> attempts[e]] \notin slow'
        BY <2>2, <4>1 DEF Undisturbed
      <4> QED
        BY <1>1, <4>2
    <3>3. Calm(e)
      BY <2>1, <3>1 DEF EventOK
    <3> QED
      BY <1>1, <1>3, <3>2, <3>3 DEF Calm
  <2> QED
    BY <1>1, <1>3, <2>1, <2>2 DEF EventOK, Enqueued
<1> QED
  BY <1>3, <1>4, <1>5, <1>6 DEF OutboxInv

LEMMA NextInv == OutboxInv /\ [Next]_vars => OutboxInv'
<1> SUFFICES ASSUME OutboxInv, [Next]_vars PROVE OutboxInv'
  OBVIOUS
<1>1. ASSUME NEW l \in Loops, Dispatcher(l) PROVE OutboxInv'
  BY <1>1, ClaimDueBatchInv, ReloadClaimedInv, DispatchEventInv,
     MarkDeliveredInv, MarkDeliveredThrowsInv, MarkFailedInv DEF Dispatcher
<1>2. ASSUME NEW r \in Requests, Remediation(r) PROVE OutboxInv'
  BY <1>2, AssertEligibleInv, RequeueDeadLettersInv, DeleteDeadLettersInv
     DEF Remediation
<1>3. CASE UNCHANGED vars
  BY <1>3 DEF vars, OutboxInv, TypeOK, LoopOK, EventOK, Enqueued, Undisturbed,
              Calm, Holds, Copies, HeldRow, Failing
<1> QED
  BY <1>1, <1>2, <1>3, EnqueueInv, LoopDiesInv, RetryComesDueInv,
     LockExpiresInv DEF Next

LEMMA AlwaysOutboxInv == Spec => []OutboxInv
  BY InitInv, NextInv, PTL DEF Spec

\* The tables of the outbox and the variables of its loops stay well-formed,
\* for every number of events, loops and requests (OutboxService,
\* OutboxDispatcherService).
THEOREM OutboxTypeCorrect == Spec => []TypeOK
<1>1. OutboxInv => TypeOK
  BY DEF OutboxInv
<1> QED
  BY <1>1, AlwaysOutboxInv, PTL

\* An event is dispatched by one loop at a time, for every number of loops,
\* unless one has outlived its lock or the event is requeued twice: the claim
\* takes no row that another loop holds, although rows are written back by
\* their id alone (claimDueBatch, markDelivered, markFailed,
\* requeueDeadLetters).
THEOREM OneHolderOfAnEvent == Spec => []OneHolder
<1>1. OutboxInv => OneHolder
  BY DEF OutboxInv, EventOK, Calm, OneHolder
<1> QED
  BY <1>1, AlwaysOutboxInv, PTL

\* An event that nothing disturbs is claimed maxAttempts times at most, and
\* once more for every loop that has died: the loaded value by which markFailed
\* decides is the one in the row (claimDueBatch, markFailed).
THEOREM RetriesStayInBudget == Spec => []RetryBudget
<1>1. OutboxInv => RetryBudget
  BY DEF OutboxInv, EventOK, Calm, RetryBudget
<1> QED
  BY <1>1, AlwaysOutboxInv, PTL

-----------------------------------------------------------------------------
(* Every step is one of EventDelivery, or leaves what services see as it is. *)

Contested == {e \in Events : ~Undisturbed(e)} \cup lost

LEMMA StateSeen ==
    ASSUME NEW e \in Events
    PROVE  /\ status[e] = "none" => DeliveryState(e) = "unknown"
           /\ status[e] \in {"pending", "failed", "processing"} =>
                 DeliveryState(e) = "owed"
           /\ status[e] = "delivered" => DeliveryState(e) = "delivered"
           /\ status[e] = "dead_letter" => DeliveryState(e) = "givenUp"
           /\ status[e] = "deleted" => DeliveryState(e) = "removed"
  BY DEF DeliveryState

LEMMA StateSeenNext ==
    ASSUME NEW e \in Events
    PROVE  /\ status'[e] = "none" => DeliveryState(e)' = "unknown"
           /\ status'[e] \in {"pending", "failed", "processing"} =>
                 DeliveryState(e)' = "owed"
           /\ status'[e] = "delivered" => DeliveryState(e)' = "delivered"
           /\ status'[e] = "dead_letter" => DeliveryState(e)' = "givenUp"
           /\ status'[e] = "deleted" => DeliveryState(e)' = "removed"
  BY DEF DeliveryState

\* The steps of EventDelivery in terms of the outbox.
LEMMA SeenAccept ==
    ASSUME NEW e \in Events, DeliveryState(e) = "unknown",
           DeliveryState(e)' = "owed",
           \A d \in Events \ {e} : DeliveryState(d)' = DeliveryState(d),
           UNCHANGED sinks, Contested' = Contested
    PROVE  Delivery!DeliveryNext
  BY DEF Delivery!DeliveryNext, Delivery!Accept, Contested

LEMMA SeenTake ==
    ASSUME NEW e \in Events, DeliveryState(e) # "unknown",
           \A d \in Events : DeliveryState(d)' = DeliveryState(d),
           sent' = sent \cup {e}, skipped' = skipped \ {e}, Contested' = Contested
    PROVE  Delivery!DeliveryNext
  BY DEF Delivery!DeliveryNext, Delivery!Take, Contested

LEMMA SeenSkip ==
    ASSUME NEW e \in Events, DeliveryState(e) # "unknown",
           \A d \in Events : DeliveryState(d)' = DeliveryState(d),
           skipped' = (skipped \cup {e}) \ sent, sent' = sent,
           Contested' = Contested
    PROVE  Delivery!DeliveryNext
  BY DEF Delivery!DeliveryNext, Delivery!Skip, Contested

LEMMA SeenEnd ==
    ASSUME NEW e \in Events, DeliveryState(e) = "owed",
           \/ e \in sent \cup skipped /\ DeliveryState(e)' = "delivered"
           \/ DeliveryState(e)' = "givenUp",
           \A d \in Events \ {e} : DeliveryState(d)' = DeliveryState(d),
           UNCHANGED sinks, Contested' = Contested
    PROVE  Delivery!DeliveryNext
  BY DEF Delivery!DeliveryNext, Delivery!Deliver, Delivery!GiveUp, Contested

LEMMA SeenRequeue ==
    ASSUME NEW S \in SUBSET Events, Contested \subseteq Contested',
           Contested' \subseteq Contested \cup S,
           \A e \in S : /\ \/ DeliveryState(e) = "givenUp"
                           \/ /\ e \in Contested'
                              /\ DeliveryState(e) \in {"owed", "delivered"}
                        /\ DeliveryState(e)' = "owed",
           \A e \in Events \ S : DeliveryState(e)' = DeliveryState(e),
           UNCHANGED sinks
    PROVE  Delivery!DeliveryNext
<1> DEFINE again == Contested' \cap S
<1>1. again \in SUBSET S /\ Contested' = Contested \cup again
  OBVIOUS
<1> HIDE DEF again
<1>2. Delivery!Requeue(S, again)
  BY <1>1 DEF Delivery!Requeue, Contested
<1> QED
  BY <1>1, <1>2 DEF Delivery!DeliveryNext

LEMMA SeenRemove ==
    ASSUME NEW S \in SUBSET Events,
           \A e \in S : DeliveryState(e) # "unknown" /\ DeliveryState(e)' = "removed",
           \A e \in Events \ S : DeliveryState(e)' = DeliveryState(e),
           UNCHANGED sinks, Contested' = Contested
    PROVE  Delivery!DeliveryNext
  BY DEF Delivery!DeliveryNext, Delivery!Remove, Contested

LEMMA SeenContest ==
    ASSUME Contested \subseteq Contested', Contested' \subseteq Events,
           \A e \in Events :
              \/ DeliveryState(e)' = DeliveryState(e)
              \/ /\ e \in Contested'
                 /\ DeliveryState(e) \in {"owed", "delivered", "givenUp"}
                 /\ \/ DeliveryState(e)' \in {"owed", "givenUp"}
                    \/ e \in sent \cup skipped /\ DeliveryState(e)' = "delivered",
           UNCHANGED sinks
    PROVE  Delivery!DeliveryNext
<1> DEFINE S == Contested'
<1>1. S \in SUBSET Events /\ Contested' = Contested \cup S
  OBVIOUS
<1>2. Delivery!Contest(S)
  <2> HIDE DEF S
  <2> QED
    BY <1>1 DEF Delivery!Contest, Contested
<1> QED
  BY <1>1, <1>2 DEF Delivery!DeliveryNext

LEMMA SeenNothing ==
    ASSUME \A e \in Events : DeliveryState(e)' = DeliveryState(e),
           UNCHANGED sinks, Contested' = Contested
    PROVE  UNCHANGED Delivery!deliveryVars
  BY DEF Delivery!deliveryVars, Contested

\* A row that is written by its id: the end of an event, or one more write to
\* an event that is contested.
LEMMA WriteBackSeen ==
    ASSUME OutboxInv, NEW l \in Loops,
           loop[l].phase \in {"markDelivered", "markFailed"},
           NEW new \in {"delivered", "failed", "dead_letter"},
           new = "delivered" => loop[l].current.id \in sent \cup skipped,
           SetStatus(loop[l].current.id, new),
           UNCHANGED <<sinks, requeues, slow, lost>>
    PROVE  [Delivery!DeliveryNext]_Delivery!deliveryVars
<1>1. PICK x \in Events : /\ x = loop[l].current.id
                          /\ x \in Holds(l) /\ status[x] # "none"
  BY MarkerHolds
<1>2. new = "delivered" => x \in sent \cup skipped
  BY <1>1
<1>3. /\ \A e \in Events : e # x => status'[e] = status[e]
      /\ status'[x] = IF status[x] = "deleted" THEN "deleted" ELSE new
  BY <1>1 DEF SetStatus, OutboxInv, TypeOK
<1>4. Contested' = Contested /\ Contested \subseteq Events
  BY DEF Contested, Undisturbed, OutboxInv, TypeOK
<1>5. \A e \in Events \ {x} : DeliveryState(e)' = DeliveryState(e)
  BY <1>3 DEF DeliveryState
<1>6. CASE status[x] = "deleted"
  BY <1>1, <1>3, <1>4, <1>5, <1>6, StateSeen, StateSeenNext, SeenNothing
<1>7. CASE status[x] # "deleted" /\ x \in Contested
  <2>1. DeliveryState(x) \in {"owed", "delivered", "givenUp"}
    BY <1>1, <1>7, StateSeen DEF OutboxInv, TypeOK, Statuses
  <2>2. \/ DeliveryState(x)' \in {"owed", "givenUp"}
        \/ x \in sent \cup skipped /\ DeliveryState(x)' = "delivered"
    BY <1>1, <1>2, <1>3, <1>7, StateSeenNext
  <2> QED
    BY <1>4, <1>5, <1>7, <2>1, <2>2, SeenContest
<1>8. CASE status[x] # "deleted" /\ x \notin Contested
  <2>1. status[x] = "processing"
    BY <1>1, <1>8 DEF Contested, OutboxInv, EventOK, Calm, HeldRow
  <2>2. DeliveryState(x) = "owed"
    BY <1>1, <2>1, StateSeen
  <2>3. CASE new = "failed"
    <3>1. DeliveryState(x)' = "owed"
      BY <1>1, <1>3, <1>8, <2>3, StateSeenNext
    <3> QED
      BY <1>4, <1>5, <2>2, <3>1, SeenNothing
  <2>4. CASE new \in {"delivered", "dead_letter"}
    <3>1. \/ x \in sent \cup skipped /\ DeliveryState(x)' = "delivered"
          \/ DeliveryState(x)' = "givenUp"
      BY <1>1, <1>2, <1>3, <1>8, <2>4, StateSeenNext
    <3> QED
      BY <1>1, <1>4, <1>5, <2>2, <3>1, SeenEnd
  <2> QED
    BY <2>3, <2>4
<1> QED
  BY <1>6, <1>7, <1>8

LEMMA DispatcherSeen ==
    ASSUME OutboxInv, NEW l \in Loops, Dispatcher(l)
    PROVE  [Delivery!DeliveryNext]_Delivery!deliveryVars
<1>1. ASSUME NEW ids \in SUBSET Events, ClaimDueBatch(l, ids)
      PROVE  [Delivery!DeliveryNext]_Delivery!deliveryVars
  <2>1. /\ \A e \in Events : \/ status'[e] = status[e]
                             \/ Due(e) /\ status'[e] = "processing"
        /\ UNCHANGED <<sinks, requeues, slow, lost>>
    BY <1>1 DEF ClaimDueBatch
  <2>2. \A e \in Events : DeliveryState(e)' = DeliveryState(e)
    BY <2>1 DEF Due, DeliveryState
  <2>3. Contested' = Contested
    BY <2>1 DEF Contested, Undisturbed
  <2> QED
    BY <2>1, <2>2, <2>3, SeenNothing
<1>2. CASE ReloadClaimed(l)
  BY <1>2, SeenNothing
     DEF ReloadClaimed, Contested, Undisturbed, DeliveryState
<1>3. ASSUME NEW c \in loop[l].batch, NEW outcome \in Dispatches,
             DispatchEvent(l, c, outcome)
      PROVE  [Delivery!DeliveryNext]_Delivery!deliveryVars
  <2>1. /\ UNCHANGED <<status, requeues, slow, lost>>
        /\ \/ sent' = sent \cup {c.id} /\ skipped' = skipped \ {c.id}
           \/ skipped' = (skipped \cup {c.id}) \ sent /\ sent' = sent
           \/ UNCHANGED sinks
    BY <1>3 DEF DispatchEvent, SinksSee
  <2>2. /\ \A e \in Events : DeliveryState(e)' = DeliveryState(e)
        /\ Contested' = Contested
    BY <2>1 DEF DeliveryState, Contested, Undisturbed
  <2>3. c.id \in Events /\ c.id \in Holds(l)
    BY LoopFields DEF OutboxInv, TypeOK, Claimed, Holds
  <2>4. status[c.id] # "none"
    BY <2>3 DEF OutboxInv, EventOK, Enqueued
  <2>5. DeliveryState(c.id) # "unknown"
    BY <2>3, <2>4, StateSeen DEF OutboxInv, TypeOK, Statuses
  <2> QED
    BY <2>1, <2>2, <2>3, <2>5, SeenTake, SeenSkip, SeenNothing
<1>4. CASE MarkDelivered(l)
  <2>1. loop[l].phase = "markDelivered" /\ loop[l].current.id \in sent \cup skipped
    BY <1>4 DEF MarkDelivered, OutboxInv, LoopOK
  <2> QED
    BY <1>4, <2>1, WriteBackSeen DEF MarkDelivered
<1>5. ASSUME NEW written \in BOOLEAN, MarkDeliveredThrows(l, written)
      PROVE  [Delivery!DeliveryNext]_Delivery!deliveryVars
  <2>1. PICK x \in Events : x = loop[l].current.id /\ status[x] # "none"
    BY <1>5, MarkerHolds DEF MarkDeliveredThrows
  <2>2. /\ loop[l].phase = "markDelivered" /\ x \in sent \cup skipped
        /\ UNCHANGED <<sinks, requeues, slow>> /\ lost' = lost \cup {x}
        /\ SetStatus(x, "delivered") \/ UNCHANGED status
    BY <1>5, <2>1 DEF MarkDeliveredThrows, OutboxInv, LoopOK
  <2>3. /\ \A e \in Events : e # x => status'[e] = status[e]
        /\ \/ status'[x] = status[x]
           \/ status[x] # "deleted" /\ status'[x] = "delivered"
    BY <2>1, <2>2 DEF SetStatus, OutboxInv, TypeOK
  <2>4. /\ Contested \subseteq Contested' /\ Contested' \subseteq Events
        /\ x \in Contested'
    BY <2>1, <2>2 DEF Contested, Undisturbed, OutboxInv, TypeOK
  <2>5. \A e \in Events \ {x} : DeliveryState(e)' = DeliveryState(e)
    BY <2>3 DEF DeliveryState
  <2>6. \/ DeliveryState(x)' = DeliveryState(x)
        \/ /\ DeliveryState(x) \in {"owed", "delivered", "givenUp"}
           /\ DeliveryState(x)' = "delivered"
    <3>1. CASE status'[x] = status[x]
      BY <3>1 DEF DeliveryState
    <3>2. CASE status[x] # "deleted" /\ status'[x] = "delivered"
      BY <2>1, <3>2, StateSeen, StateSeenNext DEF OutboxInv, TypeOK, Statuses
    <3> QED
      BY <2>3, <3>1, <3>2
  <2> QED
    BY <2>2, <2>4, <2>5, <2>6, SeenContest
<1>6. CASE MarkFailed(l)
  <2>1. /\ loop[l].phase = "markFailed"
        /\ SetStatus(loop[l].current.id, FailedStatus(loop[l].current))
        /\ UNCHANGED <<sinks, requeues, slow, lost>>
    BY <1>6 DEF MarkFailed
  <2>2. FailedStatus(loop[l].current) \in {"failed", "dead_letter"}
    BY DEF FailedStatus
  <2> HIDE DEF FailedStatus
  <2> QED
    BY <2>1, <2>2, WriteBackSeen
<1> QED
  BY <1>1, <1>2, <1>3, <1>4, <1>5, <1>6 DEF Dispatcher

LEMMA RemediationSeen ==
    ASSUME OutboxInv, NEW q \in Requests, Remediation(q)
    PROVE  [Delivery!DeliveryNext]_Delivery!deliveryVars
<1>1. /\ request[q].ids \subseteq Events
      /\ \A e \in request[q].ids : status[e] # "none" /\ e \in Events
  BY OutboxAssumption DEF OutboxInv, TypeOK, EventOK, Enqueued
<1>2. ASSUME NEW op \in {"requeue", "delete"}, NEW ids \in SUBSET Events,
             AssertEligible(q, op, ids)
      PROVE  [Delivery!DeliveryNext]_Delivery!deliveryVars
  BY <1>2, SeenNothing
     DEF AssertEligible, Contested, Undisturbed, DeliveryState
<1>3. CASE RequeueDeadLetters(q)
  <2> DEFINE ids == {e \in request[q].ids : status[e] # "deleted"}
  <2>1. /\ request[q].op = "requeue"
        /\ status' = [e \in Events |-> IF e \in ids THEN "failed" ELSE status[e]]
        /\ requeues' = [e \in Events |-> IF e \in ids THEN requeues[e] + 1
                                         ELSE requeues[e]]
        /\ UNCHANGED <<sinks, slow, lost>>
    BY <1>3 DEF RequeueDeadLetters
  <2>2. /\ ids \subseteq Events /\ ids \subseteq request[q].ids
        /\ \A e \in ids : status[e] # "none" /\ status[e] # "deleted"
    BY <1>1
  <2> HIDE DEF ids
  <2>3. /\ \A e \in ids : requeues'[e] = requeues[e] + 1 /\ status'[e] = "failed"
        /\ \A e \in Events \ ids :
              requeues'[e] = requeues[e] /\ status'[e] = status[e]
        /\ \A e \in Events : requeues[e] \in Nat
    BY <2>1, <2>2 DEF OutboxInv, TypeOK
  <2>4. /\ Contested \subseteq Contested' /\ Contested' \subseteq Contested \cup ids
    BY <2>1, <2>3 DEF Contested, Undisturbed
  <2>5. ASSUME NEW e \in ids
        PROVE  /\ \/ DeliveryState(e) = "givenUp"
                  \/ /\ e \in Contested'
                     /\ DeliveryState(e) \in {"owed", "delivered"}
               /\ DeliveryState(e)' = "owed"
    <3>1. DeliveryState(e)' = "owed"
      BY <2>2, <2>3, StateSeenNext
    <3>2. DeliveryState(e) \in {"owed", "delivered", "givenUp"}
      BY <2>2, StateSeen DEF OutboxInv, TypeOK, Statuses
    <3>3. ASSUME e \notin Contested' PROVE DeliveryState(e) = "givenUp"
      <4>1. Undisturbed(e) /\ requeues[e] = 0
        BY <2>1, <2>2, <2>3, <3>3 DEF Contested, Undisturbed
      <4>2. status[e] = "dead_letter"
        BY <2>1, <2>2, <4>1 DEF OutboxInv, EventOK, Calm
      <4> QED
        BY <2>2, <4>2, StateSeen
    <3> QED
      BY <3>1, <3>2, <3>3
  <2>6. \A e \in Events \ ids : DeliveryState(e)' = DeliveryState(e)
    BY <2>3 DEF DeliveryState
  <2> QED
    BY <2>1, <2>2, <2>4, <2>5, <2>6, SeenRequeue
<1>4. CASE DeleteDeadLetters(q)
  <2>1. /\ \A e \in request[q].ids : status'[e] = "deleted"
        /\ \A e \in Events \ request[q].ids : status'[e] = status[e]
        /\ UNCHANGED <<sinks, requeues, slow, lost>>
    BY <1>1, <1>4 DEF DeleteDeadLetters
  <2>2. \A e \in request[q].ids :
           DeliveryState(e) # "unknown" /\ DeliveryState(e)' = "removed"
    BY <1>1, <2>1, StateSeen, StateSeenNext DEF OutboxInv, TypeOK, Statuses
  <2>3. \A e \in Events \ request[q].ids : DeliveryState(e)' = DeliveryState(e)
    BY <2>1 DEF DeliveryState
  <2>4. Contested' = Contested
    BY <2>1 DEF Contested, Undisturbed
  <2> QED
    BY <1>1, <2>1, <2>2, <2>3, <2>4, SeenRemove
<1> QED
  BY <1>2, <1>3, <1>4 DEF Remediation

\* The outbox does nothing that EventDelivery does not allow: every step of a
\* loop, a request or the clock is one of its steps or changes nothing that
\* services see (OutboxService, OutboxDispatcherService).  What it promises to
\* do in the end is left to the model checker.
THEOREM OutboxImplementsDelivery == Spec => Delivery!DeliverySafe
<1>1. Init => Delivery!DeliveryInit
  <2> SUFFICES ASSUME Init PROVE Delivery!DeliveryInit
    OBVIOUS
  <2>1. \A e \in Events : DeliveryState(e) = "unknown" /\ Undisturbed(e)
    BY DEF Init, DeliveryState, Undisturbed
  <2> QED
    BY <2>1 DEF Init, Delivery!DeliveryInit
<1>2. OutboxInv /\ [Next]_vars => [Delivery!DeliveryNext]_Delivery!deliveryVars
  <2> SUFFICES ASSUME OutboxInv, [Next]_vars
               PROVE  [Delivery!DeliveryNext]_Delivery!deliveryVars
    OBVIOUS
  <2>1. ASSUME NEW e \in Events, Enqueue(e)
        PROVE  [Delivery!DeliveryNext]_Delivery!deliveryVars
    <3>1. /\ status[e] = "none" /\ status'[e] = "pending"
          /\ \A d \in Events \ {e} : status'[d] = status[d]
          /\ UNCHANGED <<sinks, requeues, slow, lost>>
      BY <2>1 DEF Enqueue, OutboxInv, TypeOK
    <3>2. DeliveryState(e) = "unknown" /\ DeliveryState(e)' = "owed"
      BY <3>1, StateSeen, StateSeenNext
    <3>3. /\ \A d \in Events \ {e} : DeliveryState(d)' = DeliveryState(d)
          /\ Contested' = Contested
      BY <3>1 DEF DeliveryState, Contested, Undisturbed
    <3> QED
      BY <3>1, <3>2, <3>3, SeenAccept
  <2>2. ASSUME NEW l \in Loops, LoopDies(l)
        PROVE  [Delivery!DeliveryNext]_Delivery!deliveryVars
    BY <2>2, SeenNothing DEF LoopDies, Contested, Undisturbed, DeliveryState
  <2>3. ASSUME NEW e \in Events, RetryComesDue(e)
        PROVE  [Delivery!DeliveryNext]_Delivery!deliveryVars
    BY <2>3, SeenNothing
       DEF RetryComesDue, Contested, Undisturbed, DeliveryState
  <2>4. ASSUME NEW e \in Events, LockExpires(e)
        PROVE  [Delivery!DeliveryNext]_Delivery!deliveryVars
    <3>1. /\ slow \subseteq slow' /\ UNCHANGED <<status, sinks, requeues, lost>>
      BY <2>4 DEF LockExpires
    <3>2. /\ \A d \in Events : DeliveryState(d)' = DeliveryState(d)
          /\ Contested \subseteq Contested' /\ Contested' \subseteq Events
      BY <3>1 DEF DeliveryState, Contested, Undisturbed, OutboxInv, TypeOK
    <3> QED
      BY <3>1, <3>2, SeenContest
  <2>5. CASE UNCHANGED vars
    BY <2>5, SeenNothing DEF vars, Contested, Undisturbed, DeliveryState
  <2> QED
    BY <2>1, <2>2, <2>3, <2>4, <2>5, DispatcherSeen, RemediationSeen DEF Next
<1> QED
  BY <1>1, <1>2, AlwaysOutboxInv, PTL DEF Spec, Delivery!DeliverySafe
=============================================================================
