----------------------------- MODULE AgentProofs -----------------------------
(***************************************************************************)
(* What holds between the control plane and an agent for every number of   *)
(* events, transmissions, requests, grants, tokens, processes and sockets: *)
(* an agent event is applied once at most, a revoked token is not brought  *)
(* back, and a process has one session of a node at most.                  *)
(***************************************************************************)
EXTENDS AgentEvents, NodeAccess, AgentConnections, TLAPS

-----------------------------------------------------------------------------
(* AgentEvents: the inductive invariant.                                     *)

Working == {"read", "insert", "apply"}

EvTypes == /\ EvTypeOK
           /\ applied \in [Events -> Nat] /\ mixed \in BOOLEAN

\* The register is the gate: the handler that has inserted an event is the
\* only one that will apply it, and it has not done so yet.
Gate ==
    /\ \A e \in Events : applied[e] <= 1
    /\ \A e \in Events : applied[e] > 0 => e \in registered
    /\ \A e \in Events, k \in 1 .. Tries : handler[e][k] = "apply" =>
          /\ e \in registered /\ applied[e] = 0
          /\ \A j \in 1 .. Tries : handler[e][j] = "apply" => j = k

\* An event is sent for the first time after all those before it.
InOrder ==
    /\ \A e \in Events : told[e] > 0 => \A d \in 1 .. e - 1 : told[d] > 0
    /\ \A e \in Events : e \in registered => told[e] > 0
    /\ \A e \in Events, k \in 1 .. Tries : handler[e][k] \in Working => told[e] > 0

\* As long as handlers run one after another and none fails, the event at hand
\* is the last one sent and has no answer, all others that were sent have one,
\* and what is registered and not at hand was applied.
OneByOne ==
    ~mixed =>
    /\ \A e, d \in Events, k, j \in 1 .. Tries :
          handler[e][k] \in Working /\ handler[d][j] \in Working
             => e = d /\ k = j
    /\ \A e \in Events, k \in 1 .. Tries : handler[e][k] \in Working =>
          /\ e \notin answered /\ applied[e] = 0
          /\ \A d \in Events : d > e => told[d] = 0
    /\ \A e \in Events : told[e] > 0 /\ e \notin answered =>
          \E k \in 1 .. Tries : handler[e][k] \in Working
    /\ \A e \in registered : applied[e] = 1 \/
          \E k \in 1 .. Tries : handler[e][k] = "apply"

EvInv == EvTypes /\ Gate /\ InOrder /\ OneByOne /\ AnsweredWasApplied

LEMMA EvInitInv == EvInit => EvInv
<1> SUFFICES ASSUME EvInit PROVE EvInv
  OBVIOUS
<1>1. \A e \in Events, k \in 1 .. Tries : handler[e][k] = "none"
  BY DEF EvInit
<1>2. \A e \in Events : told[e] = 0 /\ applied[e] = 0
  BY DEF EvInit
<1>3. EvTypes
  <2>1. 0 \in 0 .. Tries
    BY AgentEventsAssumption
  <2>2. told \in [Events -> 0 .. Tries] /\ applied \in [Events -> Nat]
    BY <2>1 DEF EvInit
  <2>3. stamp \in [Events -> Events]
    BY DEF EvInit
  <2>4. handler \in [Events -> [1 .. Tries -> {"none", "read", "insert", "apply", "over"}]]
    BY DEF EvInit
  <2> QED
    BY <2>2, <2>3, <2>4 DEF EvInit, EvTypes, EvTypeOK
<1>4. Gate /\ InOrder /\ OneByOne /\ AnsweredWasApplied
  BY <1>1, <1>2
     DEF EvInit, Gate, InOrder, OneByOne, AnsweredWasApplied, Working
<1> QED
  BY <1>3, <1>4 DEF EvInv

\* A handler goes on to a state, and every other handler stays where it is.
LEMMA HandlerStep ==
    ASSUME EvTypes, NEW e \in Events, NEW k \in 1 .. Tries,
           NEW s \in Working \cup {"over"},
           handler' = [handler EXCEPT ![e][k] = s]
    PROVE  /\ handler' \in [Events -> [1 .. Tries ->
                             {"none", "read", "insert", "apply", "over"}]]
           /\ handler'[e][k] = s
           /\ \A d \in Events, j \in 1 .. Tries :
                 d # e \/ j # k => handler'[d][j] = handler[d][j]
BY DEF EvTypes, EvTypeOK, Working

\* A new transmission: the handler of a message that arrives.
LEMMA HandleTaskMessageInv ==
    ASSUME EvInv, NEW e \in Events, HandleTaskMessage(e)
    PROVE  EvInv'
<1> DEFINE k == told[e] + 1
<1>1. /\ k \in 1 .. Tries /\ told[e] \in 0 .. Tries /\ Tries \in Nat
      /\ e \notin answered
  BY AgentEventsAssumption DEF EvInv, EvTypes, EvTypeOK, HandleTaskMessage
<1>2. /\ handler' \in [Events -> [1 .. Tries ->
                        {"none", "read", "insert", "apply", "over"}]]
      /\ handler'[e][k] = "read"
      /\ \A d \in Events, j \in 1 .. Tries :
            d # e \/ j # k => handler'[d][j] = handler[d][j]
  BY <1>1, HandlerStep DEF HandleTaskMessage, EvInv, Working
<1>3. /\ told' \in [Events -> 0 .. Tries] /\ told'[e] = k
      /\ \A d \in Events : d # e => told'[d] = told[d]
      /\ \A d \in Events : told[d] > 0 => told'[d] > 0
  BY <1>1 DEF HandleTaskMessage, EvInv, EvTypes, EvTypeOK
<1>4. /\ UNCHANGED <<stamp, registered, applied, answered>>
      /\ ~mixed' => ~mixed /\ ~Busy
  BY DEF HandleTaskMessage, EvInv, EvTypes
<1>5. EvTypes'
  BY <1>2, <1>3, <1>4 DEF HandleTaskMessage, EvInv, EvTypes, EvTypeOK, Busy
<1>6. Gate'
  BY <1>2, <1>4 DEF EvInv, Gate
<1>7. InOrder'
  <2>1. \A d \in Events : told'[d] > 0 => \A c \in 1 .. d - 1 : told'[c] > 0
    BY <1>1, <1>3, AgentEventsAssumption
       DEF HandleTaskMessage, EvInv, InOrder, Events
  <2>2. QED
    BY <2>1, <1>1, <1>2, <1>3, <1>4 DEF EvInv, InOrder
<1>8. OneByOne'
  <2> SUFFICES ASSUME ~mixed' PROVE OneByOne'
    BY DEF OneByOne
  <2>1. /\ ~mixed
        /\ \A d \in Events, j \in 1 .. Tries : handler[d][j] \notin Working
    BY <1>4 DEF Busy, Working
  <2>2. \A d \in Events : told[d] > 0 => d \in answered
    BY <2>1 DEF EvInv, OneByOne
  <2>3. told[e] = 0 /\ applied[e] = 0 /\ \A d \in Events : d > e => told[d] = 0
    <3>1. told[e] = 0
      BY <1>1, <2>2
    <3>2. applied[e] = 0
      BY <3>1 DEF EvInv, EvTypes, Gate, InOrder
    <3>3. ASSUME NEW d \in Events, d > e
          PROVE  told[d] = 0
      <4>1. told[d] \in 0 .. Tries
        BY DEF EvInv, EvTypes, EvTypeOK
      <4>2. e \in 1 .. d - 1
        BY <3>3, AgentEventsAssumption DEF Events
      <4>3. told[d] > 0 => told[e] > 0
        BY <4>2 DEF EvInv, InOrder
      <4> QED
        BY <3>1, <4>1, <4>3
    <3> QED
      BY <3>1, <3>2, <3>3
  <2>4. \A d \in Events, j \in 1 .. Tries :
           handler'[d][j] \in Working => d = e /\ j = k
    BY <2>1, <1>2
  <2>5. \A d \in Events : d > e => told'[d] = 0
    <3>1. \A d \in Events : d > e => d # e
      BY DEF Events
    <3> QED
      BY <3>1, <2>3, <1>3
  <2>6. \A d \in registered' : applied'[d] = 1 \/
           \E j \in 1 .. Tries : handler'[d][j] = "apply"
    <3>1. \A d \in registered : applied[d] = 1
      <4>1. registered \subseteq Events
        BY DEF EvInv, EvTypes, EvTypeOK
      <4> QED
        BY <2>1, <4>1 DEF EvInv, OneByOne, Working
    <3> QED
      BY <3>1, <1>4 DEF HandleTaskMessage
  <2>7. \A d \in Events : told'[d] > 0 /\ d \notin answered' =>
           \E j \in 1 .. Tries : handler'[d][j] \in Working
    BY <2>2, <1>1, <1>2, <1>3, <1>4 DEF Working
  <2>8. \A d \in Events, j \in 1 .. Tries : handler'[d][j] \in Working =>
           /\ d \notin answered' /\ applied'[d] = 0
           /\ \A c \in Events : c > d => told'[c] = 0
    BY <2>3, <2>4, <2>5, <1>1, <1>4 DEF HandleTaskMessage
  <2> QED
    BY <2>4, <2>6, <2>7, <2>8 DEF OneByOne
<1>9. AnsweredWasApplied'
  BY <1>4 DEF EvInv, AnsweredWasApplied
<1> QED
  BY <1>5, <1>6, <1>7, <1>8, <1>9 DEF EvInv

\* The facts about a handler at work that its steps rest on.
LEMMA AtWork ==
    ASSUME EvInv, NEW e \in Events, NEW k \in 1 .. Tries,
           handler[e][k] \in Working
    PROVE  /\ told[e] > 0 /\ registered \subseteq Events /\ answered \subseteq Events
           /\ ~mixed =>
                /\ e \notin answered /\ applied[e] = 0
                /\ \A d \in Events : d > e => told[d] = 0
                /\ \A d \in Events, j \in 1 .. Tries :
                      handler[d][j] \in Working => d = e /\ j = k
                /\ \A d \in Events : told[d] > 0 /\ d # e => d \in answered
                /\ handler[e][k] # "apply" =>
                      \A d \in registered : applied[d] = 1
<1>1. told[e] > 0 /\ registered \subseteq Events /\ answered \subseteq Events
  BY DEF EvInv, EvTypes, EvTypeOK, InOrder
<1> SUFFICES ASSUME ~mixed
             PROVE  /\ e \notin answered /\ applied[e] = 0
                    /\ \A d \in Events : d > e => told[d] = 0
                    /\ \A d \in Events, j \in 1 .. Tries :
                          handler[d][j] \in Working => d = e /\ j = k
                    /\ \A d \in Events : told[d] > 0 /\ d # e => d \in answered
                    /\ handler[e][k] # "apply" =>
                          \A d \in registered : applied[d] = 1
  BY <1>1
<1>2. /\ e \notin answered /\ applied[e] = 0
      /\ \A d \in Events : d > e => told[d] = 0
  BY DEF EvInv, OneByOne
<1>3. \A d \in Events, j \in 1 .. Tries :
         handler[d][j] \in Working => d = e /\ j = k
  BY DEF EvInv, OneByOne
<1>4. \A d \in Events : told[d] > 0 /\ d # e => d \in answered
  BY <1>3 DEF EvInv, OneByOne
<1>5. \A d \in registered :
         applied[d] = 1 \/ \E j \in 1 .. Tries : handler[d][j] = "apply"
  BY DEF EvInv, OneByOne
<1>6. handler[e][k] # "apply" => \A d \in registered : applied[d] = 1
  BY <1>1, <1>3, <1>5 DEF Working
<1> QED
  BY <1>2, <1>3, <1>4, <1>6

\* The SELECT of registerLifecycleEvent.  When handlers run one by one, no
\* event is found to be old: later ones were not sent, and this one is not
\* registered yet.
LEMMA ReadMaxSeqInv ==
    ASSUME EvInv, NEW e \in Events, NEW k \in 1 .. Tries, ReadMaxSeq(e, k)
    PROVE  EvInv'
<1>1. PICK s \in {"insert", "over"} :
         /\ handler' = [handler EXCEPT ![e][k] = s]
         /\ s = "over" => StaleSeq(e) /\ answered' = answered \cup {e}
         /\ s = "insert" => answered' = answered
  BY DEF ReadMaxSeq, AnswerAgent
<1>2. /\ handler[e][k] = "read"
      /\ UNCHANGED <<stamp, told, registered, applied, mixed>>
  BY DEF ReadMaxSeq
<1>3. /\ handler' \in [Events -> [1 .. Tries ->
                         {"none", "read", "insert", "apply", "over"}]]
      /\ handler'[e][k] = s
      /\ \A d \in Events, j \in 1 .. Tries :
            d # e \/ j # k => handler'[d][j] = handler[d][j]
  BY <1>1, HandlerStep DEF EvInv, Working
<1>4. ~mixed => s = "insert"
  <2> SUFFICES ASSUME ~mixed, NEW d \in registered, e <= d PROVE FALSE
    BY <1>1 DEF StaleSeq
  <2>1. d \in Events /\ told[d] > 0
    BY DEF EvInv, EvTypes, EvTypeOK, InOrder
  <2>2. d = e
    BY <2>1, <1>2, AtWork DEF Working, Events
  <2> QED
    BY <2>2, <1>2, AtWork DEF Working
<1>5. EvTypes'
  BY <1>1, <1>2, <1>3 DEF EvInv, EvTypes, EvTypeOK
<1>6. Gate'
  BY <1>2, <1>3 DEF EvInv, Gate
<1>7. InOrder'
  BY <1>2, <1>3 DEF EvInv, InOrder, Working
<1>8. OneByOne'
  <2> SUFFICES ASSUME ~mixed PROVE OneByOne'
    BY <1>2 DEF OneByOne
  <2>1. \A d \in Events, j \in 1 .. Tries :
           /\ handler'[d][j] \in Working <=> handler[d][j] \in Working
           /\ handler'[d][j] = "apply" <=> handler[d][j] = "apply"
    BY <1>2, <1>3, <1>4 DEF Working
  <2>2. /\ answered' = answered /\ told' = told
        /\ applied' = applied /\ registered' = registered
    BY <1>1, <1>2, <1>4
  <2>3. OneByOne /\ registered \subseteq Events
    BY DEF EvInv, EvTypes, EvTypeOK
  <2>4. \A d \in registered : applied[d] = 1 \/
           \E j \in 1 .. Tries : handler'[d][j] = "apply"
    BY <2>1, <2>3 DEF OneByOne
  <2> QED
    BY <2>1, <2>2, <2>3, <2>4 DEF OneByOne
<1>9. AnsweredWasApplied'
  BY <1>1, <1>2, <1>4 DEF EvInv, AnsweredWasApplied
<1> QED
  BY <1>5, <1>6, <1>7, <1>8, <1>9 DEF EvInv

\* A handler that is over when handlers run one by one leaves none at work.
LEMMA OverOneByOne ==
    ASSUME EvInv, NEW e \in Events, NEW k \in 1 .. Tries,
           handler[e][k] \in Working, handler' = [handler EXCEPT ![e][k] = "over"],
           answered' = answered \cup {e}, UNCHANGED <<told, registered, mixed>>,
           ~mixed => \A d \in registered : applied'[d] = 1
    PROVE  OneByOne'
<1>1. \A d \in Events, j \in 1 .. Tries :
         handler'[d][j] \in Working => handler[d][j] \in Working /\ ~(d = e /\ j = k)
  BY HandlerStep DEF EvInv, Working
<1>2. ~mixed => \A d \in Events, j \in 1 .. Tries : handler'[d][j] \notin Working
  BY <1>1, AtWork
<1> QED
  BY <1>2, AtWork DEF OneByOne

\* The INSERT of registerLifecycleEvent: the unique indexes let one handler of
\* an event through.
LEMMA SaveEventInv ==
    ASSUME EvInv, NEW e \in Events, NEW k \in 1 .. Tries, SaveEvent(e, k)
    PROVE  EvInv'
<1>1. /\ handler[e][k] = "insert" /\ handler[e][k] \in Working
      /\ UNCHANGED <<stamp, told, applied, mixed>>
  BY DEF SaveEvent, Working
<1>2. CASE IsDuplicate(e)
  <2>1. /\ handler' = [handler EXCEPT ![e][k] = "over"]
        /\ answered' = answered \cup {e} /\ registered' = registered
    BY <1>2 DEF SaveEvent, AnswerAgent
  <2>2. /\ handler' \in [Events -> [1 .. Tries ->
                           {"none", "read", "insert", "apply", "over"}]]
        /\ handler'[e][k] = "over"
        /\ \A d \in Events, j \in 1 .. Tries :
              d # e \/ j # k => handler'[d][j] = handler[d][j]
    BY <2>1, HandlerStep DEF EvInv
  <2>3. EvTypes'
    BY <1>1, <2>1, <2>2 DEF EvInv, EvTypes, EvTypeOK
  <2>4. Gate' /\ InOrder'
    BY <1>1, <2>1, <2>2 DEF EvInv, Gate, InOrder, Working
  <2>5. ~mixed => \A d \in registered : applied[d] = 1
    BY <1>1, AtWork
  <2>6. OneByOne'
    BY <1>1, <2>1, <2>5, OverOneByOne
  <2>7. AnsweredWasApplied'
    BY <1>1, <1>2, <2>1, <2>5, AtWork DEF EvInv, AnsweredWasApplied, IsDuplicate
  <2> QED
    BY <2>3, <2>4, <2>6, <2>7 DEF EvInv
<1>3. CASE ~IsDuplicate(e)
  <2>1. /\ handler' = [handler EXCEPT ![e][k] = "apply"]
        /\ registered' = registered \cup {e} /\ answered' = answered
    BY <1>3 DEF SaveEvent
  <2>2. /\ handler' \in [Events -> [1 .. Tries ->
                           {"none", "read", "insert", "apply", "over"}]]
        /\ handler'[e][k] = "apply"
        /\ \A d \in Events, j \in 1 .. Tries :
              d # e \/ j # k => handler'[d][j] = handler[d][j]
    BY <2>1, HandlerStep DEF EvInv, Working
  <2>3. /\ e \notin registered /\ applied[e] = 0
        /\ \A j \in 1 .. Tries : handler[e][j] # "apply"
    <3>1. e \notin registered
      BY <1>3 DEF IsDuplicate
    <3> QED
      BY <3>1 DEF EvInv, EvTypes, Gate
  <2>4. EvTypes'
    BY <1>1, <2>1, <2>2 DEF EvInv, EvTypes, EvTypeOK
  <2>5. Gate'
    BY <1>1, <2>1, <2>2, <2>3 DEF EvInv, Gate
  <2>6. InOrder'
    BY <1>1, <2>1, <2>2, AtWork DEF EvInv, InOrder, Working
  <2>7. OneByOne'
    <3> SUFFICES ASSUME ~mixed PROVE OneByOne'
      BY <1>1 DEF OneByOne
    <3>1. \A d \in Events, j \in 1 .. Tries :
             handler'[d][j] \in Working <=> d = e /\ j = k
      BY <1>1, <2>2, AtWork DEF Working
    <3>2. /\ e \notin answered /\ applied[e] = 0
          /\ \A d \in Events : d > e => told[d] = 0
          /\ \A d \in Events : told[d] > 0 /\ d # e => d \in answered
          /\ \A d \in registered : applied[d] = 1
      BY <1>1, AtWork
    <3>3. \A d \in registered' : applied'[d] = 1 \/
             \E j \in 1 .. Tries : handler'[d][j] = "apply"
      BY <1>1, <2>1, <2>2, <3>2
    <3>4. \A d \in Events, j \in 1 .. Tries : handler'[d][j] \in Working =>
             /\ d \notin answered' /\ applied'[d] = 0
             /\ \A c \in Events : c > d => told'[c] = 0
      BY <1>1, <2>1, <3>1, <3>2
    <3>5. \A d \in Events : told'[d] > 0 /\ d \notin answered' =>
             \E j \in 1 .. Tries : handler'[d][j] \in Working
      BY <1>1, <2>1, <3>1, <3>2
    <3> QED
      BY <3>1, <3>3, <3>4, <3>5 DEF OneByOne
  <2>8. AnsweredWasApplied'
    BY <1>1, <2>1 DEF EvInv, AnsweredWasApplied
  <2> QED
    BY <2>4, <2>5, <2>6, <2>7, <2>8 DEF EvInv
<1> QED
  BY <1>2, <1>3

\* The event is applied by the one handler that registered it.
LEMMA ApplyEventInv ==
    ASSUME EvInv, NEW e \in Events, NEW k \in 1 .. Tries, ApplyEvent(e, k)
    PROVE  EvInv'
<1>1. /\ handler[e][k] = "apply" /\ handler[e][k] \in Working
      /\ handler' = [handler EXCEPT ![e][k] = "over"]
      /\ answered' = answered \cup {e}
      /\ UNCHANGED <<stamp, told, registered, mixed>>
  BY DEF ApplyEvent, AnswerAgent, Working
<1>2. /\ handler' \in [Events -> [1 .. Tries ->
                         {"none", "read", "insert", "apply", "over"}]]
      /\ handler'[e][k] = "over"
      /\ \A d \in Events, j \in 1 .. Tries :
            d # e \/ j # k => handler'[d][j] = handler[d][j]
  BY <1>1, HandlerStep DEF EvInv
<1>3. /\ e \in registered /\ applied[e] = 0
      /\ \A j \in 1 .. Tries : handler[e][j] = "apply" => j = k
  BY <1>1 DEF EvInv, Gate
<1>4. /\ applied' \in [Events -> Nat] /\ applied'[e] = 1
      /\ \A d \in Events : d # e => applied'[d] = applied[d]
  BY <1>3 DEF ApplyEvent, EvInv, EvTypes
<1>5. EvTypes'
  BY <1>1, <1>2, <1>4 DEF EvInv, EvTypes, EvTypeOK
<1>6. Gate'
  BY <1>1, <1>2, <1>3, <1>4 DEF EvInv, Gate
<1>7. InOrder'
  BY <1>1, <1>2 DEF EvInv, InOrder, Working
<1>8. ~mixed => \A d \in registered : applied'[d] = 1
  <2> SUFFICES ASSUME ~mixed, NEW d \in registered, d # e PROVE applied'[d] = 1
    BY <1>4
  <2>1. d \in Events
    BY DEF EvInv, EvTypes, EvTypeOK
  <2>2. \A j \in 1 .. Tries : handler[d][j] # "apply"
    BY <1>1, <2>1, AtWork DEF Working
  <2>3. applied[d] = 1
    BY <2>2 DEF EvInv, OneByOne
  <2> QED
    BY <1>4, <2>1, <2>3
<1>9. OneByOne'
  BY <1>1, <1>8, OverOneByOne
<1>10. AnsweredWasApplied'
  <2> SUFFICES ASSUME ~mixed, NEW c \in answered'
               PROVE  \E d \in Events :
                         applied'[d] = 1 /\ (d = c \/ stamp'[d] = stamp'[c])
    BY <1>1 DEF AnsweredWasApplied
  <2>1. CASE c = e
    BY <2>1, <1>4
  <2>2. CASE c # e
    <3>1. c \in answered
      BY <2>2, <1>1
    <3>2. PICK d \in Events :
             applied[d] = 1 /\ (d = c \/ stamp[d] = stamp[c])
      BY <3>1 DEF EvInv, AnsweredWasApplied
    <3> QED
      BY <3>2, <1>1, <1>3, <1>4
  <2> QED
    BY <2>1, <2>2
<1> QED
  BY <1>5, <1>6, <1>7, <1>9, <1>10 DEF EvInv

\* A handler that fails ends the order of one by one; the register still lets
\* no second handler through.
LEMMA HandlerFailsInv ==
    ASSUME EvInv, NEW e \in Events, NEW k \in 1 .. Tries, HandlerFails(e, k)
    PROVE  EvInv'
<1>1. /\ handler' \in [Events -> [1 .. Tries ->
                         {"none", "read", "insert", "apply", "over"}]]
      /\ handler'[e][k] = "over"
      /\ \A d \in Events, j \in 1 .. Tries :
            d # e \/ j # k => handler'[d][j] = handler[d][j]
  BY HandlerStep DEF HandlerFails, EvInv
<1>2. EvTypes'
  BY <1>1 DEF HandlerFails, EvInv, EvTypes, EvTypeOK
<1>3. Gate' /\ InOrder'
  BY <1>1 DEF HandlerFails, EvInv, Gate, InOrder, Working
<1>4. OneByOne' /\ AnsweredWasApplied'
  BY DEF HandlerFails, OneByOne, AnsweredWasApplied
<1> QED
  BY <1>2, <1>3, <1>4 DEF EvInv

\* For every number of events and transmissions, registerLifecycleEvent makes
\* resending safe: each event is applied once at most, whatever overlaps or
\* fails, and unless handlers overlapped or failed an answered event was
\* applied or shares its timestamp with one that was.
THEOREM AgentEventHandledOnce == EvSpec => []HandledOnce
<1>1. EvInv /\ [EvNext]_evVars => EvInv'
  <2> SUFFICES ASSUME EvInv, [EvNext]_evVars PROVE EvInv'
    OBVIOUS
  <2>1. ASSUME NEW e \in Events, HandleTaskMessage(e) PROVE EvInv'
    BY <2>1, HandleTaskMessageInv
  <2>2. ASSUME NEW e \in Events, NEW k \in 1 .. Tries,
               \/ ReadMaxSeq(e, k) \/ SaveEvent(e, k)
               \/ ApplyEvent(e, k) \/ HandlerFails(e, k)
        PROVE  EvInv'
    BY <2>2, ReadMaxSeqInv, SaveEventInv, ApplyEventInv, HandlerFailsInv
  <2>3. CASE UNCHANGED evVars
    BY <2>3 DEF evVars, EvInv, EvTypes, EvTypeOK, Gate, InOrder, OneByOne,
                AnsweredWasApplied
  <2> QED
    BY <2>1, <2>2, <2>3 DEF EvNext
<1>2. EvInv => HandledOnce
  BY DEF EvInv, EvTypes, Gate, HandledOnce, AppliedOnce
<1> QED
  BY <1>1, <1>2, EvInitInv, PTL DEF EvSpec
-----------------------------------------------------------------------------
(* NodeAccess: the inductive invariant.                                      *)

Columns == TokenColumns \cup PlainColumns

\* Tokens that may stand in the row or in an entity that will be saved.
Live == (0 .. tokens) \ dead

EntityOK(ent, live) ==
    /\ DOMAIN ent \subseteq Columns
    /\ \A x \in DOMAIN ent :
          /\ x \in TokenColumns => ent[x] \in live
          /\ x \in {"profile", "applied"} => ent[x] \in Profiles
          /\ x = "grant" => ent[x] \in 0 .. MaxGrants
          /\ x = "sync" => ent[x] \in {"pending", "applied", "failed"}

\* Only an authentication and a registration have loaded the token columns.
CallOK(r, live) ==
    /\ DOMAIN r = {"pc", "op", "ent", "tok", "rep"}
    /\ r.tok \in 0 .. MaxTokens /\ r.rep.profile \in Profiles
    /\ EntityOK(r.ent, live)
    /\ r.op \in {"auth", "register"} \/ DOMAIN r.ent \cap TokenColumns = {}

HeldStates == [mine : 0 .. MaxTokens, offer : 0 .. MaxTokens,
               profile : Profiles, err : BOOLEAN]

AccessTypes ==
    /\ tokens \in 1 .. MaxTokens /\ grants \in 0 .. MaxGrants
    /\ past \subseteq 1 .. MaxGrants /\ lapsed \subseteq 1 .. MaxTokens
    /\ dead \subseteq 1 .. tokens /\ held \in HeldStates

RowOK == DOMAIN row = Columns /\ EntityOK(row, Live)

CallsOK == DOMAIN calls = Calls /\ \A c \in Calls : CallOK(calls[c], Live)

AccessInv == AccessTypes /\ RowOK /\ CallsOK

LEMMA AccessInitInv == AccessInit => AccessInv
<1> SUFFICES ASSUME AccessInit PROVE AccessInv
  OBVIOUS
<1>1. tokens = 1 /\ grants = 0 /\ past = {} /\ lapsed = {} /\ dead = {}
  BY DEF AccessInit
<1>2. 0 \in Live /\ 1 \in Live
  BY <1>1 DEF Live
<1>3. AccessTypes
  BY <1>1, AccessAssumption DEF AccessInit, AccessTypes, HeldStates
<1>4. RowOK
  BY <1>2, AccessAssumption
     DEF AccessInit, RowOK, EntityOK, Columns, TokenColumns, PlainColumns
<1>5. CallOK(NoCall, Live)
  BY AccessAssumption DEF CallOK, NoCall, NoEntity, NoReport, EntityOK
<1>6. CallsOK
  BY <1>5 DEF AccessInit, CallsOK
<1> QED
  BY <1>3, <1>4, <1>6 DEF AccessInv

\* The last step of every action: one call goes on or ends, the others keep
\* what they have, and no token has died.
LEMMA OneCall ==
    ASSUME CallsOK, NEW c \in Calls, NEW r, CallOK(r, Live'),
           calls' = [calls EXCEPT ![c] = r], Live \subseteq Live'
    PROVE  CallsOK'
<1>1. /\ DOMAIN calls' = Calls /\ calls'[c] = r
      /\ \A d \in Calls : d # c => calls'[d] = calls[d]
  BY DEF CallsOK
<1>2. \A d \in Calls : CallOK(calls[d], Live')
  BY DEF CallsOK, CallOK, EntityOK
<1> QED
  BY <1>1, <1>2 DEF CallsOK

LEMMA EndOK ==
    ASSUME CallsOK, NEW c \in Calls, End(c), Live \subseteq Live'
    PROVE  CallsOK'
<1>1. CallOK(NoCall, Live')
  BY AccessAssumption DEF CallOK, NoCall, NoEntity, NoReport, EntityOK
<1> QED
  BY <1>1, OneCall DEF End

\* The fields of a call after those that an operation changes.
LEMMA SaveOK ==
    ASSUME CallsOK, NEW c \in Calls, NEW op, NEW ent, Save(c, op, ent),
           EntityOK(ent, Live'), Live \subseteq Live',
           op \in {"auth", "register"} \/ DOMAIN ent \cap TokenColumns = {}
    PROVE  CallsOK'
<1> DEFINE r == [calls[c] EXCEPT !.pc = "select", !.op = op, !.ent = ent]
<1>1. calls' = [calls EXCEPT ![c] = r]
  BY DEF Save
<1>2. CallOK(calls[c], Live)
  BY DEF CallsOK
<1>3. /\ DOMAIN r = {"pc", "op", "ent", "tok", "rep"}
      /\ r.op = op /\ r.ent = ent /\ r.tok = calls[c].tok /\ r.rep = calls[c].rep
  BY <1>2, Zenon DEF CallOK
<1>4. CallOK(r, Live')
  BY <1>2, <1>3 DEF CallOK
<1> QED
  BY <1>1, <1>4, OneCall

\* What happens to the agent's state, field by field.
LEMMA HeldOK ==
    ASSUME NEW h \in HeldStates, NEW t \in 0 .. MaxTokens, NEW p \in Profiles
    PROVE  /\ [h EXCEPT !.offer = t] \in HeldStates
           /\ [h EXCEPT !.mine = t, !.offer = 0] \in HeldStates
           /\ [h EXCEPT !.profile = p, !.err = FALSE] \in HeldStates
           /\ [h EXCEPT !.err = TRUE] \in HeldStates
<1>1. 0 \in 0 .. MaxTokens
  BY AccessAssumption
<1> QED
  BY <1>1, Zenon DEF HeldStates

LEMMA PlainOK ==
    ASSUME RowOK
    PROVE  EntityOK(Plain, Live) /\ DOMAIN Plain \cap TokenColumns = {}
  BY DEF RowOK, EntityOK, Plain, Columns, PlainColumns, TokenColumns

\* Part of a loaded entity is one that may be saved.
LEMMA SaveSelectInv ==
    ASSUME AccessInv, NEW c \in Calls, SaveSelect(c) PROVE AccessInv'
<1> DEFINE ent == calls[c].ent
           rest == [x \in {y \in DOMAIN ent : ent[y] # row[y]} |-> ent[x]]
           r == [calls[c] EXCEPT !.pc = "update", !.ent = rest]
<1>1. /\ calls' = [calls EXCEPT ![c] = r]
      /\ UNCHANGED <<row, held, past, lapsed, grants, tokens, dead>>
  BY DEF SaveSelect, history
<1>2. AccessTypes' /\ RowOK' /\ Live' = Live
  BY <1>1 DEF AccessInv, AccessTypes, RowOK, Live
<1>3. CallOK(calls[c], Live)
  BY DEF AccessInv, CallsOK
<1>4. /\ DOMAIN r = {"pc", "op", "ent", "tok", "rep"}
      /\ r.op = calls[c].op /\ r.ent = rest
      /\ r.tok = calls[c].tok /\ r.rep = calls[c].rep
  <2> HIDE DEF rest
  <2> QED
    BY <1>3, Zenon DEF CallOK
<1>5. /\ DOMAIN rest \subseteq DOMAIN ent
      /\ \A x \in DOMAIN rest : rest[x] = ent[x]
  OBVIOUS
<1> HIDE DEF rest
<1>6. EntityOK(rest, Live)
  BY <1>3, <1>5 DEF CallOK, EntityOK
<1>7. CallOK(r, Live)
  BY <1>3, <1>4, <1>5, <1>6 DEF CallOK
<1> QED
  BY <1>1, <1>2, <1>7, OneCall DEF AccessInv

\* The entity is as good as the row, and what comes after the save has no token
\* columns.
LEMMA SaveUpdateInv ==
    ASSUME AccessInv, NEW c \in Calls, SaveUpdate(c) PROVE AccessInv'
<1>1. /\ row' = Over(calls[c].ent, row) /\ Continue(c)
      /\ UNCHANGED <<past, lapsed, grants, tokens, dead>>
  BY DEF SaveUpdate, history
<1>2. Live' = Live
  BY <1>1 DEF Live
<1>3. CallOK(calls[c], Live)
  BY DEF AccessInv, CallsOK
<1>4. RowOK'
  BY <1>1, <1>2, <1>3 DEF AccessInv, RowOK, CallOK, EntityOK, Over
<1>5. AccessTypes'
  <2>1. row'.cur \in Live
    BY <1>2, <1>4 DEF RowOK, EntityOK, Columns, TokenColumns
  <2>2. row'.cur \in 0 .. MaxTokens
    BY <2>1, AccessAssumption DEF AccessInv, AccessTypes, Live
  <2>3. held' \in HeldStates
    <3>1. held \in HeldStates
      BY DEF AccessInv, AccessTypes
    <3>2. [held EXCEPT !.mine = row'.cur, !.offer = 0] \in HeldStates
      BY <2>2, <3>1, AccessAssumption, HeldOK, Zenon
    <3> QED
      BY <3>1, <3>2, Zenon DEF SaveUpdate
  <2> QED
    BY <1>1, <2>3 DEF AccessInv, AccessTypes
<1>6. CallsOK'
  <2> DEFINE auth   == [calls[c] EXCEPT !.pc = "report", !.op = "none",
                                        !.ent = NoEntity]
             report == [calls[c] EXCEPT !.pc = "answer", !.op = "none",
                                        !.ent = NoEntity, !.rep = NoReport]
             grant  == [calls[c] EXCEPT !.pc = "push"]
  <2>1. \/ calls' = [calls EXCEPT ![c] = auth]
        \/ calls' = [calls EXCEPT ![c] = report]
        \/ calls' = [calls EXCEPT ![c] = grant]
        \/ End(c)
    BY <1>1 DEF Continue
  <2>2. /\ DOMAIN auth = {"pc", "op", "ent", "tok", "rep"}
        /\ auth.ent = NoEntity
        /\ auth.tok = calls[c].tok /\ auth.rep = calls[c].rep
    BY <1>3, Zenon DEF CallOK
  <2>3. /\ DOMAIN report = {"pc", "op", "ent", "tok", "rep"}
        /\ report.ent = NoEntity
        /\ report.tok = calls[c].tok /\ report.rep = NoReport
    BY <1>3, Zenon DEF CallOK
  <2>4. /\ DOMAIN grant = {"pc", "op", "ent", "tok", "rep"}
        /\ grant.op = calls[c].op /\ grant.ent = calls[c].ent
        /\ grant.tok = calls[c].tok /\ grant.rep = calls[c].rep
    BY <1>3, Zenon DEF CallOK
  <2> HIDE DEF auth, report, grant
  <2>5. EntityOK(NoEntity, Live) /\ DOMAIN NoEntity = {}
    BY DEF EntityOK, NoEntity
  <2>6. NoReport.profile \in Profiles
    BY AccessAssumption DEF NoReport
  <2>7. CallOK(auth, Live) /\ CallOK(report, Live) /\ CallOK(grant, Live)
    BY <1>3, <2>2, <2>3, <2>4, <2>5, <2>6 DEF CallOK
  <2> QED
    BY <1>2, <2>1, <2>7, OneCall, EndOK DEF AccessInv
<1> QED
  BY <1>4, <1>5, <1>6 DEF AccessInv

LEMMA AgentRequestInv ==
    ASSUME AccessInv, NEW c \in Calls, AgentRequest(c) PROVE AccessInv'
<1> DEFINE tok == IF held.offer # 0 THEN held.offer ELSE held.mine
           rep == [profile |-> held.profile, err |-> held.err]
           r == [NoCall EXCEPT !.pc = "auth", !.tok = tok, !.rep = rep]
<1>1. /\ calls' = [calls EXCEPT ![c] = r]
      /\ UNCHANGED <<row, held, past, lapsed, grants, tokens, dead>>
  BY DEF AgentRequest, history
<1>2. AccessTypes' /\ RowOK' /\ Live' = Live
  BY <1>1 DEF AccessInv, AccessTypes, RowOK, Live
<1>3. tok \in 0 .. MaxTokens /\ rep.profile \in Profiles
  BY DEF AccessInv, AccessTypes, HeldStates
<1> HIDE DEF tok, rep
<1>4. /\ DOMAIN r = {"pc", "op", "ent", "tok", "rep"}
      /\ r.tok = tok /\ r.rep = rep /\ r.op = "none" /\ r.ent = NoEntity
  BY Zenon DEF NoCall
<1>5. CallOK(r, Live)
  BY <1>3, <1>4 DEF CallOK, NoEntity, EntityOK
<1> QED
  BY <1>1, <1>2, <1>5, OneCall DEF AccessInv

\* What an authentication saves are the tokens of the row.
LEMMA AuthenticateAgentInv ==
    ASSUME AccessInv, NEW c \in Calls, AuthenticateAgent(c) PROVE AccessInv'
<1> DEFINE lapse   == [row EXCEPT !.pend = 0]
           confirm == [row EXCEPT !.cur = row.pend, !.pend = 0]
           r == [calls[c] EXCEPT !.pc = "report"]
<1>1. UNCHANGED <<row, past, lapsed, grants, tokens, dead>>
  BY DEF AuthenticateAgent, history
<1>2. Live' = Live /\ 0 \in Live /\ RowOK'
  BY <1>1 DEF AccessInv, AccessTypes, RowOK, Live
<1>3. AccessTypes'
  <2>1. held \in HeldStates /\ [held EXCEPT !.offer = 0] \in HeldStates
    <3>1. held \in HeldStates /\ 0 \in 0 .. MaxTokens /\ {} \in Profiles
      BY AccessAssumption DEF AccessInv, AccessTypes
    <3> QED
      BY <3>1, HeldOK, Zenon
  <2>2. held' = held \/ held' = [held EXCEPT !.offer = 0]
    BY DEF AuthenticateAgent
  <2> QED
    BY <1>1, <2>1, <2>2, Zenon DEF AccessInv, AccessTypes
<1>4. \/ Save(c, "auth", lapse) \/ Save(c, "auth", confirm)
      \/ calls' = [calls EXCEPT ![c] = r] \/ End(c)
  BY DEF AuthenticateAgent
<1>5. DOMAIN row = Columns /\ "cur" \in Columns /\ "pend" \in Columns
  BY DEF AccessInv, RowOK, Columns, TokenColumns
<1>6. /\ DOMAIN lapse = Columns /\ lapse["pend"] = 0
      /\ \A x \in Columns : x # "pend" => lapse[x] = row[x]
  BY <1>5, Zenon
<1>7. /\ DOMAIN confirm = Columns
      /\ confirm["pend"] = 0 /\ confirm["cur"] = row["pend"]
      /\ \A x \in Columns : x # "pend" /\ x # "cur" => confirm[x] = row[x]
  BY <1>5, Zenon
<1> HIDE DEF lapse, confirm
<1>8. EntityOK(lapse, Live) /\ EntityOK(confirm, Live)
  BY <1>2, <1>5, <1>6, <1>7 DEF AccessInv, RowOK, EntityOK, TokenColumns
<1>9. CallOK(calls[c], Live)
  BY DEF AccessInv, CallsOK
<1>10. /\ DOMAIN r = {"pc", "op", "ent", "tok", "rep"}
       /\ r.op = calls[c].op /\ r.ent = calls[c].ent
       /\ r.tok = calls[c].tok /\ r.rep = calls[c].rep
  BY <1>9, Zenon DEF CallOK
<1>11. CallOK(r, Live)
  BY <1>9, <1>10 DEF CallOK
<1>12. CallsOK'
  BY <1>2, <1>4, <1>8, <1>11, SaveOK, OneCall, EndOK DEF AccessInv
<1> QED
  BY <1>2, <1>3, <1>12 DEF AccessInv

\* The report is the profile that the agent has applied.
LEMMA RecordReportInv ==
    ASSUME AccessInv, NEW c \in Calls, RecordAgentRootAccessState(c)
    PROVE  AccessInv'
<1> DEFINE sync == ResolveRootAccessSyncStatus(row.profile,
                     calls[c].rep.profile, calls[c].rep.err)
           ent == [Plain EXCEPT !.applied = calls[c].rep.profile, !.sync = sync]
           r == [calls[c] EXCEPT !.pc = "answer", !.rep = NoReport]
<1>1. UNCHANGED <<row, held, past, lapsed, grants, tokens, dead>>
  BY DEF RecordAgentRootAccessState, history
<1>2. AccessTypes' /\ RowOK' /\ Live' = Live
  BY <1>1 DEF AccessInv, AccessTypes, RowOK, Live
<1>3. CallOK(calls[c], Live)
  BY DEF AccessInv, CallsOK
<1>4. \/ calls' = [calls EXCEPT ![c] = r] \/ Save(c, "report", ent)
  BY DEF RecordAgentRootAccessState
<1>5. sync \in {"pending", "applied", "failed"}
  BY DEF ResolveRootAccessSyncStatus
<1> HIDE DEF sync
<1>6. /\ DOMAIN ent = DOMAIN Plain
      /\ ent["applied"] = calls[c].rep.profile /\ ent["sync"] = sync
      /\ \A x \in DOMAIN Plain : x # "applied" /\ x # "sync" => ent[x] = Plain[x]
  <2>1. "applied" \in DOMAIN Plain /\ "sync" \in DOMAIN Plain
    BY DEF Plain, PlainColumns
  <2> QED
    BY <2>1, Zenon
<1> HIDE DEF ent
<1>7. EntityOK(ent, Live) /\ DOMAIN ent \cap TokenColumns = {}
  BY <1>3, <1>5, <1>6, PlainOK DEF AccessInv, EntityOK, CallOK, TokenColumns
<1>8. /\ DOMAIN r = {"pc", "op", "ent", "tok", "rep"}
      /\ r.op = calls[c].op /\ r.ent = calls[c].ent
      /\ r.tok = calls[c].tok /\ r.rep = NoReport
  BY <1>3, Zenon DEF CallOK
<1>9. NoReport.profile \in Profiles
  BY AccessAssumption DEF NoReport
<1>10. CallOK(r, Live)
  BY <1>3, <1>8, <1>9 DEF CallOK
<1>11. CallsOK'
  BY <1>2, <1>4, <1>7, <1>10, SaveOK, OneCall DEF AccessInv
<1> QED
  BY <1>2, <1>11 DEF AccessInv

\* Saves of an entity that was loaded without its tokens.
LEMMA PlainSaveInv ==
    ASSUME AccessInv, NEW c \in Calls, NEW op, NEW ent, Save(c, op, ent),
           EntityOK(ent, Live), DOMAIN ent \cap TokenColumns = {},
           UNCHANGED <<row, held, past, lapsed, tokens, dead>>,
           grants' \in 0 .. MaxGrants
    PROVE  AccessInv'
<1>1. AccessTypes' /\ RowOK' /\ Live' = Live
  BY DEF AccessInv, AccessTypes, RowOK, Live
<1>2. CallsOK'
  BY <1>1, SaveOK DEF AccessInv
<1> QED
  BY <1>1, <1>2 DEF AccessInv

LEMMA OffOK ==
    ASSUME RowOK
    PROVE  EntityOK(Off(Plain), Live) /\ DOMAIN Off(Plain) \cap TokenColumns = {}
<1>1. /\ "profile" \in DOMAIN Plain /\ "grant" \in DOMAIN Plain
      /\ "sync" \in DOMAIN Plain
  BY DEF Plain, PlainColumns
<1>2. LET ent == Off(Plain) IN
      /\ DOMAIN ent = DOMAIN Plain
      /\ ent["profile"] = {} /\ ent["grant"] = 0 /\ ent["sync"] = "pending"
      /\ \A x \in DOMAIN Plain :
            x # "profile" /\ x # "grant" /\ x # "sync" => ent[x] = Plain[x]
  BY <1>1, Zenon DEF Off
<1> QED
  BY <1>2, PlainOK, AccessAssumption DEF EntityOK, TokenColumns

LEMMA UpdateRootAccessProfileInv ==
    ASSUME AccessInv, NEW c \in Calls, NEW p \in Profiles,
           UpdateRootAccessProfile(c, p)
    PROVE  AccessInv'
<1> DEFINE ent == [Plain EXCEPT !.profile = p, !.grant = grants',
                                !.sync = "pending"]
<1>1. UNCHANGED <<row, held, past, lapsed, tokens, dead>>
  BY DEF UpdateRootAccessProfile
<1>2. grants \in 0 .. MaxGrants
  BY DEF AccessInv, AccessTypes
<1>3. CASE Save(c, "grant", Off(Plain)) /\ UNCHANGED grants
  BY <1>1, <1>2, <1>3, OffOK, PlainSaveInv DEF AccessInv
<1>4. CASE /\ grants < MaxGrants /\ grants' = grants + 1
           /\ Save(c, "grant", ent)
  <2>1. grants' \in 0 .. MaxGrants
    BY <1>2, <1>4, AccessAssumption
  <2>2. /\ "profile" \in DOMAIN Plain /\ "grant" \in DOMAIN Plain
        /\ "sync" \in DOMAIN Plain
    BY DEF Plain, PlainColumns
  <2>3. /\ DOMAIN ent = DOMAIN Plain
        /\ ent["profile"] = p /\ ent["grant"] = grants' /\ ent["sync"] = "pending"
        /\ \A x \in DOMAIN Plain :
              x # "profile" /\ x # "grant" /\ x # "sync" => ent[x] = Plain[x]
    BY <2>2, Zenon
  <2> HIDE DEF ent
  <2>4. EntityOK(ent, Live) /\ DOMAIN ent \cap TokenColumns = {}
    BY <2>1, <2>3, PlainOK DEF AccessInv, EntityOK, TokenColumns
  <2> QED
    BY <1>1, <1>4, <2>1, <2>4, PlainSaveInv
<1> QED
  BY <1>3, <1>4 DEF UpdateRootAccessProfile

\* Heartbeats, settings and the expiry of a grant.
LEMMA OtherSavesInv ==
    ASSUME AccessInv, NEW c \in Calls,
           NodeMarkOnline(c) \/ UpdateSettings(c) \/ ExpireRootAccessGrants(c)
    PROVE  AccessInv'
<1>1. /\ UNCHANGED <<row, held, past, lapsed, grants, tokens, dead>>
      /\ grants' \in 0 .. MaxGrants
  BY DEF NodeMarkOnline, UpdateSettings, ExpireRootAccessGrants, history,
         AccessInv, AccessTypes
<1>2. \/ Save(c, "heartbeat", Plain) \/ Save(c, "settings", Plain)
      \/ Save(c, "expire", Off(Plain))
  BY DEF NodeMarkOnline, UpdateSettings, ExpireRootAccessGrants
<1> QED
  BY <1>1, <1>2, PlainOK, OffOK, PlainSaveInv DEF AccessInv

\* The agent is told a profile.
LEMMA ApplyOK ==
    ASSUME NEW h \in HeldStates, NEW p \in Profiles, Apply(h, p)
    PROVE  held' \in HeldStates
<1>1. 0 \in 0 .. MaxTokens
  BY AccessAssumption
<1>2. /\ [h EXCEPT !.profile = p, !.err = FALSE] \in HeldStates
      /\ [h EXCEPT !.err = TRUE] \in HeldStates
  BY <1>1, HeldOK, Zenon
<1> QED
  BY <1>2, Zenon DEF Apply

LEMMA AnswerInv ==
    ASSUME AccessInv, NEW c \in Calls, Answer(c) PROVE AccessInv'
<1> DEFINE kept == [held EXCEPT !.mine = held.offer, !.offer = 0]
<1>1. UNCHANGED <<row, past, lapsed, grants, tokens, dead>> /\ End(c)
  BY DEF Answer, history
<1>2. RowOK' /\ Live' = Live
  BY <1>1 DEF AccessInv, RowOK, Live
<1>3. row.profile \in Profiles
  BY DEF AccessInv, RowOK, EntityOK, Columns, PlainColumns
<1>4. held \in HeldStates /\ held.offer \in 0 .. MaxTokens
  BY DEF AccessInv, AccessTypes, HeldStates
<1>5. kept \in HeldStates
  BY <1>3, <1>4, HeldOK, Zenon
<1> HIDE DEF kept
<1>6. Apply(kept, row.profile) \/ Apply(held, row.profile)
  BY DEF Answer, kept
<1>7. held' \in HeldStates
  BY <1>3, <1>4, <1>5, <1>6, ApplyOK
<1> QED
  BY <1>1, <1>2, <1>7, EndOK DEF AccessInv, AccessTypes

LEMMA DispatchRootAccessUpdateInv ==
    ASSUME AccessInv, NEW c \in Calls, DispatchRootAccessUpdate(c)
    PROVE  AccessInv'
<1>1. UNCHANGED <<row, past, lapsed, grants, tokens, dead>> /\ End(c)
  BY DEF DispatchRootAccessUpdate, history
<1>2. RowOK' /\ Live' = Live
  BY <1>1 DEF AccessInv, RowOK, Live
<1>3. held \in HeldStates
  BY DEF AccessInv, AccessTypes
<1>4. CASE /\ "profile" \in DOMAIN calls[c].ent
           /\ Apply(held, calls[c].ent.profile)
  <2>1. calls[c].ent.profile \in Profiles
    BY <1>4 DEF AccessInv, CallsOK, CallOK, EntityOK
  <2>2. held' \in HeldStates
    BY <1>3, <1>4, <2>1, ApplyOK
  <2> QED
    BY <1>1, <1>2, <2>2, EndOK DEF AccessInv, AccessTypes
<1>5. CASE UNCHANGED held
  BY <1>1, <1>2, <1>5, EndOK DEF AccessInv, AccessTypes
<1> QED
  BY <1>4, <1>5 DEF DispatchRootAccessUpdate

LEMMA DispatchAgentTokenRotationInv ==
    ASSUME AccessInv, NEW c \in Calls, DispatchAgentTokenRotation(c)
    PROVE  AccessInv'
<1> DEFINE r == [calls[c] EXCEPT !.pc = "clear"]
<1>1. UNCHANGED <<row, past, lapsed, grants, tokens, dead>>
  BY DEF DispatchAgentTokenRotation, history
<1>2. RowOK' /\ Live' = Live
  BY <1>1 DEF AccessInv, RowOK, Live
<1>3. CallOK(calls[c], Live)
  BY DEF AccessInv, CallsOK
<1>4. held' \in HeldStates
  <2>1. held \in HeldStates /\ calls[c].tok \in 0 .. MaxTokens /\ {} \in Profiles
    BY <1>3, AccessAssumption DEF AccessInv, AccessTypes, CallOK
  <2>2. [held EXCEPT !.offer = calls[c].tok] \in HeldStates
    BY <2>1, HeldOK, Zenon
  <2> QED
    BY <2>1, <2>2, Zenon DEF DispatchAgentTokenRotation
<1>5. /\ DOMAIN r = {"pc", "op", "ent", "tok", "rep"}
      /\ r.op = calls[c].op /\ r.ent = calls[c].ent
      /\ r.tok = calls[c].tok /\ r.rep = calls[c].rep
  BY <1>3, Zenon DEF CallOK
<1>6. CallOK(r, Live)
  BY <1>3, <1>5 DEF CallOK
<1>7. CallsOK'
  BY <1>2, <1>6, EndOK, OneCall DEF AccessInv, DispatchAgentTokenRotation
<1> QED
  BY <1>1, <1>2, <1>4, <1>7 DEF AccessInv, AccessTypes

\* One column of the row is written.
LEMMA RowColumnOK ==
    ASSUME RowOK, NEW t \in Live', row' = [row EXCEPT !.pend = t],
           Live \subseteq Live'
    PROVE  RowOK'
<1>1. DOMAIN row = Columns /\ "pend" \in Columns
  BY DEF RowOK, Columns, TokenColumns
<1>2. /\ DOMAIN row' = Columns /\ row'["pend"] = t
      /\ \A x \in Columns : x # "pend" => row'[x] = row[x]
  BY <1>1, Zenon
<1> QED
  BY <1>2 DEF RowOK, EntityOK, TokenColumns

LEMMA ClearPendingAgentTokenRotationInv ==
    ASSUME AccessInv, NEW c \in Calls, ClearPendingAgentTokenRotation(c)
    PROVE  AccessInv'
<1>1. UNCHANGED <<held, past, lapsed, grants, tokens, dead>> /\ End(c)
  BY DEF ClearPendingAgentTokenRotation, history
<1>2. AccessTypes' /\ Live' = Live /\ 0 \in Live
  BY <1>1 DEF AccessInv, AccessTypes, Live
<1>3. RowOK' /\ CallsOK'
  BY <1>1, <1>2, RowColumnOK, EndOK DEF AccessInv, ClearPendingAgentTokenRotation
<1> QED
  BY <1>2, <1>3 DEF AccessInv

\* A new token is above all those that are dead.
LEMMA NewTokenLives ==
    ASSUME AccessTypes, tokens < MaxTokens, tokens' = tokens + 1, dead' = dead
    PROVE  /\ tokens' \in Live' /\ 0 \in Live' /\ Live \subseteq Live'
           /\ tokens' \in 1 .. MaxTokens /\ dead' \subseteq 1 .. tokens'
  BY AccessAssumption DEF AccessTypes, Live

LEMMA RotateAgentTokenInv ==
    ASSUME AccessInv, NEW c \in Calls, RotateAgentToken(c) PROVE AccessInv'
<1> DEFINE r == [calls[c] EXCEPT !.pc = "deliver", !.tok = tokens']
<1>1. /\ tokens < MaxTokens /\ tokens' = tokens + 1
      /\ UNCHANGED <<held, past, lapsed, grants, dead>>
      /\ row' = [row EXCEPT !.pend = tokens']
      /\ calls' = [calls EXCEPT ![c] = r]
  BY DEF RotateAgentToken
<1>2. /\ tokens' \in Live' /\ Live \subseteq Live'
      /\ tokens' \in 1 .. MaxTokens /\ dead' \subseteq 1 .. tokens'
  BY <1>1, NewTokenLives DEF AccessInv
<1>3. AccessTypes' /\ RowOK'
  BY <1>1, <1>2, RowColumnOK DEF AccessInv, AccessTypes
<1>4. CallOK(calls[c], Live)
  BY DEF AccessInv, CallsOK
<1>5. /\ DOMAIN r = {"pc", "op", "ent", "tok", "rep"}
      /\ r.op = calls[c].op /\ r.ent = calls[c].ent
      /\ r.tok = tokens' /\ r.rep = calls[c].rep
  BY <1>4, Zenon DEF CallOK
<1>6. CallOK(r, Live')
  BY <1>2, <1>4, <1>5 DEF CallOK, EntityOK
<1>7. CallsOK'
  BY <1>1, <1>2, <1>6, OneCall DEF AccessInv
<1> QED
  BY <1>3, <1>7 DEF AccessInv

\* A token that is revoked is in no entity, so that it can be called dead.
LEMMA RevokeAgentTokenInv ==
    ASSUME AccessInv, NEW c \in Calls, RevokeAgentToken(c) PROVE AccessInv'
<1>1. /\ row' = [row EXCEPT !.cur = 0, !.pend = 0]
      /\ dead' = dead \cup ({row.cur, row.pend} \ (InFlight \cup {0}))
      /\ UNCHANGED <<calls, held, past, lapsed, grants, tokens>>
  BY DEF RevokeAgentToken
<1>2. row.cur \in Live /\ row.pend \in Live
  BY DEF AccessInv, RowOK, EntityOK, Columns, TokenColumns
<1>3. dead' \subseteq 1 .. tokens
  BY <1>1, <1>2 DEF AccessInv, AccessTypes, Live
<1>4. AccessTypes' /\ 0 \in Live'
  BY <1>1, <1>3 DEF AccessInv, AccessTypes, Live
<1>5. RowOK'
  <2>1. DOMAIN row = Columns /\ "cur" \in Columns /\ "pend" \in Columns
    BY DEF AccessInv, RowOK, Columns, TokenColumns
  <2>2. /\ DOMAIN row' = Columns /\ row'["cur"] = 0 /\ row'["pend"] = 0
        /\ \A x \in Columns : x # "cur" /\ x # "pend" => row'[x] = row[x]
    BY <1>1, <2>1, Zenon
  <2> QED
    BY <1>4, <2>1, <2>2 DEF AccessInv, RowOK, EntityOK, TokenColumns
<1>6. ASSUME NEW d \in Calls PROVE CallOK(calls[d], Live')
  <2>1. CallOK(calls[d], Live)
    BY DEF AccessInv, CallsOK
  <2>2. ASSUME NEW x \in DOMAIN calls[d].ent, x \in TokenColumns
        PROVE  calls[d].ent[x] \in Live'
    <3>1. calls[d].op \in {"auth", "register"}
      BY <2>1, <2>2 DEF CallOK
    <3>2. calls[d].ent[x] \in InFlight
      BY <2>2, <3>1 DEF InFlight
    <3>3. calls[d].ent[x] \in Live
      BY <2>1, <2>2 DEF CallOK, EntityOK
    <3> QED
      BY <1>1, <3>2, <3>3 DEF Live
  <2> QED
    BY <2>1, <2>2 DEF CallOK, EntityOK
<1>7. CallsOK'
  BY <1>1, <1>6 DEF AccessInv, CallsOK
<1> QED
  BY <1>4, <1>5, <1>7 DEF AccessInv

LEMMA UpsertFromAgentRegistrationInv ==
    ASSUME AccessInv, NEW c \in Calls, UpsertFromAgentRegistration(c)
    PROVE  AccessInv'
<1> DEFINE new == [cur |-> tokens', pend |-> 0]
           ent == Over(new, Plain)
<1>1. /\ tokens < MaxTokens /\ tokens' = tokens + 1
      /\ UNCHANGED <<row, held, past, lapsed, grants, dead>>
      /\ Save(c, "register", ent)
  BY DEF UpsertFromAgentRegistration
<1>2. /\ tokens' \in Live' /\ 0 \in Live' /\ Live \subseteq Live'
      /\ tokens' \in 1 .. MaxTokens /\ dead' \subseteq 1 .. tokens'
  BY <1>1, NewTokenLives DEF AccessInv
<1>3. AccessTypes' /\ RowOK'
  BY <1>1, <1>2 DEF AccessInv, AccessTypes, RowOK, EntityOK
<1>4. DOMAIN new = TokenColumns /\ \A x \in TokenColumns : new[x] \in Live'
  BY <1>2 DEF TokenColumns
<1> HIDE DEF new
<1>5. EntityOK(Plain, Live) /\ DOMAIN Plain \cap TokenColumns = {}
  BY PlainOK DEF AccessInv
<1>6. /\ DOMAIN ent = TokenColumns \cup DOMAIN Plain
      /\ \A x \in TokenColumns : ent[x] = new[x]
      /\ \A x \in DOMAIN Plain : ent[x] = Plain[x]
  BY <1>4, <1>5 DEF Over
<1> HIDE DEF ent
<1>7. EntityOK(ent, Live')
  BY <1>2, <1>4, <1>5, <1>6 DEF EntityOK, Columns, TokenColumns
<1>8. CallsOK'
  BY <1>1, <1>2, <1>7, SaveOK DEF AccessInv
<1> QED
  BY <1>3, <1>8 DEF AccessInv

LEMMA TimeInv ==
    ASSUME AccessInv,
           \/ \E g \in 1 .. MaxGrants : GrantExpires(g)
           \/ \E t \in 1 .. MaxTokens : TokenLapses(t)
           \/ \E c \in Calls : CallFails(c)
    PROVE  AccessInv'
<1>1. UNCHANGED <<row, held, grants, tokens, dead>>
  BY DEF GrantExpires, TokenLapses, CallFails, history
<1>2. past' \subseteq 1 .. MaxGrants /\ lapsed' \subseteq 1 .. MaxTokens
  BY DEF GrantExpires, TokenLapses, CallFails, history, AccessInv, AccessTypes
<1>3. AccessTypes' /\ RowOK' /\ Live' = Live
  BY <1>1, <1>2 DEF AccessInv, AccessTypes, RowOK, Live
<1>4. UNCHANGED calls \/ \E c \in Calls : End(c)
  BY DEF GrantExpires, TokenLapses, CallFails
<1>5. CallsOK'
  BY <1>3, <1>4, EndOK DEF AccessInv, CallsOK
<1> QED
  BY <1>3, <1>5 DEF AccessInv

\* A token that was revoked while no authentication was about to save it never
\* returns to the row, for any number of requests that load and save the node
\* at the same time: no entity holds a dead token, and those that hold tokens
\* at all are of authentications and registrations (revokeAgentToken,
\* authenticateAgent, upsertFromAgentRegistration).
THEOREM RevokedForGood == AccessSpec => []NoRevival
<1>1. AccessInv /\ [AccessNext]_accessVars => AccessInv'
  <2> SUFFICES ASSUME AccessInv, [AccessNext]_accessVars PROVE AccessInv'
    OBVIOUS
  <2>1. AgentCalls \subseteq Calls /\ Requests \subseteq Calls /\ Cron \in Calls
    BY DEF Calls
  <2>2. ASSUME NEW c \in AgentCalls, AgentStep(c) \/ NodeMarkOnline(c)
        PROVE  AccessInv'
    BY <2>1, <2>2, AgentRequestInv, AuthenticateAgentInv, RecordReportInv,
       AnswerInv, SaveSelectInv, SaveUpdateInv, OtherSavesInv DEF AgentStep
  <2>3. ASSUME NEW c \in Requests, Request(c) PROVE AccessInv'
    BY <2>1, <2>3, UpdateRootAccessProfileInv, RotateAgentTokenInv,
       RevokeAgentTokenInv, UpsertFromAgentRegistrationInv, OtherSavesInv
       DEF Request, EnableMaintenance, DisableMaintenance,
           UpdateTeamAssignment, UpdateNotificationSettings
  <2>4. ASSUME NEW c \in Requests, OperatorStep(c) PROVE AccessInv'
    BY <2>1, <2>4, SaveSelectInv, SaveUpdateInv, DispatchRootAccessUpdateInv,
       DispatchAgentTokenRotationInv, ClearPendingAgentTokenRotationInv
       DEF OperatorStep
  <2>5. CASE CronStep
    BY <2>1, <2>5, OtherSavesInv, SaveSelectInv, SaveUpdateInv DEF CronStep
  <2>6. CASE UNCHANGED accessVars
    BY <2>6 DEF accessVars, AccessInv, AccessTypes, RowOK, CallsOK, Live
  <2> QED
    BY <2>2, <2>3, <2>4, <2>5, <2>6, TimeInv DEF AccessNext
<1>2. AccessInv => NoRevival
  <2> SUFFICES ASSUME AccessInv PROVE NoRevival
    OBVIOUS
  <2>1. \A x \in Columns : x \in DOMAIN row
    BY DEF AccessInv, RowOK
  <2>2. row.cur \in Live /\ row.pend \in Live
    BY <2>1 DEF AccessInv, RowOK, EntityOK, Columns, TokenColumns
  <2>3. Live \subseteq 0 .. MaxTokens /\ Live \cap dead = {}
    BY AccessAssumption DEF AccessInv, AccessTypes, Live
  <2>4. AccessTypeOK
    <3>1. /\ row.profile \in Profiles /\ row.applied \in Profiles
          /\ row.grant \in 0 .. MaxGrants
          /\ row.sync \in {"pending", "applied", "failed"}
      BY <2>1 DEF AccessInv, RowOK, EntityOK, Columns, PlainColumns
    <3>2. \A c \in Calls : DOMAIN calls[c].ent \subseteq DOMAIN row
      BY DEF AccessInv, RowOK, CallsOK, CallOK, EntityOK
    <3>3. dead \subseteq 1 .. MaxTokens
      BY AccessAssumption DEF AccessInv, AccessTypes
    <3> QED
      BY <2>2, <2>3, <3>1, <3>2, <3>3
         DEF AccessInv, AccessTypes, HeldStates, RowOK, Columns, AccessTypeOK
  <2> QED
    BY <2>2, <2>3, <2>4 DEF NoRevival
<1> QED
  BY <1>1, <1>2, AccessInitInv, PTL DEF AccessSpec

-----------------------------------------------------------------------------
(* AgentConnections.                                                         *)

SlotRecords == [pc : Pcs, prev : Sockets \cup {NoSocket},
                ent : {"none", "online", "offline"}]

\* A root report that is about to be saved has loaded a status.
SlotTypes == {e \in SlotRecords : e.pc = "rsave" => e.ent # "none"}

\* A socket that is connected has a process; one that is not has no session
\* and no handler.
SocketsOK ==
    \A k \in Sockets :
       /\ sock[k] # "new" => home[k] \in Processes
       /\ sock[k] = "new" => /\ k \notin session
                             /\ slot[<<k, "auth">>] = Idle
                             /\ slot[<<k, "close">>] = Idle

ConnInv == OneSessionPerProcess /\ SocketsOK /\ slot \in [Slots -> SlotTypes]

\* A slot that goes on to anything but the save of a report, and one that goes
\* on to it with a status.
LEMMA SlotChanges ==
    ASSUME NEW e \in SlotTypes
    PROVE  /\ \A pc \in Pcs \ {"rsave"} : [e EXCEPT !.pc = pc] \in SlotTypes
           /\ \A v \in {"online", "offline"} :
                 [[e EXCEPT !.pc = "rsave"] EXCEPT !.ent = v] \in SlotTypes
           /\ [[e EXCEPT !.pc = "tell"] EXCEPT !.ent = "none"] \in SlotTypes
           /\ \A k \in Sockets \cup {NoSocket} :
                 [[e EXCEPT !.pc = "online"] EXCEPT !.prev = k] \in SlotTypes
<1>1. /\ e \in SlotRecords
      /\ "rsave" \in Pcs /\ "tell" \in Pcs /\ "online" \in Pcs
  BY DEF SlotTypes, Pcs
<1>2. ASSUME NEW pc \in Pcs \ {"rsave"}
      PROVE  [e EXCEPT !.pc = pc] \in SlotTypes
  <2>1. [e EXCEPT !.pc = pc] \in SlotRecords /\ [e EXCEPT !.pc = pc].pc = pc
    BY <1>1 DEF SlotRecords
  <2> QED
    BY <2>1 DEF SlotTypes
<1>3. ASSUME NEW v \in {"online", "offline"}
      PROVE  [[e EXCEPT !.pc = "rsave"] EXCEPT !.ent = v] \in SlotTypes
  <2> DEFINE f == [[e EXCEPT !.pc = "rsave"] EXCEPT !.ent = v]
  <2>1. f \in SlotRecords /\ f.ent = v
    BY <1>1 DEF SlotRecords
  <2> QED
    BY <2>1 DEF SlotTypes
<1>4. [[e EXCEPT !.pc = "tell"] EXCEPT !.ent = "none"] \in SlotTypes
  <2> DEFINE f == [[e EXCEPT !.pc = "tell"] EXCEPT !.ent = "none"]
  <2>1. f \in SlotRecords /\ f.pc = "tell"
    BY <1>1 DEF SlotRecords
  <2> QED
    BY <2>1 DEF SlotTypes
<1>5. ASSUME NEW k \in Sockets \cup {NoSocket}
      PROVE  [[e EXCEPT !.pc = "online"] EXCEPT !.prev = k] \in SlotTypes
  <2> DEFINE f == [[e EXCEPT !.pc = "online"] EXCEPT !.prev = k]
  <2>1. f \in SlotRecords /\ f.pc = "online"
    BY <1>1 DEF SlotRecords
  <2> QED
    BY <2>1 DEF SlotTypes
<1> QED
  BY ONLY <1>2, <1>3, <1>4, <1>5, Zenon

\* Sockets that stay connected, or not, keep what they have.
LEMMA SocketsKeep ==
    ASSUME SocketsOK, home' = home,
           \A k \in Sockets :
              /\ sock'[k] = "new" <=> sock[k] = "new"
              /\ sock[k] = "new" => /\ k \notin session'
                                    /\ slot'[<<k, "auth">>] = Idle
                                    /\ slot'[<<k, "close">>] = Idle
    PROVE  SocketsOK'
<1> SUFFICES ASSUME NEW k \in Sockets
             PROVE  /\ sock'[k] # "new" => home'[k] \in Processes
                    /\ sock'[k] = "new" =>
                         /\ k \notin session'
                         /\ slot'[<<k, "auth">>] = Idle
                         /\ slot'[<<k, "close">>] = Idle
  BY Zenon DEF SocketsOK
<1>1. sock[k] # "new" => home[k] \in Processes
  BY DEF SocketsOK
<1>2. home'[k] = home[k]
  OBVIOUS
<1> QED
  BY <1>1, <1>2

\* The slots, and which of them a socket has.
LEMMA SlotsOfSockets ==
    /\ Beats \in Slots
    /\ \A k \in Sockets : <<k, "auth">> \in Slots /\ <<k, "close">> \in Slots
    /\ \A k, j \in Sockets : /\ <<k, "auth">> # <<j, "close">>
                             /\ k # j => <<k, "auth">> # <<j, "auth">>
                             /\ k # j => <<k, "close">> # <<j, "close">>
    /\ Idle \in SlotTypes
    /\ NoSocket \notin Sockets /\ NoProcess \notin Processes
    /\ \A k \in Sockets : Beats # <<k, "auth">> /\ Beats # <<k, "close">>
<1>1. Idle \in SlotRecords /\ Idle.pc = "idle"
  BY DEF Idle, SlotRecords, Pcs
<1>2. Idle \in SlotTypes
  BY <1>1 DEF SlotTypes
<1> QED
  BY <1>2, ConnectionsAssumption DEF Slots, Beats

\* A slot that goes on.
LEMMA SlotGoesOn ==
    ASSUME ConnInv, NEW s \in Slots, NEW e \in SlotTypes, slot[s] # Idle,
           slot' = [slot EXCEPT ![s] = e],
           UNCHANGED <<home, sock, session, current>>,
           agent' \in {"up", "down"}, route' \in Sockets \cup {NoSocket},
           kick' \in Processes \cup {NoProcess},
           status' \in {"online", "offline"}, troubles' \in 0 .. MaxTroubles
    PROVE  ConnInv'
<1>1. /\ slot' \in [Slots -> SlotTypes]
      /\ \A o \in Slots : o # s => slot'[o] = slot[o]
  BY DEF ConnInv
<1>2. TypeOK'
  BY <1>1 DEF ConnInv, OneSessionPerProcess, TypeOK, SlotTypes, SlotRecords
<1>3. SocketsOK'
  <2>1. ASSUME NEW j \in Sockets, sock[j] = "new"
        PROVE  /\ j \notin session'
               /\ slot'[<<j, "auth">>] = Idle /\ slot'[<<j, "close">>] = Idle
    <3>1. /\ j \notin session
          /\ slot[<<j, "auth">>] = Idle /\ slot[<<j, "close">>] = Idle
      BY <2>1 DEF ConnInv, SocketsOK
    <3> QED
      BY <1>1, <3>1, SlotsOfSockets
  <2> QED
    BY <2>1, SocketsKeep DEF ConnInv
<1> QED
  BY <1>1, <1>2, <1>3 DEF ConnInv, OneSessionPerProcess

\* The disconnect of socket k, on slots s, takes its session and no other.
LEMMA DisconnectKeeps ==
    ASSUME ConnInv, NEW k \in Sockets, NEW s \in [Slots -> SlotTypes],
           \A o \in Slots : s[o] = slot[o] \/ s[o] = Idle,
           sock[k] # "new",
           sock' = sock \/ sock' = [sock EXCEPT ![k] = "closed"],
           HandleSocketDisconnect(k, s), home' = home,
           agent' \in {"up", "down"}, route' \in Sockets \cup {NoSocket},
           kick' \in Processes \cup {NoProcess},
           status' \in {"online", "offline"}, troubles' \in 0 .. MaxTroubles
    PROVE  ConnInv'
<1> DEFINE e == [Idle EXCEPT !.pc = "route"]
<1>1. e \in SlotTypes
  BY SlotsOfSockets DEF SlotTypes, SlotRecords, Idle, Pcs
<1>2. TypeOK /\ SocketsOK
  BY DEF ConnInv, OneSessionPerProcess
<1>3. slot' \in [Slots -> SlotTypes]
  BY <1>1, SlotsOfSockets DEF HandleSocketDisconnect
<1>4. \A o \in Slots : o # <<k, "close">> => slot'[o] = s[o]
  BY DEF HandleSocketDisconnect
<1>5. /\ sock' \in [Sockets -> {"new", "open", "lost", "closed"}]
      /\ \A j \in Sockets : sock'[j] = "new" <=> sock[j] = "new"
  BY <1>2 DEF TypeOK
<1>6. /\ session' = session \ {k}
      /\ current' \in [Processes -> Sockets \cup {NoSocket}]
  BY <1>2 DEF HandleSocketDisconnect, TypeOK
<1>7. \A j \in session' : current'[home'[j]] = j
  <2> SUFFICES ASSUME NEW j \in session' PROVE current'[home[j]] = j
    OBVIOUS
  <2>1. j \in session /\ j # k /\ current[home[j]] = j
    BY <1>6 DEF ConnInv, OneSessionPerProcess
  <2>2. home[j] \in Processes
    BY <1>2, <2>1 DEF SocketsOK, TypeOK
  <2> QED
    BY <1>2, <2>1, <2>2 DEF HandleSocketDisconnect, TypeOK
<1>8. TypeOK'
  BY <1>2, <1>3, <1>5, <1>6 DEF TypeOK, SlotTypes, SlotRecords
<1>9. SocketsOK'
  <2>1. ASSUME NEW j \in Sockets, sock[j] = "new"
        PROVE  /\ j \notin session'
               /\ slot'[<<j, "auth">>] = Idle /\ slot'[<<j, "close">>] = Idle
    <3>1. /\ j \notin session /\ j # k
          /\ slot[<<j, "auth">>] = Idle /\ slot[<<j, "close">>] = Idle
      BY <1>2, <2>1 DEF SocketsOK
    <3>2. s[<<j, "auth">>] = Idle /\ s[<<j, "close">>] = Idle
      BY <3>1, SlotsOfSockets
    <3> QED
      BY <1>4, <1>6, <3>1, <3>2, SlotsOfSockets
  <2> QED
    BY <1>2, <1>5, <2>1, SocketsKeep
<1> QED
  BY <1>3, <1>7, <1>8, <1>9 DEF ConnInv, OneSessionPerProcess

\* What the steps of sockets, timers and operators have in common.
LEMMA DropKeeps ==
    ASSUME ConnInv, NEW k \in Sockets \cup {NoSocket},
           NEW s \in [Slots -> SlotTypes],
           \A o \in Slots : s[o] = slot[o] \/ s[o] = Idle,
           DropIfPresent(k, s), home' = home,
           agent' \in {"up", "down"}, route' \in Sockets \cup {NoSocket},
           kick' \in Processes \cup {NoProcess},
           status' \in {"online", "offline"}, troubles' \in 0 .. MaxTroubles
    PROVE  ConnInv'
<1>1. CASE k # NoSocket /\ Present(k)
  <2>1. k \in Sockets /\ sock[k] # "new"
    BY <1>1 DEF Present
  <2>2. /\ sock' = [sock EXCEPT ![k] = "closed"]
        /\ HandleSocketDisconnect(k, s)
    BY <1>1 DEF DropIfPresent, Drop
  <2> QED
    BY <2>1, <2>2, DisconnectKeeps
<1>2. CASE ~(k # NoSocket /\ Present(k))
  <2>1. slot' = s /\ UNCHANGED <<sock, session, current>>
    BY <1>2 DEF DropIfPresent
  <2>2. TypeOK'
    BY <2>1 DEF ConnInv, OneSessionPerProcess, TypeOK, SlotTypes, SlotRecords
  <2>3. SocketsOK'
    <3>1. ASSUME NEW j \in Sockets, sock[j] = "new"
          PROVE  /\ j \notin session'
                 /\ slot'[<<j, "auth">>] = Idle /\ slot'[<<j, "close">>] = Idle
      <4>1. /\ j \notin session
            /\ slot[<<j, "auth">>] = Idle /\ slot[<<j, "close">>] = Idle
        BY <3>1 DEF ConnInv, SocketsOK
      <4> QED
        BY <2>1, <4>1, SlotsOfSockets
    <3> QED
      BY <2>1, <3>1, SocketsKeep DEF ConnInv
  <2> QED
    BY <2>1, <2>2, <2>3 DEF ConnInv, OneSessionPerProcess
<1> QED
  BY <1>1, <1>2

\* The handlers that only go on: presence, root reports, routes.
LEMMA HandlersKeep ==
    ASSUME ConnInv, NEW s \in Slots, Handler(s)
    PROVE  ConnInv'
<1> USE DEF links
<1>1. slot[s] \in SlotTypes /\ Idle \in SlotTypes /\ Idle.pc = "idle"
  BY SlotsOfSockets DEF ConnInv, Idle
<1>2. TypeOK
  BY DEF ConnInv, OneSessionPerProcess
<1>3. AfterOnline(s) \in SlotTypes
  BY <1>1, SlotChanges DEF AfterOnline, Pcs
<1> DEFINE Goes == /\ slot[s] # Idle /\ status' \in {"online", "offline"}
                   /\ UNCHANGED <<home, agent, sock, session, current, route,
                                  kick, troubles>>
                   /\ \E e \in SlotTypes : slot' = [slot EXCEPT ![s] = e]
<1>4. ASSUME MarkOnline(s) \/ MarkOnlineSave(s)
      PROVE  Goes
  <2>1. \/ slot' = [slot EXCEPT ![s] = AfterOnline(s)]
        \/ slot' = [slot EXCEPT ![s] = [slot[s] EXCEPT !.pc = "save"]]
    BY <1>4 DEF MarkOnline, MarkOnlineSave, Goto
  <2>2. [slot[s] EXCEPT !.pc = "save"] \in SlotTypes
    BY <1>1, SlotChanges DEF Pcs
  <2>3. /\ slot[s].pc \in {"online", "save"}
        /\ status' \in {"online", "offline"}
        /\ UNCHANGED <<home, agent, sock, session, current, route, kick,
                       troubles>>
    BY <1>2, <1>4 DEF MarkOnline, MarkOnlineSave, At, TypeOK
  <2>4. \E e \in SlotTypes : slot' = [slot EXCEPT ![s] = e]
    BY <1>3, <2>1, <2>2
  <2> QED
    BY <1>1, <2>3, <2>4
<1>5. ASSUME RootReportLoad(s) \/ RootReportSave(s)
      PROVE  Goes
  <2> DEFINE tell == [slot[s] EXCEPT !.pc = "tell"]
             save == [[slot[s] EXCEPT !.pc = "rsave"] EXCEPT !.ent = status]
             done == [[slot[s] EXCEPT !.pc = "tell"] EXCEPT !.ent = "none"]
  <2>1. \/ slot' = [slot EXCEPT ![s] = tell]
        \/ slot' = [slot EXCEPT ![s] = save]
        \/ slot' = [slot EXCEPT ![s] = done]
    BY <1>2, <1>5 DEF RootReportLoad, RootReportSave, Goto, TypeOK
  <2>2. tell \in SlotTypes /\ save \in SlotTypes /\ done \in SlotTypes
    BY <1>1, <1>2, SlotChanges DEF Pcs, TypeOK
  <2>3. /\ slot[s].pc \in {"root", "rsave"}
        /\ status' \in {"online", "offline"}
        /\ UNCHANGED <<home, agent, sock, session, current, route, kick,
                       troubles>>
    BY <1>1, <1>2, <1>5 DEF RootReportLoad, RootReportSave, At, TypeOK,
                            SlotTypes, SlotRecords
  <2> HIDE DEF tell, save, done
  <2>4. \E e \in SlotTypes : slot' = [slot EXCEPT ![s] = e]
    BY <2>1, <2>2
  <2> QED
    BY <1>1, <2>3, <2>4
<1>6. ASSUME MarkOffline(s) \/ MarkOfflineLoad(s) \/ MarkOfflineSave(s)
      PROVE  Goes
  <2>1. \/ slot' = [slot EXCEPT ![s] = Idle]
        \/ slot' = [slot EXCEPT ![s] = [slot[s] EXCEPT !.pc = "oload"]]
        \/ slot' = [slot EXCEPT ![s] = [slot[s] EXCEPT !.pc = "osave"]]
    BY <1>6 DEF MarkOffline, MarkOfflineLoad, MarkOfflineSave, Goto
  <2>2. /\ [slot[s] EXCEPT !.pc = "oload"] \in SlotTypes
        /\ [slot[s] EXCEPT !.pc = "osave"] \in SlotTypes
    BY <1>1, SlotChanges DEF Pcs
  <2>3. /\ slot[s].pc \in {"offline", "oload", "osave"}
        /\ status' \in {"online", "offline"}
        /\ UNCHANGED <<home, agent, sock, session, current, route, kick,
                       troubles>>
    BY <1>2, <1>6 DEF MarkOffline, MarkOfflineLoad, MarkOfflineSave, At, TypeOK
  <2>4. \E e \in SlotTypes : slot' = [slot EXCEPT ![s] = e]
    BY <1>1, <2>1, <2>2
  <2> QED
    BY <1>1, <2>3, <2>4
<1>7. Goes
  BY <1>4, <1>5, <1>6 DEF Handler
<1>8. PICK e \in SlotTypes : slot' = [slot EXCEPT ![s] = e]
  BY <1>7
<1>9. /\ slot[s] # Idle
      /\ UNCHANGED <<home, sock, session, current>>
      /\ agent' \in {"up", "down"} /\ route' \in Sockets \cup {NoSocket}
      /\ kick' \in Processes \cup {NoProcess}
      /\ status' \in {"online", "offline"} /\ troubles' \in 0 .. MaxTroubles
  BY <1>2, <1>7 DEF TypeOK
<1> HIDE DEF Goes
<1> QED
  BY <1>8, <1>9, SlotGoesOn

\* authenticateSocket replaces the session of its process.
LEMMA AuthenticateKeeps ==
    ASSUME ConnInv, NEW k \in Sockets, AuthenticateSocket(k)
    PROVE  ConnInv'
<1> DEFINE s == <<k, "auth">>
           e == [slot[s] EXCEPT !.pc = "online", !.prev = current[home[k]]]
<1>1. TypeOK /\ SocketsOK /\ s \in Slots
  BY SlotsOfSockets DEF ConnInv, OneSessionPerProcess
<1>2. slot[s].pc = "check" /\ slot[s] # Idle
  BY DEF AuthenticateSocket, At, Idle
<1>3. sock[k] # "new" /\ home[k] \in Processes
  BY <1>1, <1>2 DEF SocketsOK
<1>4. /\ session' = (session \ {current[home[k]]}) \cup {k}
      /\ current' = [current EXCEPT ![home[k]] = k]
      /\ route' = k
      /\ UNCHANGED <<home, agent, sock, kick, status, troubles>>
  BY DEF AuthenticateSocket
<1>5. slot' = [slot EXCEPT ![s] = e] /\ e \in SlotTypes
  <2>1. slot[s] \in SlotTypes /\ current[home[k]] \in Sockets \cup {NoSocket}
    BY <1>1, <1>3 DEF TypeOK, ConnInv
  <2> QED
    BY <1>1, <2>1, SlotChanges DEF AuthenticateSocket, TypeOK
<1>6. \A j \in session' : current'[home[j]] = j
  BY <1>1, <1>3, <1>4 DEF ConnInv, OneSessionPerProcess, TypeOK
<1> HIDE DEF e
<1>7. /\ slot' \in [Slots -> SlotTypes]
      /\ \A o \in Slots : o # s => slot'[o] = slot[o]
  BY <1>1, <1>5 DEF ConnInv
<1>8. TypeOK'
  BY <1>1, <1>3, <1>4, <1>7 DEF TypeOK, SlotTypes, SlotRecords
<1>9. SocketsOK'
  <2>1. ASSUME NEW j \in Sockets, sock[j] = "new"
        PROVE  /\ j \notin session' /\ j # k
               /\ slot[<<j, "auth">>] = Idle /\ slot[<<j, "close">>] = Idle
    BY <1>1, <1>3, <1>4, <2>1 DEF SocketsOK
  <2> QED
    BY <1>1, <1>4, <1>7, <2>1, SlotsOfSockets, SocketsKeep
<1> QED
  BY <1>4, <1>6, <1>7, <1>8, <1>9 DEF ConnInv, OneSessionPerProcess

\* A handler of a socket, or of the node's heartbeats, begins.
LEMMA SlotBegins ==
    ASSUME ConnInv, NEW s \in Slots, NEW pc \in Pcs \ {"rsave"}, Goto(s, pc),
           UNCHANGED <<home, agent, sock, session, current, route, kick,
                       status, troubles>>,
           \A k \in Sockets : s \in {<<k, "auth">>, <<k, "close">>}
                                 => sock[k] # "new"
    PROVE  ConnInv'
<1>1. [slot[s] EXCEPT !.pc = pc] \in SlotTypes
  BY SlotChanges DEF ConnInv
<1>2. /\ slot' \in [Slots -> SlotTypes]
      /\ \A o \in Slots : o # s => slot'[o] = slot[o]
  BY <1>1 DEF Goto, ConnInv
<1>3. TypeOK'
  BY <1>2 DEF ConnInv, OneSessionPerProcess, TypeOK, SlotTypes, SlotRecords
<1>4. SocketsOK'
  <2>1. ASSUME NEW j \in Sockets, sock[j] = "new"
        PROVE  /\ j \notin session'
               /\ slot'[<<j, "auth">>] = Idle /\ slot'[<<j, "close">>] = Idle
    <3>1. /\ j \notin session /\ s # <<j, "auth">> /\ s # <<j, "close">>
          /\ slot[<<j, "auth">>] = Idle /\ slot[<<j, "close">>] = Idle
      BY <2>1 DEF ConnInv, SocketsOK
    <3> QED
      BY <1>2, <3>1, SlotsOfSockets
  <2> QED
    BY <2>1, SocketsKeep DEF ConnInv
<1> QED
  BY <1>2, <1>3, <1>4 DEF ConnInv, OneSessionPerProcess

\* A step that leaves slots, sessions and connections alone.
LEMMA LinksKeep ==
    ASSUME ConnInv, UNCHANGED <<home, sock, session, current, slot>>,
           agent' \in {"up", "down"}, route' \in Sockets \cup {NoSocket},
           kick' \in Processes \cup {NoProcess},
           status' \in {"online", "offline"}, troubles' \in 0 .. MaxTroubles
    PROVE  ConnInv'
BY DEF ConnInv, OneSessionPerProcess, TypeOK, SocketsOK

\* What a step may count, and what it leaves alone.
LEMMA TroubleOK ==
    ASSUME TypeOK
    PROVE  /\ Trouble => troubles' \in 0 .. MaxTroubles
           /\ agent' = agent => agent' \in {"up", "down"}
           /\ route' = route => route' \in Sockets \cup {NoSocket}
           /\ kick' = kick => kick' \in Processes \cup {NoProcess}
           /\ status' = status => status' \in {"online", "offline"}
           /\ troubles' = troubles => troubles' \in 0 .. MaxTroubles
BY ConnectionsAssumption DEF TypeOK, Trouble

\* One slot becomes idle.
LEMMA SlotStops ==
    ASSUME ConnInv, NEW s \in Slots
    PROVE  /\ [slot EXCEPT ![s] = Idle] \in [Slots -> SlotTypes]
           /\ slot \in [Slots -> SlotTypes]
           /\ \A o \in Slots : \/ [slot EXCEPT ![s] = Idle][o] = slot[o]
                               \/ [slot EXCEPT ![s] = Idle][o] = Idle
BY SlotsOfSockets DEF ConnInv

LEMMA ConnInit == Init => ConnInv
<1> SUFFICES ASSUME Init PROVE ConnInv
  OBVIOUS
<1>1. slot \in [Slots -> SlotTypes]
  BY SlotsOfSockets DEF Init
<1>2. TypeOK
  BY <1>1, ConnectionsAssumption DEF Init, TypeOK, SlotTypes, SlotRecords
<1>3. SocketsOK
  <2> SUFFICES ASSUME NEW k \in Sockets
               PROVE  /\ sock[k] = "new" /\ k \notin session
                      /\ slot[<<k, "auth">>] = Idle
                      /\ slot[<<k, "close">>] = Idle
    BY Zenon DEF SocketsOK
  <2>1. sock[k] = "new" /\ k \notin session
    BY DEF Init
  <2>2. \A s \in Slots : slot[s] = Idle
    BY DEF Init
  <2> QED
    BY <2>1, <2>2, SlotsOfSockets
<1> QED
  BY <1>1, <1>2, <1>3 DEF ConnInv, OneSessionPerProcess, Init

\* A process ends with its connections; so does a stopped agent.
LEMMA ProcessDiesKeeps ==
    ASSUME ConnInv, NEW p \in Processes, ProcessDies(p)
    PROVE  ConnInv'
<1> DEFINE K == {k \in Sockets : home[k] = p}
<1>1. TypeOK /\ SocketsOK
  BY DEF ConnInv, OneSessionPerProcess
<1>2. /\ Trouble
      /\ sock' = [k \in Sockets |->
                    IF k \in K /\ sock[k] # "new" THEN "closed" ELSE sock[k]]
      /\ session' = session \ K
      /\ current' = [current EXCEPT ![p] = NoSocket]
      /\ slot' = [s \in Slots |-> IF s \in K \X {"auth", "close"} THEN Idle
                                  ELSE slot[s]]
      /\ UNCHANGED <<home, agent, route, kick, status>>
  BY DEF ProcessDies
<1>3. /\ slot' \in [Slots -> SlotTypes]
      /\ \A o \in Slots : slot'[o] = slot[o] \/ slot'[o] = Idle
  BY <1>2, SlotsOfSockets DEF ConnInv
<1>4. TypeOK'
  BY <1>1, <1>2, <1>3, TroubleOK DEF TypeOK, SlotTypes, SlotRecords
<1>5. \A j \in session' : current'[home'[j]] = j
  <2> SUFFICES ASSUME NEW j \in session' PROVE current'[home[j]] = j
    BY <1>2
  <2>1. j \in session /\ j \in Sockets /\ home[j] # p
    BY <1>1, <1>2 DEF TypeOK
  <2>2. home[j] \in Processes /\ current[home[j]] = j
    BY <1>1, <2>1 DEF SocketsOK, ConnInv, OneSessionPerProcess
  <2> QED
    BY <1>1, <1>2, <2>1, <2>2 DEF TypeOK
<1>6. SocketsOK'
  <2>1. ASSUME NEW j \in Sockets
        PROVE  /\ sock'[j] = "new" <=> sock[j] = "new"
               /\ sock[j] = "new" => /\ j \notin session'
                                     /\ slot'[<<j, "auth">>] = Idle
                                     /\ slot'[<<j, "close">>] = Idle
    <3>1. sock'[j] = "new" <=> sock[j] = "new"
      BY <1>2
    <3>2. sock[j] = "new" => j \notin session'
      BY <1>1, <1>2 DEF SocketsOK
    <3>3. sock[j] = "new" => /\ slot'[<<j, "auth">>] = Idle
                             /\ slot'[<<j, "close">>] = Idle
      BY <1>1, <1>3, SlotsOfSockets DEF SocketsOK
    <3> QED
      BY <3>1, <3>2, <3>3
  <2> QED
    BY <1>1, <1>2, <2>1, SocketsKeep
<1> QED
  BY <1>3, <1>4, <1>5, <1>6 DEF ConnInv, OneSessionPerProcess

\* Connections that open and break.
LEMMA NetworkKeeps ==
    ASSUME ConnInv,
           \/ \E k \in Sockets : \/ ConnectionBreaks(k)
                                \/ \E p \in Processes : Connect(k, p)
           \/ AgentStops
    PROVE  ConnInv'
<1>1. TypeOK /\ SocketsOK
  BY DEF ConnInv, OneSessionPerProcess
<1>2. ASSUME NEW k \in Sockets, NEW p \in Processes, Connect(k, p)
      PROVE  ConnInv'
  <2>1. /\ sock[k] = "new" /\ sock' = [sock EXCEPT ![k] = "open"]
        /\ home' = [home EXCEPT ![k] = p]
        /\ UNCHANGED <<agent, session, current, route, kick, status, slot,
                       troubles>>
    BY <1>2 DEF Connect
  <2>2. TypeOK'
    BY <1>1, <2>1 DEF TypeOK
  <2>3. \A j \in Sockets : j # k => sock'[j] = sock[j] /\ home'[j] = home[j]
    BY <1>1, <2>1 DEF TypeOK
  <2>4. sock'[k] = "open" /\ home'[k] = p /\ k \notin session
    BY <1>1, <2>1 DEF TypeOK, SocketsOK
  <2>5. \A j \in session' : current'[home'[j]] = j
    BY <1>1, <2>1, <2>3, <2>4 DEF ConnInv, OneSessionPerProcess, TypeOK
  <2>6. SocketsOK'
    <3> SUFFICES ASSUME NEW j \in Sockets
                 PROVE  /\ sock'[j] # "new" => home'[j] \in Processes
                        /\ sock'[j] = "new" => /\ j \notin session'
                                               /\ slot'[<<j, "auth">>] = Idle
                                               /\ slot'[<<j, "close">>] = Idle
      BY Zenon DEF SocketsOK
    <3>1. /\ sock[j] # "new" => home[j] \in Processes
          /\ sock[j] = "new" => /\ j \notin session
                                /\ slot[<<j, "auth">>] = Idle
                                /\ slot[<<j, "close">>] = Idle
      BY <1>1 DEF SocketsOK
    <3> QED
      BY <2>1, <2>3, <2>4, <3>1
  <2> QED
    BY <2>1, <2>2, <2>5, <2>6 DEF ConnInv, OneSessionPerProcess
<1>3. ASSUME UNCHANGED <<home, session, current, route, kick, status, slot>>,
             agent' \in {"up", "down"}, troubles' \in 0 .. MaxTroubles,
             sock' \in [Sockets -> {"new", "open", "lost", "closed"}],
             \A j \in Sockets : sock'[j] = "new" <=> sock[j] = "new"
      PROVE  ConnInv'
  <2>1. TypeOK'
    BY <1>1, <1>3 DEF TypeOK
  <2>2. SocketsOK'
    <3>1. ASSUME NEW j \in Sockets, sock[j] = "new"
          PROVE  /\ j \notin session'
                 /\ slot'[<<j, "auth">>] = Idle /\ slot'[<<j, "close">>] = Idle
      BY <1>1, <1>3, <3>1 DEF SocketsOK
    <3> QED
      BY <1>1, <1>3, <3>1, SocketsKeep
  <2> QED
    BY <1>3, <2>1, <2>2 DEF ConnInv, OneSessionPerProcess
<1>4. ASSUME NEW k \in Sockets, ConnectionBreaks(k)
      PROVE  ConnInv'
  BY <1>1, <1>3, <1>4, TroubleOK DEF ConnectionBreaks, TypeOK
<1>5. CASE AgentStops
  BY <1>1, <1>3, <1>5 DEF AgentStops, TypeOK
<1> QED
  BY <1>2, <1>4, <1>5

\* Disconnects: of the socket, the timer, an operator, another process, or a
\* handler that throws.
LEMMA DisconnectsKeep ==
    ASSUME ConnInv,
           \/ \E k \in Sockets : \/ SocketCloses(k) \/ MessageBeforeAuth(k)
                                \/ EnforceHeartbeatTimeouts(k)
                                \/ AuthAcknowledged(k)
           \/ \E p \in Processes : DisconnectNode(p)
           \/ HandleRoutedEventMessage
           \/ \E s \in Slots : HandlerThrows(s)
    PROVE  ConnInv'
<1>1. TypeOK /\ SocketsOK /\ slot \in [Slots -> SlotTypes]
  BY DEF ConnInv, OneSessionPerProcess
<1>2. ASSUME NEW k \in Sockets, sock[k] # "new", home' = home,
             \/ Drop(k, slot)
             \/ HandleSocketDisconnect(k, slot) /\ UNCHANGED sock,
             UNCHANGED <<agent, route, kick, status>>,
             Trouble \/ troubles' = troubles
      PROVE  ConnInv'
  BY <1>1, <1>2, TroubleOK, DisconnectKeeps DEF Drop
<1>3. ASSUME NEW k \in Sockets, SocketCloses(k)
      PROVE  ConnInv'
  BY <1>2, <1>3 DEF SocketCloses
<1>4. ASSUME NEW k \in Sockets, MessageBeforeAuth(k)
      PROVE  ConnInv'
  BY <1>2, <1>4 DEF MessageBeforeAuth
<1>5. ASSUME NEW k \in Sockets, EnforceHeartbeatTimeouts(k)
      PROVE  ConnInv'
  <2>1. sock[k] # "new"
    BY <1>1, <1>5 DEF EnforceHeartbeatTimeouts, SocketsOK
  <2> QED
    BY <1>2, <1>5, <2>1 DEF EnforceHeartbeatTimeouts
<1>6. ASSUME NEW k \in Sockets, AuthAcknowledged(k)
      PROVE  ConnInv'
  <2> DEFINE s == <<k, "auth">>
             j == IF slot[s].prev = k THEN NoSocket ELSE slot[s].prev
             t == [slot EXCEPT ![s] = Idle]
  <2>1. s \in Slots
    BY SlotsOfSockets
  <2>2. slot[s] \in SlotRecords
    BY <1>1, <2>1 DEF SlotTypes
  <2>3. j \in Sockets \cup {NoSocket}
    BY <2>2 DEF SlotRecords
  <2>4. /\ t \in [Slots -> SlotTypes]
        /\ \A o \in Slots : t[o] = slot[o] \/ t[o] = Idle
    BY <2>1, SlotStops
  <2>5. /\ DropIfPresent(j, t)
        /\ UNCHANGED <<home, agent, route, kick, status, troubles>>
    BY <1>6 DEF AuthAcknowledged
  <2> HIDE DEF j, t
  <2> QED
    BY <1>1, <2>3, <2>4, <2>5, TroubleOK, DropKeeps
<1>7. ASSUME NEW p \in Processes, DisconnectNode(p)
      PROVE  ConnInv'
  <2>1. Trouble /\ UNCHANGED <<home, agent, route, status>>
    BY <1>7 DEF DisconnectNode
  <2>2. CASE current[p] # NoSocket
    <3>1. /\ DropIfPresent(current[p], slot) /\ UNCHANGED kick
          /\ current[p] \in Sockets \cup {NoSocket}
      BY <1>1, <1>7, <2>2 DEF DisconnectNode, TypeOK
    <3> QED
      BY <1>1, <2>1, <3>1, TroubleOK, DropKeeps
  <2>3. CASE current[p] = NoSocket
    <3>1. /\ route # NoSocket /\ kick' = home[route]
          /\ UNCHANGED <<sock, session, current, slot>>
      BY <1>7, <2>3 DEF DisconnectNode
    <3>2. kick' \in Processes \cup {NoProcess}
      BY <1>1, <3>1 DEF TypeOK
    <3> QED
      BY <1>1, <2>1, <3>1, <3>2, TroubleOK, LinksKeep
  <2> QED
    BY <2>2, <2>3
<1>8. CASE HandleRoutedEventMessage
  <2>1. /\ DropIfPresent(current[kick], slot) /\ kick' = NoProcess
        /\ UNCHANGED <<home, agent, route, status, troubles>>
        /\ current[kick] \in Sockets \cup {NoSocket}
    BY <1>1, <1>8 DEF HandleRoutedEventMessage, TypeOK
  <2> QED
    BY <1>1, <2>1, TroubleOK, DropKeeps
<1>9. ASSUME NEW s \in Slots, HandlerThrows(s)
      PROVE  ConnInv'
  <2> DEFINE t == [slot EXCEPT ![s] = Idle]
  <2>1. /\ t \in [Slots -> SlotTypes]
        /\ \A o \in Slots : t[o] = slot[o] \/ t[o] = Idle
    BY SlotStops
  <2>2. /\ Trouble /\ UNCHANGED <<home, agent, route, kick, status>>
        /\ \E k \in Sockets \cup {NoSocket} : DropIfPresent(k, t)
    BY <1>9 DEF HandlerThrows, DropIfPresent
  <2> HIDE DEF t
  <2> QED
    BY <1>1, <2>1, <2>2, TroubleOK, DropKeeps
<1> QED
  BY <1>3, <1>4, <1>5, <1>6, <1>7, <1>8, <1>9

LEMMA NextConn == ConnInv /\ [Next]_vars => ConnInv'
<1> SUFFICES ASSUME ConnInv, [Next]_vars PROVE ConnInv'
  OBVIOUS
<1>1. TypeOK /\ SocketsOK
  BY DEF ConnInv, OneSessionPerProcess
<1>2. ASSUME NEW k \in Sockets, \/ ClearNodeRouteIfOwned(k) \/ DeleteRoute(k)
      PROVE  ConnInv'
  <2> DEFINE s == <<k, "close">>
  <2>1. s \in Slots
    BY SlotsOfSockets, Zenon
  <2>2. slot[s] # Idle /\ slot[s] \in SlotTypes
    <3>1. slot[s].pc \in {"route", "del"} /\ Idle.pc = "idle"
      BY <1>2 DEF ClearNodeRouteIfOwned, DeleteRoute, At, Idle
    <3> QED
      BY <2>1, <3>1 DEF ConnInv
  <2>3. /\ [slot[s] EXCEPT !.pc = "del"] \in SlotTypes
        /\ [slot[s] EXCEPT !.pc = "offline"] \in SlotTypes
    <3>1. \A pc \in Pcs \ {"rsave"} : [slot[s] EXCEPT !.pc = pc] \in SlotTypes
      BY <2>2, SlotChanges, Zenon
    <3> QED
      BY <3>1 DEF Pcs
  <2>4. PICK pc \in {"del", "offline"} :
           slot' = [slot EXCEPT ![s] = [slot[s] EXCEPT !.pc = pc]]
    BY <1>2 DEF ClearNodeRouteIfOwned, DeleteRoute, Goto
  <2>5. /\ UNCHANGED <<home, agent, sock, session, current, kick, status,
                       troubles>>
        /\ route' \in Sockets \cup {NoSocket}
    BY <1>1, <1>2 DEF ClearNodeRouteIfOwned, DeleteRoute, links, TypeOK
  <2> QED
    BY <1>1, <2>1, <2>2, <2>3, <2>4, <2>5, TroubleOK, SlotGoesOn
<1>3. CASE Heartbeat \/ Register \/ \E k \in Sockets : HandleAgentMetrics(k)
  <2>1. PICK pc \in Pcs \ {"rsave"} : Goto(Beats, pc)
    BY <1>3 DEF Heartbeat, Register, HandleAgentMetrics, Pcs
  <2>2. UNCHANGED <<home, agent, sock, session, current, route, kick, status,
                    troubles>>
    BY <1>3 DEF Heartbeat, Register, HandleAgentMetrics, links
  <2> QED
    BY <2>1, <2>2, SlotsOfSockets, SlotBegins
<1>4. ASSUME NEW k \in Sockets, HandleAgentAuth(k)
      PROVE  ConnInv'
  <2>1. /\ sock[k] = "open" /\ Goto(<<k, "auth">>, "check")
        /\ UNCHANGED <<home, agent, sock, session, current, route, kick,
                       status, troubles>>
    BY <1>4 DEF HandleAgentAuth, links
  <2>2. "check" \in Pcs \ {"rsave"}
    BY DEF Pcs
  <2>3. \A j \in Sockets : <<k, "auth">> \in {<<j, "auth">>, <<j, "close">>}
                             => sock[j] # "new"
    BY <2>1, SlotsOfSockets
  <2> QED
    BY <2>1, <2>2, <2>3, SlotsOfSockets, SlotBegins
<1>5. CASE \/ RouteExpires \/ MarkStaleNodesOffline
           \/ \E k \in Sockets : RegisterPing(k)
  <2>1. /\ UNCHANGED <<home, agent, sock, session, current, kick, slot>>
        /\ route' \in Sockets \cup {NoSocket}
        /\ status' \in {"online", "offline"}
        /\ Trouble \/ troubles' = troubles
    BY <1>1, <1>5
       DEF RouteExpires, MarkStaleNodesOffline, RegisterPing, links, TypeOK
  <2> QED
    BY <1>1, <2>1, TroubleOK, LinksKeep
<1>6. CASE SocketHandlers
  BY <1>2, <1>6, SlotsOfSockets, HandlersKeep, AuthenticateKeeps,
     DisconnectsKeep, Zenon DEF SocketHandlers
<1>7. CASE HeartbeatHandler
  BY <1>3, <1>7, SlotsOfSockets, HandlersKeep DEF HeartbeatHandler
<1>8. CASE Timers
  BY <1>5, <1>8, DisconnectsKeep DEF Timers
<1>9. ASSUME NEW k \in Sockets,
             \/ \E p \in Processes : Connect(k, p)
             \/ ConnectionBreaks(k) \/ SocketCloses(k)
             \/ HandleAgentAuth(k) \/ MessageBeforeAuth(k) \/ RegisterPing(k)
             \/ HandleAgentMetrics(k) \/ EnforceHeartbeatTimeouts(k)
      PROVE  ConnInv'
  BY <1>3, <1>4, <1>5, <1>9, NetworkKeeps, DisconnectsKeep, Zenon
<1>10. CASE UNCHANGED vars
  BY <1>1, <1>10, TroubleOK, LinksKeep DEF vars
<1> QED
  BY <1>3, <1>5, <1>6, <1>7, <1>8, <1>9, <1>10, NetworkKeeps,
     DisconnectsKeep, ProcessDiesKeeps, Zenon DEF Next

\* A process has one session of the node at most, that of its current socket:
\* a replaced socket speaks for the node no more, whatever authentications,
\* disconnects, timeouts, kicks and deaths of processes have overtaken one
\* another (authenticateSocket, handleSocketDisconnect).
THEOREM OneSessionHolds == Spec => []OneSessionPerProcess
<1>1. ConnInv => OneSessionPerProcess
  BY DEF ConnInv
<1> QED
  BY <1>1, ConnInit, NextConn, PTL DEF Spec
=============================================================================
