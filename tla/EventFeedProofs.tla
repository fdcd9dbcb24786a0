-------------------------- MODULE EventFeedProofs --------------------------
(***************************************************************************)
(* Theorems about EventFeed, for any number of tasks, pages and changes.   *)
(***************************************************************************)
EXTENDS EventFeed, TLAPS

-----------------------------------------------------------------------------
(* Type correctness. *)

LEMMA NextType == TypeOK /\ [Next]_vars => TypeOK'
<1> SUFFICES ASSUME TypeOK, [Next]_vars PROVE TypeOK'
  OBVIOUS
<1> USE FeedAssumption DEF TypeOK, Versions, gate, tasks, sockets, page
<1>1. ASSUME NEW t \in Tasks, Change(t) PROVE TypeOK'
  <2>1. stage' = [stage EXCEPT ![t] = "sending"] /\ targets' = [targets EXCEPT ![t] = channel]
    BY <1>1 DEF Change, Copy
  <2>2. ver' = ver + 1 /\ ver < MaxChanges /\ mine' = [mine EXCEPT ![t] = ver + 1] /\ sealed' \in BOOLEAN
    BY <1>1 DEF Change
  <2>3. PICK b \in BOOLEAN : auto' = [auto EXCEPT ![t] = b]
    BY <1>1, <2>2 DEF Change
  <2>4. UNCHANGED <<channel, sockets, page, told>>
    BY <1>1 DEF Change
  <2>5. stage' \in [Tasks -> Stages]
    BY <2>1 DEF Stages
  <2> QED BY <2>1, <2>2, <2>3, <2>4, <2>5
<1>2. ASSUME NEW t \in Tasks, NEW w \in Pages, Deliver(t, w) PROVE TypeOK'
  BY <1>2 DEF Deliver, SentTo, Pull, Later
<1>3. ASSUME NEW t \in Tasks, NEW w \in Pages, Lose(t, w) \/ Drop(t, w) PROVE TypeOK'
  BY <1>3 DEF Lose, Drop, SentTo
<1>4. ASSUME NEW t \in Tasks, EndPublish(t) PROVE TypeOK'
  BY <1>4 DEF EndPublish, Stages
<1>5. ASSUME NEW t \in Tasks, SealRemote(t) PROVE TypeOK'
  BY <1>5 DEF SealRemote, Copy, Stages
<1>6. ASSUME NEW w \in Pages, Serve(w) PROVE TypeOK'
  BY <1>6 DEF Serve, Ask, Refuse, Join, Leave, Awaits
<1>7. ASSUME NEW w \in Pages, Mount(w) PROVE TypeOK'
  BY <1>7 DEF Mount, Fresh, Awaits
<1>8. ASSUME NEW w \in Pages, Hangup(w) \/ Break(w) PROVE TypeOK'
  <2>1. CASE Hangup(w)
    BY <2>1 DEF Hangup, Fresh
  <2>2. CASE Break(w)
    <3>1. handler' = [handler EXCEPT ![w] = "none"] /\ alive' = [alive EXCEPT ![w] = FALSE]
      BY <2>2 DEF Break
    <3>2. Fresh(w, 0) /\ UNCHANGED <<gate, channel, tasks>>
      BY <2>2 DEF Break
    <3>3. handler' \in [Pages -> Awaits]
      BY <3>1 DEF Awaits
    <3> QED BY <3>1, <3>2, <3>3 DEF Fresh
  <2> QED BY <1>8, <2>1, <2>2
<1>9. ASSUME NEW w \in Pages, Answer(w) PROVE TypeOK'
  BY <1>9 DEF Answer
<1>10. ASSUME NEW w \in Pages, Apply(w) PROVE TypeOK'
  BY <1>10 DEF Apply, Later
<1>11. CASE UNCHANGED vars
  BY <1>11 DEF vars
<1> QED BY <1>1, <1>2, <1>3, <1>4, <1>5, <1>6, <1>7, <1>8, <1>9, <1>10, <1>11
        DEF Next, Publish, Send

(***************************************************************************)
(* Every state has its type; in particular a socket of the channel has an  *)
(* endpoint that reads from it, or is dead, whoever removes them.          *)
(***************************************************************************)
THEOREM FeedTypeCorrect == Spec => []TypeOK
<1>1. Init => TypeOK
  BY FeedAssumption DEF Init, TypeOK, Versions, Stages, Awaits
<1> QED BY <1>1, NextType, PTL DEF Spec

-----------------------------------------------------------------------------
(* What a page shows. *)

(***************************************************************************)
(* ShowsWhatItWasTold speaks of pages at rest.  What leads there is that a *)
(* page behind what it was told has a request that the server has not read *)
(* yet, or a response that is new enough on the way.                       *)
(***************************************************************************)
Pending(w) ==
    \/ newest[w] >= told[w]
    \/ asked[w] > 0
    \/ \E v \in answers[w] : v >= told[w]

FeedInv ==
    /\ \A t \in Tasks : mine[t] <= ver
    /\ \A w \in Pages : /\ told[w] <= ver
                        /\ shown[w] # Unknown => newest[w] >= shown[w]
                        /\ Pending(w)

LEMMA NextFeed == TypeOK /\ FeedInv /\ [Next]_vars => FeedInv'
<1> SUFFICES ASSUME TypeOK, FeedInv, [Next]_vars PROVE FeedInv'
  OBVIOUS
<1> USE FeedAssumption DEF TypeOK, Versions, FeedInv, Pending, gate, tasks, sockets, page
<1>1. ASSUME NEW t \in Tasks, Change(t) PROVE FeedInv'
  <2>1. ver' = ver + 1 /\ mine' = [mine EXCEPT ![t] = ver + 1]
    BY <1>1 DEF Change
  <2>2. UNCHANGED <<page, told>>
    BY <1>1 DEF Change
  <2> QED BY <2>1, <2>2
<1>2. ASSUME NEW t \in Tasks, NEW w \in Pages, Deliver(t, w) PROVE FeedInv'
  BY <1>2 DEF Deliver, SentTo, Pull, Later
<1>3. ASSUME NEW t \in Tasks, NEW w \in Pages, Lose(t, w) \/ Drop(t, w) PROVE FeedInv'
  BY <1>3 DEF Lose, Drop
<1>4. ASSUME NEW t \in Tasks, EndPublish(t) \/ SealRemote(t) PROVE FeedInv'
  BY <1>4 DEF EndPublish, SealRemote
<1>5. ASSUME NEW w \in Pages, Serve(w) PROVE FeedInv'
  BY <1>5 DEF Serve, Ask, Refuse, Join, Leave
<1>6. ASSUME NEW w \in Pages, Mount(w) \/ Hangup(w) \/ Break(w) PROVE FeedInv'
  BY <1>6 DEF Mount, Hangup, Break, Fresh
<1>7. ASSUME NEW w \in Pages, Answer(w) PROVE FeedInv'
  BY <1>7 DEF Answer
<1>8. ASSUME NEW w \in Pages, Apply(w) PROVE FeedInv'
  <2>1. PICK v \in answers[w] :
          /\ answers' = [answers EXCEPT ![w] = @ \ {v}]
          /\ \E s \in {v, Unknown} : shown' = [shown EXCEPT ![w] = s]
          /\ newest' = [newest EXCEPT ![w] = Later(@, v)]
          /\ UNCHANGED <<gate, channel, tasks, sockets, asked, told>>
    BY <1>8 DEF Apply
  <2>2. newest'[w] >= newest[w] /\ newest'[w] >= v
    BY <2>1 DEF Later
  <2>3. Pending(w)'
    <3>1. newest'[w] \in Nat /\ newest[w] \in Nat /\ v \in Nat /\ told[w] \in Nat
      BY <2>1 DEF Later
    <3>2. CASE newest[w] >= told[w] \/ v >= told[w]
      BY <2>1, <2>2, <3>1, <3>2
    <3>3. CASE asked[w] > 0
      BY <2>1, <3>3
    <3>4. CASE \E x \in answers[w] \ {v} : x >= told[w]
      BY <2>1, <3>4
    <3> QED BY <3>2, <3>3, <3>4
  <2>4. shown'[w] # Unknown => newest'[w] >= shown'[w]
    <3>1. shown'[w] \in {v, Unknown}
      BY <2>1
    <3> QED BY <2>2, <3>1
  <2>5. \A x \in Pages \ {w} :
          newest'[x] = newest[x] /\ shown'[x] = shown[x] /\ answers'[x] = answers[x]
    BY <2>1
  <2> QED BY <2>1, <2>3, <2>4, <2>5
<1>9. CASE UNCHANGED vars
  BY <1>9 DEF vars
<1> QED BY <1>1, <1>2, <1>3, <1>4, <1>5, <1>6, <1>7, <1>8, <1>9 DEF Next, Publish, Send

(***************************************************************************)
(* A page at rest shows no state older than what it was told, unless a     *)
(* response overtook another: for any number of publishers and pages.      *)
(***************************************************************************)
THEOREM PagesCatchUp == Spec => []ShowsWhatItWasTold
<1>1. Init => FeedInv
  BY FeedAssumption DEF Init, FeedInv, Pending
<1>2. TypeOK /\ FeedInv => ShowsWhatItWasTold
  BY DEF TypeOK, Versions, FeedInv, Pending, ShowsWhatItWasTold, Settled
<1> QED BY <1>1, <1>2, FeedTypeCorrect, NextFeed, PTL DEF Spec

(***************************************************************************)
(* No live socket of a copy is passed over, whichever others die.          *)
(***************************************************************************)
THEOREM OnlyTheDeadArePassedOver == Spec => PassesOverTheDeadOnly
<1>1. ASSUME TypeOK, [Next]_vars, NEW t \in Tasks, NEW w \in targets[t] \ targets'[t]
      PROVE  told'[w] >= mine[t] \/ ~alive[w]
  <2> USE <1>1 DEF TypeOK, Versions, gate, tasks, sockets, page
  <2>1. CASE \E s \in Tasks, x \in Pages : Deliver(s, x)
    <3>1. PICK s \in Tasks, x \in Pages : Deliver(s, x)
      BY <2>1
    <3>2. s = t /\ x = w
      BY <3>1 DEF Deliver, SentTo
    <3> QED BY <3>1, <3>2 DEF Deliver, Later
  <2>2. CASE \E s \in Tasks, x \in Pages : Lose(s, x) \/ Drop(s, x)
    BY <2>2 DEF Lose, Drop, SentTo
  <2>3. ASSUME NEW s \in Tasks, Change(s) \/ SealRemote(s) PROVE FALSE
    BY <2>3 DEF Change, SealRemote, Copy
  <2>4. CASE UNCHANGED targets
    BY <2>4
  <2>5. ASSUME NEW s \in Tasks, EndPublish(s) PROVE UNCHANGED targets
    BY <2>5 DEF EndPublish
  <2>6. ASSUME NEW x \in Pages, Serve(x) \/ Break(x) \/ Mount(x) \/ Hangup(x) \/ Answer(x) \/ Apply(x)
        PROVE  UNCHANGED targets
    BY <2>6 DEF Serve, Ask, Refuse, Join, Leave, Break, Mount, Hangup, Answer, Apply
  <2> QED BY <2>1, <2>2, <2>3, <2>4, <2>5, <2>6 DEF Next, Publish, Send, vars
<1>2. TypeOK /\ [Next]_vars =>
        [\A t \in Tasks : \A w \in targets[t] \ targets'[t] : told'[w] >= mine[t] \/ ~alive[w]]_vars
  BY <1>1
<1> QED BY <1>2, FeedTypeCorrect, PTL DEF Spec, PassesOverTheDeadOnly
=============================================================================
