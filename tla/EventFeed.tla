----------------------------- MODULE EventFeed -----------------------------
(***************************************************************************)
(* The "vault" channel of the event bus (backend/services/events.py), the  *)
(* websocket endpoint that joins it (backend/main.py), the tasks that      *)
(* change the gatekeeper and publish (backend/vault/service.py), and the   *)
(* dashboard that answers each event with a status request of its own      *)
(* (frontend/src/pages/Dashboard.tsx).                                     *)
(*                                                                         *)
(* The gatekeeper changes under its lock, and the task that changed it     *)
(* keeps running until it has copied the channel's sockets: no status      *)
(* request gets between the two, so the change and the copy are one step.  *)
(* Every send is a step of its own.  A state of the gatekeeper is the      *)
(* number of changes that led to it.  The other channels differ only in    *)
(* what their pages fetch.                                                 *)
(***************************************************************************)
EXTENDS Naturals

CONSTANTS
    Tasks,       \* requests that publish
    Pages,       \* open dashboards, each with a socket of its own
    MaxChanges,  \* bound on the changes of the gatekeeper
    Unknown      \* what a page shows that has no status

ASSUME FeedAssumption == MaxChanges \in Nat /\ Unknown \notin Nat

VARIABLES
    ver,      \* changes of the gatekeeper so far
    sealed,   \* the gatekeeper is closed
    channel,  \* _channels["vault"]
    stage,    \* the await each task is at
    auto,     \* the task is an auto-seal that has not reached the remote Vault
    mine,     \* the change the task publishes
    targets,  \* sockets of the copy not sent to yet
    alive,    \* the page's end of its socket
    handler,  \* the await the page's websocket endpoint is at
    asked,    \* status requests of the page that the server has not read
    answers,  \* status responses on their way to the page
    shown,    \* the status on the page
    newest,   \* history: the latest state that reached the page
    told      \* history: the latest change an event told the page of

gate == <<ver, sealed>>
tasks == <<stage, auto, mine, targets>>
sockets == <<alive, handler>>
page == <<asked, answers, shown, newest>>
vars == <<gate, channel, tasks, sockets, page, told>>

Versions == 0..MaxChanges
Stages == {"idle", "sending", "remote"}
Awaits == {"none", "ask", "join", "open"}

TypeOK ==
    /\ ver \in Versions
    /\ sealed \in BOOLEAN
    /\ channel \subseteq Pages
    /\ stage \in [Tasks -> Stages]
    /\ auto \in [Tasks -> BOOLEAN]
    /\ mine \in [Tasks -> Versions]
    /\ targets \in [Tasks -> SUBSET Pages]
    /\ \A t \in Tasks : auto[t] => stage[t] # "idle"
    /\ \A t \in Tasks : targets[t] # {} => stage[t] = "sending"
    /\ alive \in [Pages -> BOOLEAN]
    /\ handler \in [Pages -> Awaits]
    /\ \A w \in channel : handler[w] = "open" \/ (handler[w] = "none" /\ ~alive[w])
    /\ asked \in [Pages -> Nat]
    /\ answers \in [Pages -> SUBSET Versions]
    /\ shown \in [Pages -> Versions \cup {Unknown}]
    /\ newest \in [Pages -> Versions]
    /\ told \in [Pages -> Versions]

Init ==
    /\ ver = 0 /\ sealed = TRUE
    /\ channel = {}
    /\ stage = [t \in Tasks |-> "idle"]
    /\ auto = [t \in Tasks |-> FALSE]
    /\ mine = [t \in Tasks |-> 0]
    /\ targets = [t \in Tasks |-> {}]
    /\ alive = [w \in Pages |-> FALSE]
    /\ handler = [w \in Pages |-> "none"]
    /\ asked = [w \in Pages |-> 0]
    /\ answers = [w \in Pages |-> {}]
    /\ shown = [w \in Pages |-> Unknown]
    /\ newest = [w \in Pages |-> 0]
    /\ told = [w \in Pages |-> 0]

Later(v, w) == IF v > w THEN v ELSE w

-----------------------------------------------------------------------------
(* EventBus.publish *)

(* targets = list(self._channels[channel]) *)
Copy(t) ==
    /\ stage' = [stage EXCEPT ![t] = "sending"]
    /\ targets' = [targets EXCEPT ![t] = channel]

(* initialize, submit_share and seal; only a seal may be an auto-seal. *)
Change(t) ==
    /\ stage[t] = "idle"
    /\ ver < MaxChanges
    /\ ver' = ver + 1
    /\ mine' = [mine EXCEPT ![t] = ver + 1]
    /\ sealed' \in BOOLEAN
    /\ auto' \in {[auto EXCEPT ![t] = b] : b \in {FALSE, sealed'}}
    /\ Copy(t)
    /\ UNCHANGED <<channel, sockets, page, told>>

(* Seeded bug: no second request while one is under way. *)
PullOnce(w) == IF asked[w] = 0 /\ answers[w] = {} THEN 1 ELSE asked[w]
Pull(w) == asked[w] + 1

SentTo(t, w) ==
    /\ stage[t] = "sending"
    /\ w \in targets[t]
    /\ targets' = [targets EXCEPT ![t] = @ \ {w}]

(* The event arrives, and the page asks for the status. *)
Deliver(t, w) ==
    /\ SentTo(t, w)
    /\ alive[w]
    /\ told' = [told EXCEPT ![w] = Later(@, mine[t])]
    /\ asked' = [asked EXCEPT ![w] = Pull(w)]
    /\ UNCHANGED <<gate, channel, stage, auto, mine, sockets, answers, shown, newest>>

(* A send to a socket whose other end is gone may still go unnoticed, as    *)
(* long as the endpoint has not ended.                                      *)
Lose(t, w) ==
    /\ SentTo(t, w)
    /\ ~alive[w] /\ handler[w] # "none"
    /\ UNCHANGED <<gate, channel, stage, auto, mine, sockets, page, told>>

(* Seeded bug: the exception ends the loop. *)
DropAndBreak(t, w) ==
    /\ stage[t] = "sending" /\ w \in targets[t] /\ ~alive[w]
    /\ targets' = [targets EXCEPT ![t] = {}]
    /\ UNCHANGED <<gate, channel, stage, auto, mine, sockets, page, told>>

(* Seeded bug: the exception leaves publish, and its caller. *)
DropRaising(t, w) ==
    /\ stage[t] = "sending" /\ w \in targets[t] /\ ~alive[w]
    /\ stage' = [stage EXCEPT ![t] = "idle"]
    /\ targets' = [targets EXCEPT ![t] = {}]
    /\ UNCHANGED <<gate, channel, auto, mine, sockets, page, told>>

(* Seeded bug: the exception is swallowed and the socket kept. *)
DropKeeping(t, w) ==
    /\ SentTo(t, w)
    /\ ~alive[w]
    /\ UNCHANGED <<gate, channel, stage, auto, mine, sockets, page, told>>

(* ... or raises, and the socket leaves the channel. *)
Drop(t, w) ==
    /\ SentTo(t, w)
    /\ ~alive[w]
    /\ channel' = channel \ {w}
    /\ UNCHANGED <<gate, stage, auto, mine, sockets, page, told>>

EndPublish(t) ==
    /\ stage[t] = "sending"
    /\ targets[t] = {}
    /\ stage' = [stage EXCEPT ![t] = IF auto[t] THEN "remote" ELSE "idle"]
    /\ UNCHANGED <<gate, channel, auto, mine, targets, sockets, page, told>>

(* seal_vault_remote, whose failure is logged, and the "auto_sealed" event. *)
SealRemote(t) ==
    /\ stage[t] = "remote"
    /\ auto' = [auto EXCEPT ![t] = FALSE]
    /\ Copy(t)
    /\ UNCHANGED <<gate, channel, mine, sockets, page, told>>

-----------------------------------------------------------------------------
(* The websocket endpoint. *)

Allowed == ~sealed

Ask(w) ==
    /\ handler[w] = "ask"
    /\ Allowed
    /\ handler' = [handler EXCEPT ![w] = "join"]
    /\ UNCHANGED <<gate, channel, tasks, alive, page, told>>

(* The server closes the socket; the page never opens another. *)
Refuse(w) ==
    /\ handler[w] = "ask"
    /\ ~Allowed
    /\ handler' = [handler EXCEPT ![w] = "none"]
    /\ alive' = [alive EXCEPT ![w] = FALSE]
    /\ UNCHANGED <<gate, channel, tasks, page, told>>

(* EventBus.connect, once the handshake is through. *)
Join(w) ==
    /\ handler[w] = "join"
    /\ handler' = [handler EXCEPT ![w] = "open"]
    /\ channel' = channel \cup {w}
    /\ UNCHANGED <<gate, tasks, alive, page, told>>

(* receive_text raises WebSocketDisconnect. *)
Leave(w) ==
    /\ handler[w] = "open"
    /\ ~alive[w]
    /\ handler' = [handler EXCEPT ![w] = "none"]
    /\ channel' = channel \ {w}
    /\ UNCHANGED <<gate, tasks, alive, page, told>>

-----------------------------------------------------------------------------
(* The dashboard, and clients that are none. *)

(* A page's state when it has n requests under way and nothing else. *)
Fresh(w, n) ==
    /\ asked' = [asked EXCEPT ![w] = n]
    /\ answers' = [answers EXCEPT ![w] = {}]
    /\ shown' = [shown EXCEPT ![w] = Unknown]
    /\ newest' = [newest EXCEPT ![w] = 0]
    /\ told' = [told EXCEPT ![w] = 0]

(* The effect asks for everything once and opens a socket that is not in    *)
(* any use yet.                                                             *)
Mount(w) ==
    /\ ~alive[w] /\ handler[w] = "none" /\ w \notin channel
    /\ \A t \in Tasks : w \notin targets[t]
    /\ alive' = [alive EXCEPT ![w] = TRUE]
    /\ handler' = [handler EXCEPT ![w] = "ask"]
    /\ Fresh(w, 1)
    /\ UNCHANGED <<gate, channel, tasks>>

(* The page is left, whether its socket lives or not, and whatever it waits *)
(* for comes to nothing.                                                    *)
Hangup(w) ==
    /\ alive' = [alive EXCEPT ![w] = FALSE]
    /\ Fresh(w, 0)
    /\ UNCHANGED <<gate, channel, tasks, handler>>

(* Whatever else receive_text raises, as it does for a binary frame, ends   *)
(* the endpoint and its connection, and the socket stays in the channel.    *)
(* A client that sends one is no dashboard: what it asks for ends here.     *)
Break(w) ==
    /\ handler[w] = "open"
    /\ alive[w]
    /\ handler' = [handler EXCEPT ![w] = "none"]
    /\ alive' = [alive EXCEPT ![w] = FALSE]
    /\ Fresh(w, 0)
    /\ UNCHANGED <<gate, channel, tasks>>

(* read_vault_status *)
Answer(w) ==
    /\ asked[w] > 0
    /\ asked' = [asked EXCEPT ![w] = @ - 1]
    /\ answers' = [answers EXCEPT ![w] = @ \cup {ver}]
    /\ UNCHANGED <<gate, channel, tasks, sockets, shown, newest, told>>

(* Responses arrive in any order; a failed one shows as no status. *)
Apply(w) == \E v \in answers[w] :
    /\ answers' = [answers EXCEPT ![w] = @ \ {v}]
    /\ \E s \in {v, Unknown} : shown' = [shown EXCEPT ![w] = s]
    /\ newest' = [newest EXCEPT ![w] = Later(@, v)]
    /\ UNCHANGED <<gate, channel, tasks, sockets, asked, told>>

Send(t) == \E w \in Pages : Deliver(t, w) \/ Lose(t, w) \/ Drop(t, w)
Publish(t) == Send(t) \/ EndPublish(t) \/ SealRemote(t)
Serve(w) == Ask(w) \/ Refuse(w) \/ Join(w) \/ Leave(w)

Next ==
    \/ \E t \in Tasks : Change(t) \/ Publish(t)
    \/ \E w \in Pages : Serve(w) \/ Break(w) \/ Mount(w) \/ Hangup(w) \/ Answer(w) \/ Apply(w)

(* The event loop runs every task and every endpoint that can go on. *)
Fairness ==
    /\ \A t \in Tasks : WF_vars(Publish(t))
    /\ \A w \in Pages : WF_vars(Serve(w))

Spec == Init /\ [][Next]_vars
FairSpec == Spec /\ Fairness

-----------------------------------------------------------------------------
(* Properties. *)

Settled(w) == asked[w] = 0 /\ answers[w] = {}

(***************************************************************************)
(* A page with no request under way shows a state no older than the last   *)
(* change it was told of, or no state, or one that overtook a newer        *)
(* response on the way: publishers may send their events in any order, for *)
(* the page asks anew after each.                                          *)
(***************************************************************************)
ShowsWhatItWasTold == \A w \in Pages : Settled(w) =>
    \/ shown[w] = Unknown
    \/ shown[w] >= told[w]
    \/ newest[w] > shown[w]

(***************************************************************************)
(* A publisher passes over a socket of its copy only when that socket is   *)
(* dead: whichever sockets die under way, every live one has then been     *)
(* told of this change or a later one.                                     *)
(***************************************************************************)
PassesOverTheDeadOnly == [][\A t \in Tasks : \A w \in targets[t] \ targets'[t] :
    told'[w] >= mine[t] \/ ~alive[w]]_vars

(***************************************************************************)
(* Sockets, dead or alive, do not keep an auto-seal from the remote Vault, *)
(* though its first event is sent before.                                  *)
(***************************************************************************)
AutoSealReachesRemote == \A t \in Tasks : auto[t] ~> stage[t] = "remote"

(***************************************************************************)
(* A dead socket leaves the channel: by its endpoint if that still serves  *)
(* it, and if the endpoint has ended without telling the bus, by the first *)
(* publisher that has it in its copy.  Until then it stays.                *)
(***************************************************************************)
BeingNoticed(w) == handler[w] = "open" \/ \E t \in Tasks : w \in targets[t]

DeadSocketsLeave == \A w \in Pages :
    (w \in channel /\ ~alive[w] /\ BeingNoticed(w)) ~> w \notin channel
=============================================================================
