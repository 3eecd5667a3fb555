----------------------------- MODULE NotifyHub -----------------------------
(***************************************************************************)
(* Notifications: internal/services/notify and its controller.             *)
(*                                                                         *)
(* Every event has two goroutines: one walks the SSE clients under a read  *)
(* lock, the other walks the stored push subscriptions in one read         *)
(* transaction and then deletes the endpoints that are gone.  An SSE       *)
(* client has a channel of its own; it is taken out of the map under the   *)
(* write lock and its channel closed after that.                           *)
(*                                                                         *)
(* A subscription is modelled by its generation: the number of times its   *)
(* endpoint has been subscribed.                                           *)
(***************************************************************************)
EXTENDS Naturals, Sequences, FiniteSets

CONSTANTS
    Clients,    \* SSE clients; each connects once
    Endpoints,  \* push endpoints
    MaxNotes,   \* bound: events
    SseCap,     \* capacity of a client's channel
    MaxGen      \* bound: times an endpoint is subscribed

ASSUME NotifyAssumption == MaxNotes \in Nat /\ SseCap \in Nat \ {0} /\ MaxGen \in Nat

VARIABLES
    client,     \* client -> "away", "listed", "leaving", "deleted" or "closed"
    box,        \* client -> the events in its channel
    ssePub,     \* event -> "none", "ready", "locked" or "sent": its SSE goroutine
    todo,       \* event -> the clients its goroutine has yet to reach
    subs,       \* endpoint -> the stored generation, 0 for none
    gens,       \* endpoint -> generations so far
    pushPub,    \* event -> "none", "ready", "sending", "deleting" or "done": its push goroutine
    view,       \* event -> the subscriptions its read transaction sees, still to be sent to
    staleSubs   \* event -> the endpoints to delete

sseVars == <<client, box, ssePub, todo>>
pushVars == <<subs, gens, pushPub, view, staleSubs>>
notifyVars == <<sseVars, pushVars>>

Notes == 1..MaxNotes

NotifyInit ==
    /\ client = [c \in Clients |-> "away"] /\ box = [c \in Clients |-> <<>>]
    /\ ssePub = [n \in Notes |-> "none"] /\ todo = [n \in Notes |-> {}]
    /\ subs = [e \in Endpoints |-> 0] /\ gens = [e \in Endpoints |-> 0]
    /\ pushPub = [n \in Notes |-> "none"] /\ view = [n \in Notes |-> {}]
    /\ staleSubs = [n \in Notes |-> {}]

\* PublishLiveState: two goroutines, which nothing orders.
Publish(n) ==
    /\ ssePub[n] = "none" /\ pushPub[n] = "none" /\ (n > 1 => ssePub[n - 1] # "none")
    /\ ssePub' = [ssePub EXCEPT ![n] = "ready"] /\ pushPub' = [pushPub EXCEPT ![n] = "ready"]
    /\ UNCHANGED <<client, box, todo, subs, gens, view, staleSubs>>

(***************************************************************************)
(* SSE.                                                                    *)
(***************************************************************************)

Readers == {n \in Notes : ssePub[n] = "locked"}
Listed == {c \in Clients : client[c] \in {"listed", "leaving"}}

\* With the token; the client is put into the map under the write lock.
SubscribeSSE(c) ==
    /\ client[c] = "away" /\ Readers = {}
    /\ client' = [client EXCEPT ![c] = "listed"]
    /\ UNCHANGED <<box, ssePub, todo, pushVars>>

\* The handler writes an event to the browser.
HandlerSends(c) ==
    /\ client[c] = "listed" /\ box[c] # <<>>
    /\ box' = [box EXCEPT ![c] = Tail(@)]
    /\ UNCHANGED <<client, ssePub, todo, pushVars>>

\* The browser is gone, or an event cannot be written: the handler returns and unsubscribes.
Disconnect(c) ==
    /\ client[c] = "listed" /\ client' = [client EXCEPT ![c] = "leaving"]
    /\ UNCHANGED <<box, ssePub, todo, pushVars>>

UnsubscribeSSE(c) ==
    /\ client[c] = "leaving" /\ Readers = {}
    /\ client' = [client EXCEPT ![c] = "deleted"]
    /\ UNCHANGED <<box, ssePub, todo, pushVars>>

\* Mutant: the channel is closed before its client is taken out of the map.
ClosesFirst(c) == client[c] \in {"leaving", "deleted"}

MayClose(c) == client[c] = "deleted"

CloseChannel(c) ==
    /\ MayClose(c) /\ client' = [client EXCEPT ![c] = "closed"]
    /\ UNCHANGED <<box, ssePub, todo, pushVars>>

LockForSending(n) ==
    /\ ssePub[n] = "ready"
    /\ ssePub' = [ssePub EXCEPT ![n] = "locked"] /\ todo' = [todo EXCEPT ![n] = Listed]
    /\ UNCHANGED <<client, box, pushVars>>

\* The clients come in any order; a full channel loses the event.
SendToClient(n, c) ==
    /\ ssePub[n] = "locked" /\ c \in todo[n]
    /\ todo' = [todo EXCEPT ![n] = @ \ {c}]
    /\ box' = [box EXCEPT ![c] = IF Len(@) < SseCap THEN Append(@, n) ELSE @]
    /\ UNCHANGED <<client, ssePub, pushVars>>

UnlockAfterSending(n) ==
    /\ ssePub[n] = "locked" /\ todo[n] = {}
    /\ ssePub' = [ssePub EXCEPT ![n] = "sent"]
    /\ UNCHANGED <<client, box, todo, pushVars>>

(***************************************************************************)
(* Push.                                                                   *)
(***************************************************************************)

\* A browser subscribes, again perhaps with new keys.
AddWebPushSubscription(e) ==
    /\ gens[e] < MaxGen
    /\ gens' = [gens EXCEPT ![e] = @ + 1] /\ subs' = [subs EXCEPT ![e] = gens[e] + 1]
    /\ UNCHANGED <<sseVars, pushPub, view, staleSubs>>

\* Deleting an endpoint that is not stored is no error.
RemoveWebPushSubscription(e) ==
    /\ subs[e] # 0 /\ subs' = [subs EXCEPT ![e] = 0]
    /\ UNCHANGED <<sseVars, gens, pushPub, view, staleSubs>>

\* The transaction sees the subscriptions as they are when it begins.
BeginPush(n) ==
    /\ pushPub[n] = "ready" /\ pushPub' = [pushPub EXCEPT ![n] = "sending"]
    /\ view' = [view EXCEPT ![n] = {e \in Endpoints : subs[e] # 0}]
    /\ UNCHANGED <<sseVars, subs, gens, staleSubs>>

\* The push service takes the event, fails, or answers that the endpoint is gone; an endpoint
\* whose record cannot be read counts as gone.
PushTo(n, e) ==
    /\ pushPub[n] = "sending" /\ e \in view[n]
    /\ view' = [view EXCEPT ![n] = @ \ {e}]
    /\ staleSubs' = [staleSubs EXCEPT ![n] = @ \cup {e}] \/ UNCHANGED staleSubs
    /\ UNCHANGED <<sseVars, subs, gens, pushPub>>

EndPush(n) ==
    /\ pushPub[n] = "sending" /\ view[n] = {}
    /\ pushPub' = [pushPub EXCEPT ![n] = "deleting"]
    /\ UNCHANGED <<sseVars, subs, gens, view, staleSubs>>

\* The stale endpoints are deleted by name, whatever is stored by now.
DeleteStale(n) ==
    /\ pushPub[n] = "deleting"
    /\ IF staleSubs[n] = {}
       THEN pushPub' = [pushPub EXCEPT ![n] = "done"] /\ UNCHANGED <<subs, staleSubs>>
       ELSE \E e \in staleSubs[n] :
                /\ staleSubs' = [staleSubs EXCEPT ![n] = @ \ {e}]
                /\ subs' = [subs EXCEPT ![e] = 0]
                /\ UNCHANGED pushPub
    /\ UNCHANGED <<sseVars, gens, view>>

NotifyNext ==
    \/ \E n \in Notes : \/ Publish(n) \/ LockForSending(n) \/ UnlockAfterSending(n)
                        \/ BeginPush(n) \/ EndPush(n) \/ DeleteStale(n)
                        \/ \E c \in Clients : SendToClient(n, c)
                        \/ \E e \in Endpoints : PushTo(n, e)
    \/ \E c \in Clients : SubscribeSSE(c) \/ HandlerSends(c) \/ Disconnect(c) \/ UnsubscribeSSE(c) \/ CloseChannel(c)
    \/ \E e \in Endpoints : AddWebPushSubscription(e) \/ RemoveWebPushSubscription(e)

(***************************************************************************)
(* Properties.                                                             *)
(***************************************************************************)

\* No goroutine is about to send on a channel that has been closed, which would end the
\* process: UnsubscribeSSE deletes the client under the write lock and closes after it.
NoSendOnClosed == \A n \in Notes : \A c \in todo[n] : client[c] # "closed"

\* The events reach a client in the order they were published.  Not met: every event is
\* published by a goroutine of its own.
InPublishedOrder == \A c \in Clients : \A i, j \in 1..Len(box[c]) : i < j => box[c][i] < box[c][j]
=============================================================================
