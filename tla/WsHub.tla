---------------------------------- MODULE WsHub ----------------------------------
(***************************************************************************)
(* The websocket hubs of dashboard-service (internal/wshub) and            *)
(* alarm-service (internal/ws): clients with a bounded buffer each, a      *)
(* broadcast under the read lock, registration under the write lock, and   *)
(* Redis Pub/Sub between the instances of a service.                       *)
(*                                                                         *)
(* The two hubs share everything but the way to the other instances:       *)
(*   "fanout"  dashboard-service delivers to its own clients, then         *)
(*             publishes, and drops what it receives from itself;          *)
(*   "relay"   alarm-service publishes only, delivers what it receives     *)
(*             from anyone, and falls back to its own clients when         *)
(*             publishing fails.                                           *)
(***************************************************************************)
EXTENDS Naturals, Sequences, FiniteSets

CONSTANTS
    Instances,     \* processes of the service
    Clients,       \* connections
    HomeOf,        \* HomeOf[c]: the instance c is connected to
    Messages,      \* broadcasts, each asked for once
    Origin,        \* Origin[m]: the instance that broadcasts m
    Addressees,    \* Addressees[m]: clients the message is for (all, or a tenant's)
    BufferSize,    \* sendBufferSize: 16 or 256 in the code
    MaxHubFaults   \* (bound) failed writes, publications and subscriptions

ASSUME HubAssumption ==
    /\ HomeOf \in [Clients -> Instances]
    /\ Origin \in [Messages -> Instances]
    /\ Addressees \in [Messages -> SUBSET Clients]
    /\ BufferSize \in Nat /\ MaxHubFaults \in Nat

VARIABLES
    mode,          \* which of the two hubs this is
    registered,    \* the keys of Hub.clients, of all instances
    closed,        \* clients whose send channel is closed
    buffer,        \* buffer[c]: the send channel
    open,          \* clients whose connection is not closed
    writer,        \* writer[c]: WritePump is running
    reader,        \* reader[c]: "reading", "leaving" (to Unregister), "done"
    kicks,         \* clients with a goroutine in kick
    looping,       \* <<m, i>>: a loop over the clients of i sends m to them
    todo,          \* todo[m][i]: clients that loop has still to serve
    stage,         \* stage[m]: where the goroutine that broadcasts m is
    bus,           \* Pub/Sub: <<message, instance>> on the way
    subscribed,    \* instances with a live subscription
    hubFaults,     \* faults so far
    received,      \* history: received[c][m] is how often m was put into c's buffer
    lostReply,     \* history: messages published although Publish said it failed
    panicked       \* a send on, or a close of, a closed channel

hubVars == <<mode, registered, closed, buffer, open, writer, reader, kicks, looping, todo,
             stage, bus, subscribed, hubFaults, received, lostReply, panicked>>

\* What a connection is made of.
connVars == <<registered, closed, buffer, open, writer, reader, kicks>>
\* What a broadcast is made of.
castVars == <<looping, todo, stage, bus, subscribed>>

HubInit ==
    /\ mode \in {"fanout", "relay"}
    /\ registered = {}
    /\ closed = {}
    /\ buffer = [c \in Clients |-> <<>>]
    /\ open = {}
    /\ writer = [c \in Clients |-> "new"]
    /\ reader = [c \in Clients |-> "new"]
    /\ kicks = {}
    /\ looping = {}
    /\ todo = [m \in Messages |-> [i \in Instances |-> {}]]
    /\ stage = [m \in Messages |-> "new"]
    /\ bus = {}
    /\ subscribed = Instances
    /\ hubFaults = 0
    /\ received = [c \in Clients |-> [m \in Messages |-> 0]]
    /\ lostReply = {}
    /\ panicked = FALSE

HubFault == hubFaults < MaxHubFaults /\ hubFaults' = hubFaults + 1

---------------------------------------------------------------------------
(* Connections *)

\* The read lock of i is held by every loop over its clients.
ReadLocked(i) == \E m \in Messages : <<m, i>> \in looping

WriteLock(i) == ~ReadLocked(i)

\* Handler: Register, then the two pumps.
Register(c) ==
    /\ reader[c] = "new"
    /\ WriteLock(HomeOf[c])
    /\ registered' = registered \cup {c}
    /\ open' = open \cup {c}
    /\ writer' = [writer EXCEPT ![c] = "running"]
    /\ reader' = [reader EXCEPT ![c] = "reading"]
    /\ UNCHANGED <<closed, buffer, kicks, mode, hubFaults, received, lostReply, panicked>>
    /\ UNCHANGED castVars

\* Mutant: the channel is closed without looking c up.
ClosesAlways(c) == TRUE

\* "if _, ok := h.clients[c]; ok"
IsRegistered(c) == c \in registered

Unregister(c) ==
    /\ WriteLock(HomeOf[c])
    /\ registered' = registered \ {c}
    /\ closed' = IF IsRegistered(c) THEN closed \cup {c} ELSE closed
    /\ panicked' = (panicked \/ (IsRegistered(c) /\ c \in closed))

\* The peer closes, breaks off or stops answering pings.
PeerGone(c) ==
    /\ reader[c] = "reading"
    /\ c \in open
    /\ HubFault
    /\ reader' = [reader EXCEPT ![c] = "leaving"]
    /\ UNCHANGED <<registered, closed, buffer, open, writer, kicks>>
    /\ UNCHANGED <<mode, received, lostReply, panicked>> /\ UNCHANGED castVars

\* ReadMessage fails on a connection that was closed on this side.
ReadFails(c) ==
    /\ reader[c] = "reading"
    /\ c \notin open
    /\ reader' = [reader EXCEPT ![c] = "leaving"]
    /\ UNCHANGED <<registered, closed, buffer, open, writer, kicks>>
    /\ UNCHANGED <<mode, hubFaults, received, lostReply, panicked>> /\ UNCHANGED castVars

\* The deferred function of ReadPump.
ReaderLeaves(c) ==
    /\ reader[c] = "leaving"
    /\ Unregister(c)
    /\ open' = open \ {c}
    /\ reader' = [reader EXCEPT ![c] = "done"]
    /\ UNCHANGED <<buffer, writer, kicks, mode, hubFaults, received, lostReply>>
    /\ UNCHANGED castVars

Kick(c) ==
    /\ c \in kicks
    /\ Unregister(c)
    /\ open' = open \ {c}
    /\ kicks' = kicks \ {c}
    /\ UNCHANGED <<buffer, writer, reader, mode, hubFaults, received, lostReply>>
    /\ UNCHANGED castVars

\* WritePump writes the next message; on a closed connection it cannot.
Write(c) ==
    /\ writer[c] = "running"
    /\ buffer[c] # <<>>
    /\ c \in open
    /\ buffer' = [buffer EXCEPT ![c] = Tail(@)]
    /\ UNCHANGED <<registered, closed, open, writer, reader, kicks>>
    /\ UNCHANGED <<mode, hubFaults, received, lostReply, panicked>> /\ UNCHANGED castVars

\* The deferred function of WritePump.
WriterEnds(c) ==
    /\ writer' = [writer EXCEPT ![c] = "done"]
    /\ open' = open \ {c}
    /\ UNCHANGED <<registered, closed, reader, kicks>>
    /\ UNCHANGED <<mode, received, lostReply, panicked>> /\ UNCHANGED castVars

\* A write, or a ping, fails or runs into its deadline.
WriteFails(c) ==
    /\ writer[c] = "running"
    /\ \/ c \notin open /\ UNCHANGED hubFaults
       \/ c \in open /\ HubFault
    /\ buffer' = [buffer EXCEPT ![c] = IF @ = <<>> THEN @ ELSE Tail(@)]
    /\ WriterEnds(c)

\* The channel is closed and empty.
WriterStops(c) ==
    /\ writer[c] = "running"
    /\ c \in closed
    /\ buffer[c] = <<>>
    /\ UNCHANGED <<buffer, hubFaults>>
    /\ WriterEnds(c)

---------------------------------------------------------------------------
(* Broadcasts *)

\* RLock, and the loop over the clients begins.
LoopBegins(m, i) ==
    /\ <<m, i>> \notin looping
    /\ looping' = looping \cup {<<m, i>>}
    /\ todo' = [todo EXCEPT ![m][i] = {c \in registered \cap Addressees[m] : HomeOf[c] = i}]

Quiet == UNCHANGED <<mode, hubFaults, received, lostReply, panicked>> /\ UNCHANGED connVars

\* Broadcast of dashboard-service begins with its own clients.
HubBroadcast(m) ==
    /\ mode = "fanout"
    /\ stage[m] = "new"
    /\ LoopBegins(m, Origin[m])
    /\ stage' = [stage EXCEPT ![m] = "local"]
    /\ UNCHANGED <<bus, subscribed>> /\ Quiet

\* Push of alarm-service starts a goroutine that publishes.
Push(m) ==
    /\ mode = "relay"
    /\ stage[m] = "new"
    /\ stage' = [stage EXCEPT ![m] = "publish"]
    /\ UNCHANGED <<looping, todo, bus, subscribed>> /\ Quiet

\* One client of the loop: a full buffer gets the client thrown out.
Enqueue(m, i, c) ==
    /\ <<m, i>> \in looping
    /\ c \in todo[m][i]
    /\ todo' = [todo EXCEPT ![m][i] = @ \ {c}]
    /\ \/ /\ Len(buffer[c]) < BufferSize \/ c \in closed
          /\ buffer' = [buffer EXCEPT ![c] = Append(@, m)]
          /\ received' = [received EXCEPT ![c][m] = @ + 1]
          /\ panicked' = (panicked \/ c \in closed)
          /\ UNCHANGED kicks
       \/ /\ Len(buffer[c]) >= BufferSize
          /\ c \notin closed
          /\ kicks' = kicks \cup {c}
          /\ UNCHANGED <<buffer, received, panicked>>
    /\ UNCHANGED <<registered, closed, open, writer, reader>>
    /\ UNCHANGED <<mode, hubFaults, lostReply, looping, stage, bus, subscribed>>

\* RUnlock
Delivered(m, i) ==
    /\ <<m, i>> \in looping
    /\ todo[m][i] = {}
    /\ looping' = looping \ {<<m, i>>}
    /\ stage' = IF stage[m] = "local" /\ i = Origin[m]
                  THEN [stage EXCEPT ![m] = IF mode = "fanout" THEN "publish" ELSE "done"]
                  ELSE stage
    /\ UNCHANGED <<todo, bus, subscribed>> /\ Quiet

OnBus(m) == bus \cup {<<m, i>> : i \in subscribed}

HubPublish(m) ==
    /\ stage[m] = "publish"
    /\ bus' = OnBus(m)
    /\ stage' = [stage EXCEPT ![m] = "done"]
    /\ UNCHANGED <<looping, todo, subscribed>> /\ Quiet

\* Publish returns an error, with or without effect.  The dashboard logs it;
\* the alarm service turns to its own clients.
HubPublishFails(m) ==
    /\ stage[m] = "publish"
    /\ HubFault
    /\ \/ bus' = bus /\ lostReply' = lostReply
       \/ bus' = OnBus(m) /\ lostReply' = lostReply \cup {m}
    /\ \/ /\ mode = "fanout"
          /\ stage' = [stage EXCEPT ![m] = "done"]
          /\ UNCHANGED <<looping, todo>>
       \/ /\ mode = "relay"
          /\ stage' = [stage EXCEPT ![m] = "local"]
          /\ LoopBegins(m, Origin[m])
    /\ UNCHANGED <<subscribed, mode, received, panicked>> /\ UNCHANGED connVars

\* "if env.From == f.instance" in the fan-out, no such test in the relay.
Accepts(m, i) == mode = "fanout" => i # Origin[m]

\* The loop in which the goroutine that broadcasts m serves its own clients.
Local(m, i) == stage[m] = "local" /\ i = Origin[m]

\* The subscription loop of i, which handles one message at a time.
Receive(m, i) ==
    /\ <<m, i>> \in bus
    /\ \A n \in Messages : <<n, i>> \in looping => Local(n, i)
    /\ bus' = bus \ {<<m, i>>}
    /\ IF Accepts(m, i) THEN LoopBegins(m, i) ELSE UNCHANGED <<looping, todo>>
    /\ UNCHANGED <<stage, subscribed>> /\ Quiet

\* The subscription breaks and what was under way to i is lost; after a second
\* runOnce, or Receive, subscribes again.
SubscriptionLost(i) ==
    /\ i \in subscribed
    /\ HubFault
    /\ subscribed' = subscribed \ {i}
    /\ bus' = {x \in bus : x[2] # i}
    /\ UNCHANGED <<looping, todo, stage, mode, received, lostReply, panicked>>
    /\ UNCHANGED connVars

Resubscribe(i) ==
    /\ i \notin subscribed
    /\ subscribed' = subscribed \cup {i}
    /\ UNCHANGED <<looping, todo, stage, bus>> /\ Quiet

ClientStep(c) ==
    \/ ReadFails(c) \/ ReaderLeaves(c) \/ Kick(c) \/ Write(c) \/ WriteFails(c) \/ WriterStops(c)

Loops ==
    \E m \in Messages : \E i \in Instances :
        (\E c \in Clients : Enqueue(m, i, c)) \/ Delivered(m, i)

HubNext ==
    \/ \E c \in Clients : Register(c) \/ PeerGone(c) \/ ClientStep(c)
    \/ \E m \in Messages : HubBroadcast(m) \/ Push(m) \/ HubPublish(m) \/ HubPublishFails(m)
    \/ \E m \in Messages : \E i \in Instances : Receive(m, i)
    \/ Loops
    \/ \E i \in Instances : SubscriptionLost(i) \/ Resubscribe(i)

HubSpec == HubInit /\ [][HubNext]_hubVars

---------------------------------------------------------------------------
HubTypeOK ==
    /\ mode \in {"fanout", "relay"}
    /\ registered \subseteq Clients /\ closed \subseteq Clients /\ open \subseteq Clients
    /\ kicks \subseteq Clients
    /\ buffer \in [Clients -> Seq(Messages)]
    /\ \A c \in Clients : Len(buffer[c]) <= BufferSize
    /\ reader \in [Clients -> {"new", "reading", "leaving", "done"}]
    /\ looping \subseteq Messages \X Instances
    /\ todo \in [Messages -> [Instances -> SUBSET Clients]]
    /\ stage \in [Messages -> {"new", "local", "publish", "done"}]
    /\ bus \subseteq Messages \X Instances
    /\ subscribed \subseteq Instances
    /\ received \in [Clients -> [Messages -> Nat]]

\* A broadcast never sends on the channel of a client that kick, or its own
\* ReadPump, is throwing out, and no channel is closed twice (hub.go:122).
NoPanic == ~panicked

\* A client gets a message once, by one way or the other; in alarm-service save
\* for a message whose publication succeeded and was reported as failed.
AtMostOnce ==
    \A c \in Clients : \A m \in Messages :
        received[c][m] <= 1 \/ (mode = "relay" /\ m \in lostReply /\ received[c][m] <= 2)

HubDelivers == NoPanic /\ AtMostOnce
==================================================================================
