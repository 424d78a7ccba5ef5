---------------------------- MODULE InvalidationBus ----------------------------
(* cfgsync.Bus (src/go/internal/cfgsync/bus.go): one goroutine keeps one Redis
   subscription for all registered callbacks, and calls every callback once after
   each connect, because Pub/Sub does not repeat what was published meanwhile.
   One action is one critical section of Bus.mu, one network operation, or one
   callback.  A connection is "asked" once SUBSCRIBE is written and "live" once
   Redis has executed it; the client library waits for neither.  Back-off only
   delays a connect, so nextAttempt is merged into the wait. *)
EXTENDS Integers, Sequences

CONSTANTS
  Regs,        \* registrations
  ChannelOf,   \* the channel of each registration
  NoConn,
  MaxConns,    \* bound: connections ever opened
  MaxLosses    \* bound: connections that break

ASSUME BusAssumption ==
  MaxConns \in Nat \ {0} /\ MaxLosses \in Nat /\ NoConn \notin 1..MaxConns

VARIABLES
  registered,  \* Bus.registered
  owed,        \* the registrations with needsResync
  subscribed,  \* Bus.subscribed, channels
  pubsub,      \* Bus.pubsub: a connection or NoConn
  closed,      \* Bus.closed
  loop,        \* the goroutine: where, its connection, its channels, its callbacks
  conn,        \* the connections as Redis and the network see them
  losses

regVars == <<registered, owed, subscribed, pubsub, closed>>
busVars == <<regVars, loop, conn, losses>>

Conns == 1..MaxConns
Channels == {ChannelOf[g] : g \in Regs}

\* desiredChannelsLocked
Desired == {ChannelOf[g] : g \in registered}

BusInit ==
  /\ registered = {} /\ owed = {} /\ subscribed = {} /\ pubsub = NoConn
  /\ closed = FALSE /\ losses = 0
  /\ loop = [at |-> "off", conn |-> NoConn, channels |-> {}, todo |-> {}]
  /\ conn = [k \in Conns |-> [state |-> "unused", channels |-> {}, inbox |-> <<>>]]

Drop(k) == [conn EXCEPT ![k].state = "closed", ![k].channels = {}, ![k].inbox = <<>>]

-----------------------------------------------------------------------------
(* Callers *)

Subscribe(g) ==
  /\ ~closed /\ g \notin registered
  /\ registered' = registered \cup {g} /\ owed' = owed \cup {g}
  /\ loop' = IF loop.at = "off" THEN [loop EXCEPT !.at = "connect"] ELSE loop
  /\ UNCHANGED <<subscribed, pubsub, closed, conn, losses>>

\* The function that Subscribe returned: the last one of a channel unsubscribes it.
Dispose(g) ==
  /\ g \in registered
  /\ registered' = registered \ {g} /\ owed' = owed \ {g}
  /\ LET last == \A h \in registered \ {g} : ChannelOf[h] # ChannelOf[g]
     IN  /\ subscribed' = IF last THEN subscribed \ {ChannelOf[g]} ELSE subscribed
         /\ conn' = IF last /\ pubsub # NoConn
                    THEN [conn EXCEPT ![pubsub].channels = @ \ {ChannelOf[g]}] ELSE conn
  /\ UNCHANGED <<pubsub, closed, loop, losses>>

ForceReconnect ==
  /\ losses < MaxLosses /\ pubsub # NoConn
  /\ losses' = losses + 1
  /\ pubsub' = NoConn /\ subscribed' = {} /\ owed' = registered
  /\ conn' = Drop(pubsub)
  /\ UNCHANGED <<registered, closed, loop>>

CloseBus ==
  /\ ~closed
  /\ closed' = TRUE /\ registered' = {} /\ owed' = {} /\ subscribed' = {} /\ pubsub' = NoConn
  /\ conn' = IF pubsub = NoConn THEN conn ELSE Drop(pubsub)
  /\ UNCHANGED <<loop, losses>>

-----------------------------------------------------------------------------
(* The goroutine *)

Goto(place) == loop' = [loop EXCEPT !.at = place]

\* connectIfNeeded, up to the network.
Connect ==
  /\ loop.at = "connect"
  /\ loop' = [loop EXCEPT !.channels = Desired, !.at =
       IF closed THEN "stopped"
       ELSE IF Desired = {} THEN "wait"
       ELSE IF pubsub # NoConn /\ Desired \subseteq subscribed THEN "pump"
       ELSE "dial"]
  /\ UNCHANGED <<regVars, conn, losses>>

WaitEnds == loop.at = "wait" /\ Goto("connect") /\ UNCHANGED <<regVars, conn, losses>>

DialFails == loop.at = "dial" /\ Goto("wait") /\ UNCHANGED <<regVars, conn, losses>>

\* SUBSCRIBE is written on a new connection.
DialOK ==
  /\ loop.at = "dial"
  /\ \E k \in Conns :
       /\ conn[k].state = "unused" /\ \A j \in Conns : j < k => conn[j].state # "unused"
       /\ conn' = [conn EXCEPT ![k].state = "asked", ![k].channels = loop.channels]
       /\ loop' = [loop EXCEPT !.at = "dialed", !.conn = k]
  /\ UNCHANGED <<regVars, losses>>

Adopt ==
  /\ loop.at = "dialed"
  /\ IF closed
     THEN Goto("wait") /\ conn' = Drop(loop.conn) /\ UNCHANGED regVars
     ELSE /\ Goto("resync")
          /\ pubsub' = loop.conn /\ subscribed' = subscribed \cup loop.channels
          /\ UNCHANGED <<registered, owed, closed, conn>>
  /\ UNCHANGED losses

\* dispatchPendingResync: the marks are taken before the callbacks run.
TakeOwed ==
  /\ loop.at = "resync"
  /\ loop' = [loop EXCEPT !.at = "calling", !.todo = owed]
  /\ owed' = {}
  /\ UNCHANGED <<registered, subscribed, pubsub, closed, conn, losses>>

Call(g) ==
  /\ loop.at \in {"calling", "dispatching"} /\ g \in loop.todo
  /\ loop' = [loop EXCEPT !.todo = @ \ {g}]
  /\ UNCHANGED <<regVars, conn, losses>>

ResyncDone ==
  /\ loop.at = "calling" /\ loop.todo = {}
  /\ Goto("pump")
  /\ UNCHANGED <<regVars, conn, losses>>

\* The top of pump.
PumpTop ==
  /\ loop.at = "pump"
  /\ loop' = IF pubsub = NoConn THEN [loop EXCEPT !.at = "mark"]
             ELSE [loop EXCEPT !.at = "receive", !.conn = pubsub, !.channels = Desired]
  /\ UNCHANGED <<regVars, conn, losses>>

Receive ==
  /\ loop.at = "receive" /\ conn[loop.conn].inbox # <<>>
  /\ loop' = [loop EXCEPT !.at = "dispatching",
       !.todo = {g \in registered : ChannelOf[g] = Head(conn[loop.conn].inbox)}]
  /\ conn' = [conn EXCEPT ![loop.conn].inbox = Tail(@)]
  /\ UNCHANGED <<regVars, losses>>

\* The read deadline: the connection is quiet, and nothing else is looked at.
Quiet ==
  /\ loop.at = "receive" /\ conn[loop.conn].state \in {"asked", "live"}
  /\ Goto("pump")
  /\ UNCHANGED <<regVars, conn, losses>>

\* ReceiveMessage fails: the connection broke, or somebody closed it.
ReceiveFails ==
  /\ loop.at = "receive" /\ conn[loop.conn].state \in {"broken", "closed"}
  /\ pubsub' = NoConn /\ subscribed' = {}
  /\ conn' = Drop(loop.conn)
  /\ Goto("mark")
  /\ UNCHANGED <<registered, owed, closed, losses>>

\* After a message: back to connecting when the set of channels has changed.
Dispatched ==
  /\ loop.at = "dispatching" /\ loop.todo = {}
  /\ Goto(IF ~(Desired \subseteq subscribed) \/ pubsub # loop.conn \/ loop.channels = {}
          THEN "mark" ELSE "pump")
  /\ UNCHANGED <<regVars, conn, losses>>

MarkNobody ==   \* reconnects without asking for a resync
  /\ loop.at = "mark" /\ Goto("connect")
  /\ UNCHANGED <<regVars, conn, losses>>

\* markAllForResync
Mark ==
  /\ loop.at = "mark"
  /\ Goto("connect")
  /\ owed' = registered
  /\ UNCHANGED <<registered, subscribed, pubsub, closed, conn, losses>>

-----------------------------------------------------------------------------
(* Redis and the network (external) *)

Executed(k) ==
  /\ conn[k].state = "asked"
  /\ conn' = [conn EXCEPT ![k].state = "live"]
  /\ UNCHANGED <<regVars, loop, losses>>

Break(k) ==
  /\ conn[k].state \in {"asked", "live"} /\ losses < MaxLosses
  /\ losses' = losses + 1
  /\ conn' = [conn EXCEPT ![k].state = "broken", ![k].inbox = <<>>]
  /\ UNCHANGED <<regVars, loop>>

\* PUBLISH reaches the connections that are subscribed at that moment.
Publish(c) ==
  /\ conn' = [k \in Conns |-> IF conn[k].state = "live" /\ c \in conn[k].channels
                              THEN [conn[k] EXCEPT !.inbox = Append(@, c)] ELSE conn[k]]
  /\ UNCHANGED <<regVars, loop, losses>>

LoopStep ==
  \/ Connect \/ WaitEnds \/ DialFails \/ DialOK \/ Adopt \/ TakeOwed \/ ResyncDone
  \/ PumpTop \/ Receive \/ Quiet \/ ReceiveFails \/ Dispatched \/ Mark

\* The goroutine runs; a dial that is tried again and again succeeds.
BusFairness ==
  /\ WF_busVars(Connect) /\ WF_busVars(WaitEnds) /\ SF_busVars(DialOK) /\ WF_busVars(Adopt)
  /\ WF_busVars(TakeOwed) /\ WF_busVars(ResyncDone) /\ WF_busVars(PumpTop)
  /\ SF_busVars(Receive) /\ SF_busVars(ReceiveFails) /\ WF_busVars(Dispatched) /\ WF_busVars(Mark)
  /\ \A g \in Regs : WF_busVars(Call(g))
  /\ \A k \in Conns : WF_busVars(Executed(k))

BusTypeOK ==
  /\ registered \subseteq Regs /\ owed \subseteq registered
  /\ subscribed \subseteq Channels /\ closed \in BOOLEAN
  /\ pubsub \in Conns \cup {NoConn} /\ losses \in 0..MaxLosses

-----------------------------------------------------------------------------

\* Whoever registers while the goroutine reads is subscribed too ("the set of channels
\* changed: leave pump, go back to connecting").  The code looks only after a message.
LateIsSubscribed ==
  \A g \in Regs : g \in registered ~> (g \notin registered \/ ChannelOf[g] \in subscribed)
================================================================================
