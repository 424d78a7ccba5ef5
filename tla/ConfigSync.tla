------------------------------ MODULE ConfigSync ------------------------------
(* A configuration domain of one process (src/go/internal/cfgsync/cfgsync.go,
   guard/adapters_store.go): the cache of its rows is invalidated by the callback that
   Registry.Bind has registered on the bus.  Writers of the rows, in any process,
   commit and then publish; a publication that fails is not repeated. *)
EXTENDS InvalidationBus, ValueCache

CONSTANT Bound     \* the registration of this cache

VARIABLE unpublished   \* a commit whose publication is yet to come

syncVars == <<busVars, valueVars, unpublished>>

SyncInit == BusInit /\ ValueInit /\ unpublished = FALSE

\* The administration interface commits a change ...
Commit == Change /\ ~unpublished /\ unpublished' = TRUE /\ UNCHANGED busVars

\* ... and publishes it.
Broadcast ==
  /\ unpublished /\ unpublished' = FALSE
  /\ Publish(ChannelOf[Bound])
  /\ UNCHANGED valueVars

\* The callback of Bind, for a message and for a resync alike.
Callback(g) ==
  /\ Call(g)
  /\ IF g = Bound THEN Invalidate ELSE UNCHANGED valueVars
  /\ UNCHANGED unpublished

SyncNext ==
  \/ Commit \/ Broadcast
  \/ \E g \in Regs : Callback(g)
  \/ /\ \/ LoopStep \/ ForceReconnect \/ CloseBus
        \/ \E g \in Regs : Subscribe(g) \/ Dispose(g)
        \/ \E k \in Conns : Executed(k) \/ Break(k)
     /\ UNCHANGED <<valueVars, unpublished>>
  \/ /\ Lapse \/ \E r \in Askers : AskerStep(r)
     /\ UNCHANGED <<busVars, unpublished>>

SyncFairness == BusFairness /\ WF_syncVars(Broadcast)

SyncSpec == SyncInit /\ [][SyncNext]_syncVars /\ SyncFairness

-----------------------------------------------------------------------------

\* What was published while the connection was down is made good: a cell that is behind
\* the database when the bus has lost its connection does not stay so, although
\* Pub/Sub repeats nothing and nobody asks the cell to expire.
LossIsRepaired ==
  (Bound \in registered /\ pubsub # NoConn /\ conn[pubsub].state = "broken" /\ held # NoValue
     /\ held < setting)
    ~> (Bound \notin registered \/ held = NoValue \/ held = setting)
================================================================================
