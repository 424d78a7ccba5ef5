----------------------------- MODULE ResponsePump -----------------------------
(* One committed response stream: the demand-driven pump of
   internal/forward/pump.go, the Stream of internal/forward/stream.go around it
   and the handler loop of internal/dataplane/stream.go that consumes it. The
   actors are the handler, the drain goroutine, the two timers and
   awaitTerminal; the upstream and the client are the environment. Bytes are
   left out: a chunk is content, or it carries what the observer looks for. *)
EXTENDS Naturals

CONSTANTS
    MaxChunks,      \* bound: chunks the upstream sends
    IdleTimeout     \* is a silence timeout configured for the provider

ASSUME PumpAssumption == IdleTimeout \in BOOLEAN

VARIABLES
    state,          \* PumpState
    aborted,        \* clientAborted
    pending,        \* a chunk was read and not yet taken by Read
    completion,     \* PumpCompletion, or NotYet
    closing,        \* the winner of settle is closing the source: "none", "sync", "async"
    handler,        \* where the handler goroutine is
    drain,          \* where the drain goroutine is
    idle,           \* the idle timer is armed
    closed,         \* Stream.closed
    seen,           \* what the observer found in the chunks
    chunks,         \* chunks the upstream has sent
    upstream,       \* how the upstream ended by itself: "open", "eof", "failed"
    connected,      \* the request's context is not cancelled
    left,           \* history: the client went away or refused a write
    outcome         \* the terminal kind settled for the row, or "none"

pumpVars == <<state, aborted, pending, completion, closing, handler, drain, idle,
              closed, seen, chunks, upstream, connected, left, outcome>>

NotYet == [normal |-> FALSE, aborted |-> FALSE, err |-> "not yet"]
Live == state \in {"active", "draining"}

-----------------------------------------------------------------------------
(* settle: the first caller decides the terminal state. A cancellation closes
   the source in the background, an end of the stream in line. *)

ClaimUncorrected(normal, err, cancel) ==   \* mutant: a cancelled request is not the client's doing
    IF Live
    THEN /\ state' = "finalizing" /\ pending' = FALSE /\ aborted' = aborted
         /\ completion' = [normal |-> normal, aborted |-> aborted, err |-> err]
         /\ closing' = IF cancel THEN "async" ELSE "sync"
    ELSE UNCHANGED <<state, pending, aborted, completion, closing>>

ClaimAndWait(normal, err, cancel) ==   \* mutant: every path waits for the source to close
    IF Live
    THEN /\ state' = "finalizing" /\ pending' = FALSE
         /\ aborted' = (aborted \/ (~normal /\ ~connected))
         /\ completion' = [normal |-> normal, aborted |-> aborted', err |-> err]
         /\ closing' = "sync"
    ELSE UNCHANGED <<state, pending, aborted, completion, closing>>

Claim(normal, err, cancel) ==
    IF Live
    THEN /\ state' = "finalizing" /\ pending' = FALSE
         /\ aborted' = (aborted \/ (~normal /\ ~connected))
         /\ completion' = [normal |-> normal, aborted |-> aborted', err |-> err]
         /\ closing' = IF cancel THEN "async" ELSE "sync"
    ELSE UNCHANGED <<state, pending, aborted, completion, closing>>

Finish ==
    /\ state' = "closed" /\ closing' = "none"
    /\ UNCHANGED <<aborted, pending, completion, handler, drain, idle, closed, seen,
                   chunks, upstream, connected, left, outcome>>

(* The background close is not waited for. *)
FinishCancelled == closing = "async" /\ Finish

(* The close in line returns when the upstream's body lets it. *)
SourceClosed == closing = "sync" /\ Finish

-----------------------------------------------------------------------------
(* One read of the upstream, by the handler or by the drain goroutine. *)

Reading(who) == IF who = "handler" THEN handler = "reading" ELSE drain = "reading"

(* The reader goes back to its loop. *)
Return(who) ==
    IF who = "handler" THEN handler' = "consume" /\ drain' = drain
    ELSE drain' = "loop" /\ handler' = handler

(* readSourceOnce up to the call of the source, which arms the idle timer. *)
StartRead(who) ==
    /\ Live /\ ~pending
    /\ IF who = "handler"
       THEN handler = "consume" /\ state = "active" /\ handler' = "reading" /\ drain' = drain
       ELSE drain = "loop" /\ state = "draining" /\ drain' = "reading" /\ handler' = handler
    /\ idle' = IdleTimeout
    /\ UNCHANGED <<state, aborted, pending, completion, closing, closed, seen, chunks,
                   upstream, connected, left, outcome>>

(* A chunk arrives: it is observed, a drain that has seen the end finishes, and
   only an active pump keeps the chunk. *)
SourceData(who, mark) ==
    /\ Reading(who) /\ upstream = "open" /\ chunks < MaxChunks
    /\ chunks' = chunks + 1
    /\ seen' = seen \union (IF mark = "content" THEN {} ELSE {mark})
    /\ Return(who)
    /\ IF state = "draining" /\ seen' \intersect {"marker", "error"} # {}
       THEN Claim(FALSE, "none", TRUE)
       ELSE /\ pending' = (pending \/ state = "active")
            /\ UNCHANGED <<state, aborted, completion, closing>>
    /\ UNCHANGED <<idle, closed, upstream, connected, left, outcome>>

SourceEOF(who) ==
    /\ Reading(who) /\ upstream = "open"
    /\ upstream' = "eof"
    /\ Claim(TRUE, "none", FALSE)
    /\ Return(who)
    /\ UNCHANGED <<idle, closed, seen, chunks, connected, left, outcome>>

SourceFails(who) ==
    /\ Reading(who) /\ upstream = "open"
    /\ upstream' = "failed"
    /\ Claim(FALSE, "upstream", TRUE)
    /\ Return(who)
    /\ UNCHANGED <<idle, closed, seen, chunks, connected, left, outcome>>

(* The read ends because the request's context is cancelled, or because the
   source was closed under it. *)
SourceCancelled(who) ==
    /\ Reading(who) /\ (~connected \/ ~Live)
    /\ Claim(FALSE, "cancelled", TRUE)
    /\ Return(who)
    /\ UNCHANGED <<idle, closed, seen, chunks, upstream, connected, left, outcome>>

-----------------------------------------------------------------------------
(* The handler. *)

(* Read delivers the pending chunk, and the handler writes it to the client. *)
Take ==
    /\ handler = "consume" /\ pending
    /\ pending' = FALSE
    /\ handler' = "write"
    /\ UNCHANGED <<state, aborted, completion, closing, drain, idle, closed, seen, chunks,
                   upstream, connected, left, outcome>>

(* Read returns the end of the stream, its error, or ErrPumpDraining. *)
ReadEnds ==
    /\ handler = "consume" /\ state # "active" /\ closing # "sync"
    /\ handler' = "leave"
    /\ UNCHANGED <<state, aborted, pending, completion, closing, drain, idle, closed, seen,
                   chunks, upstream, connected, left, outcome>>

(* The client took the bytes; the handler then looks at the context. *)
Written ==
    /\ handler = "write"
    /\ handler' = IF connected THEN "consume" ELSE "cancel"
    /\ UNCHANGED <<state, aborted, pending, completion, closing, drain, idle, closed, seen,
                   chunks, upstream, connected, left, outcome>>

WriteFails ==
    /\ handler = "write"
    /\ left' = TRUE
    /\ handler' = "cancel"
    /\ UNCHANGED <<state, aborted, pending, completion, closing, drain, idle, closed, seen,
                   chunks, upstream, connected, outcome>>

(* Stream.ClientCancel, first half: the pump records the abort, stops the idle
   timer and turns to draining, in a goroutine of its own. *)
StartDrain ==
    /\ handler = "cancel"
    /\ handler' = IF closed THEN "leave" ELSE "cancelSource"
    /\ IF Live /\ ~closed
       THEN /\ aborted' = TRUE /\ idle' = FALSE
            /\ state' = "draining" /\ pending' = FALSE /\ drain' = "loop"
       ELSE UNCHANGED <<aborted, idle, state, pending, drain>>
    /\ UNCHANGED <<completion, closing, closed, seen, chunks, upstream, connected, left, outcome>>

(* Second half: the source is cancelled at once. *)
CancelSource ==
    /\ handler = "cancelSource"
    /\ Claim(FALSE, "client", TRUE)
    /\ handler' = "leave"
    /\ UNCHANGED <<drain, idle, closed, seen, chunks, upstream, connected, left, outcome>>

(* A panic in the loop unwinds to the deferred Close without a ClientCancel. *)
Panic ==
    /\ handler \in {"consume", "write"}
    /\ handler' = "leave"
    /\ UNCHANGED <<state, aborted, pending, completion, closing, drain, idle, closed, seen,
                   chunks, upstream, connected, left, outcome>>

(* The deferred Stream.Close sets closed and then calls ClientCancel, which
   returns when closed is set: nothing else happens. *)
Close ==
    /\ handler = "leave"
    /\ closed' = TRUE
    /\ handler' = "gone"
    /\ UNCHANGED <<state, aborted, pending, completion, closing, drain, idle, seen, chunks,
                   upstream, connected, left, outcome>>

-----------------------------------------------------------------------------
(* The other actors. *)

(* The drain goroutine sees that the state is decided. *)
DrainEnds ==
    /\ drain = "loop" /\ state # "draining"
    /\ drain' = "off"
    /\ UNCHANGED <<state, aborted, pending, completion, closing, handler, idle, closed, seen,
                   chunks, upstream, connected, left, outcome>>

IdleFires ==
    /\ idle
    /\ idle' = FALSE
    /\ Claim(FALSE, "idle", TRUE)
    /\ UNCHANGED <<handler, drain, closed, seen, chunks, upstream, connected, left, outcome>>

DeadlineFires ==
    /\ pending
    /\ Claim(FALSE, "deadline", TRUE)
    /\ UNCHANGED <<handler, drain, idle, closed, seen, chunks, upstream, connected, left, outcome>>

Disconnect ==
    /\ connected
    /\ connected' = FALSE /\ left' = TRUE
    /\ UNCHANGED <<state, aborted, pending, completion, closing, handler, drain, idle, closed,
                   seen, chunks, upstream, outcome>>

(* terminalKindFor *)
TerminalKind(c) ==
    CASE c.aborted -> "client_aborted"
      [] ~c.aborted /\ c.err = "idle" -> "idle_timeout"
      [] ~c.aborted /\ c.err \notin {"idle", "none"} -> "local_error"
      [] ~c.aborted /\ c.err = "none" ->
           IF "error" \in seen THEN "upstream_error"
           ELSE IF "incomplete" \in seen THEN "incomplete"
           ELSE IF "marker" \in seen THEN "completed" ELSE "truncated"

(* awaitTerminal: stop the timer and settle the row. *)
AwaitTerminal ==
    /\ state = "closed" /\ outcome = "none"
    /\ idle' = FALSE
    /\ outcome' = TerminalKind(completion)
    /\ UNCHANGED <<state, aborted, pending, completion, closing, handler, drain, closed, seen,
                   chunks, upstream, connected, left>>

(* The prefix of the gate is with the stream already: the handler may be
   writing it, and the observer may have seen the end of the stream in it. *)
PumpAt(place, marks) ==
    /\ state = "active" /\ aborted = FALSE /\ pending = FALSE /\ completion = NotYet
    /\ closing = "none" /\ handler = place /\ drain = "off" /\ idle = FALSE
    /\ closed = FALSE /\ seen = marks /\ chunks = 0 /\ upstream = "open"
    /\ connected = TRUE /\ left = FALSE /\ outcome = "none"

PumpInit == \E place \in {"consume", "write"}, marks \in {{}, {"marker"}} : PumpAt(place, marks)

HandlerStep == StartRead("handler") \/ Take \/ ReadEnds \/ StartDrain \/ CancelSource \/ Close

PumpNext ==
    \/ HandlerStep \/ Written \/ WriteFails \/ Panic
    \/ \E who \in {"handler", "drain"} :
         \/ SourceEOF(who) \/ SourceFails(who) \/ SourceCancelled(who)
         \/ \E mark \in {"content", "marker", "error", "incomplete"} : SourceData(who, mark)
    \/ StartRead("drain") \/ DrainEnds \/ IdleFires \/ DeadlineFires \/ Disconnect
    \/ FinishCancelled \/ SourceClosed \/ AwaitTerminal

PumpSpec == PumpInit /\ [][PumpNext]_pumpVars

(* The goroutines run and timers fire. The client and the upstream promise
   nothing: no write and no read has to return, and the close in line only
   after an end of file, when a body of net/http has nothing left to wait for. *)
PumpFairness ==
    /\ WF_pumpVars(HandlerStep) /\ WF_pumpVars(StartRead("drain")) /\ WF_pumpVars(DrainEnds)
    /\ WF_pumpVars(FinishCancelled) /\ WF_pumpVars(AwaitTerminal) /\ WF_pumpVars(IdleFires)
    /\ WF_pumpVars(SourceClosed /\ upstream = "eof")

PumpFairSpec == PumpSpec /\ PumpFairness

(* Where the steps of a departure are possible: what PumpFairness promises of
   them begins there, and nothing else is waited for. *)
PumpCanAct ==
    /\ handler \in {"cancel", "cancelSource"} => ENABLED <<HandlerStep>>_pumpVars
    /\ closing = "async" => ENABLED <<FinishCancelled>>_pumpVars
    /\ closing = "sync" /\ upstream = "eof"
         => ENABLED <<SourceClosed /\ upstream = "eof">>_pumpVars
    /\ state = "closed" /\ outcome = "none" => ENABLED <<AwaitTerminal>>_pumpVars

-----------------------------------------------------------------------------
(* Properties. *)

(* The kind that is settled for the row blames the right side: a kind that
   counts against the provider needs an upstream that ended by itself, unless
   the downstream let a chunk lie, and a kind that blames the client needs a
   client that went away. The silence timeout has its own property. *)
BlameFitsTheCause ==
    /\ outcome \in {"upstream_error", "incomplete", "truncated", "local_error"}
         => upstream # "open" \/ completion.err = "deadline"
    /\ outcome = "client_aborted" => left

(* A client's departure that the handler noticed always ends in a settlement,
   even when the upstream never answers and its body never closes. *)
CancelSettles == handler = "cancel" ~> outcome # "none"

(* The silence timeout fires only while a read of the upstream is outstanding:
   the comment of OnReadStart says a chunk the client has not taken is no
   silence of the upstream. *)
IdleMeansSilent == [][IdleFires /\ Live => Reading("handler") \/ Reading("drain")]_pumpVars

(* A stream that its consumer has closed comes to its end: the comment of Close
   treats it as the client's departure. *)
CloseEndsTheStream == closed ~> outcome # "none"
=============================================================================
