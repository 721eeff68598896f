----------------------------- MODULE LiveStream -----------------------------
(***************************************************************************)
(* Live progress of one investigation: the producer of server-sent events  *)
(* (backend/api/stream.py) and the console that consumes them and connects *)
(* again after a loss (frontend/src/realtime/).                            *)
(*                                                                         *)
(* Every event is a whole snapshot.  A snapshot is the version of the case *)
(* it shows and whether the case was closed in it; versions grow with      *)
(* every recorded change.  Time is counted in polls of the producer.       *)
(***************************************************************************)
EXTENDS Integers, Sequences

CONSTANTS
  MaxVersion,   \* bound: how often the case changes
  Lifetime,     \* stream_max_seconds, in polls
  Heartbeat,    \* stream_heartbeat_seconds, in polls
  MaxAttempts,  \* maxAttempts of the hook
  MaxLosses     \* bound: how often connections are refused or lost

ASSUME StreamSettings ==
  /\ Lifetime \in Nat \ {0} /\ Heartbeat \in Nat \ {0}
  /\ MaxAttempts \in Nat
ASSUME StreamBounds == MaxVersion \in Nat /\ MaxLosses \in Nat

Nothing == [version |-> -1, closed |-> FALSE]   \* no snapshot yet

Snapshots == [version : 0..MaxVersion, closed : BOOLEAN]

Frames == [event : {"snapshot"}, snapshot : Snapshots]
            \cup [event : {"end", "comment"}, snapshot : {Nothing}]

EndFrame     == [event |-> "end", snapshot |-> Nothing]
CommentFrame == [event |-> "comment", snapshot |-> Nothing]
SnapshotFrame(s) == [event |-> "snapshot", snapshot |-> s]

VARIABLES
  \* the record
  current,   \* what a snapshot read now would show
  gone,      \* has the case been deleted?
  \* the producer of the current connection
  spc,       \* "off", "read", "emit", or "over" once its response ended
  payload,   \* the snapshot it read, Nothing if there was none
  previous,  \* the snapshot it sent last
  elapsed,   \* polls since the connection began
  idle,      \* polls since the last frame
  wire,      \* frames sent and not yet received
  \* the console
  pc,        \* where run() is
  attempt,   \* consecutive losses
  final,     \* has this connection brought an end event?
  half,      \* is a part of the next frame in the buffer?
  shown,     \* the snapshot on screen
  status,    \* the status beside it
  stale,     \* is it labelled stale?
  \* history
  cut,       \* has this connection reached its lifetime?
  losses     \* refused and lost connections so far

record   == <<current, gone>>
producer == <<spc, payload, previous, elapsed, idle, wire>>
console  == <<pc, attempt, final, half, shown, status, stale>>
vars     == <<record, producer, console, cut, losses>>

TypeOK ==
  /\ current \in Snapshots
  /\ gone \in BOOLEAN
  /\ spc \in {"off", "read", "emit", "over"}
  /\ payload \in Snapshots \cup {Nothing}
  /\ previous \in Snapshots \cup {Nothing}
  /\ elapsed \in 0..Lifetime
  /\ idle \in 0..Heartbeat
  /\ wire \in Seq(Frames)
  /\ pc \in {"connect", "consume", "backoff", "stopped", "left"}
  /\ attempt \in 0..(MaxAttempts + 1)
  /\ final \in BOOLEAN
  /\ half \in BOOLEAN
  /\ shown \in Snapshots \cup {Nothing}
  /\ status \in {"connecting", "live", "reconnecting", "ended", "failed"}
  /\ stale \in BOOLEAN
  /\ cut \in BOOLEAN
  /\ losses \in 0..MaxLosses

Init ==
  /\ current \in [version : {0}, closed : BOOLEAN]
  /\ gone = FALSE
  /\ spc = "off" /\ payload = Nothing /\ previous = Nothing
  /\ elapsed = 0 /\ idle = 0 /\ wire = <<>>
  /\ pc = "connect" /\ attempt = 0 /\ final = FALSE /\ half = FALSE
  /\ shown = Nothing /\ status = "connecting" /\ stale = FALSE
  /\ cut = FALSE /\ losses = 0

-----------------------------------------------------------------------------
(***************************************************************************)
(* The case goes on: a stage, a decision, its closing; even a closed case  *)
(* changes when a recommendation is decided.  Deletion is an operator's.   *)
(***************************************************************************)
CaseChanges ==
  /\ current.version < MaxVersion
  /\ ~gone
  /\ \E c \in BOOLEAN :
       /\ current.closed => c
       /\ current' = [version |-> current.version + 1, closed |-> c]
  /\ UNCHANGED <<gone, producer, console, cut, losses>>

CaseDeleted ==
  /\ ~gone
  /\ gone' = TRUE
  /\ UNCHANGED <<current, producer, console, cut, losses>>

-----------------------------------------------------------------------------
(***************************************************************************)
(* investigation_events.                                                   *)
(***************************************************************************)

\* Variant for the mutants: a connection begins with a snapshot cached when the
\* case was created.
ReadCachedFirst ==
  /\ spc = "read"
  /\ payload' = IF gone THEN Nothing
                ELSE IF previous = Nothing THEN [version |-> 0, closed |-> FALSE] ELSE current
  /\ spc' = "emit"
  /\ UNCHANGED <<record, previous, elapsed, idle, wire, console, cut, losses>>

read_snapshot ==
  /\ spc = "read"
  /\ payload' = IF gone THEN Nothing ELSE current
  /\ spc' = "emit"
  /\ UNCHANGED <<record, previous, elapsed, idle, wire, console, cut, losses>>

\* What one round of the loop sends for the payload it read: a snapshot if it is
\* news, a keep-alive after a long silence, an end if the case is over.
FramesFor ==
  IF payload = Nothing THEN <<EndFrame>>
  ELSE IF payload # previous
       THEN IF payload.closed THEN <<SnapshotFrame(payload), EndFrame>>
                              ELSE <<SnapshotFrame(payload)>>
       ELSE IF idle >= Heartbeat THEN <<CommentFrame>> ELSE <<>>

Over == payload = Nothing \/ (payload # previous /\ payload.closed)

\* The rest of the round: at the end of its lifetime the connection is closed with
\* an end event of its own, otherwise the producer sleeps until the next poll.
Emit ==
  /\ spc = "emit"
  /\ LET expires == ~Over /\ elapsed >= Lifetime
         silence == IF FramesFor = <<>> THEN idle ELSE 0
     IN  /\ wire' = wire \o (FramesFor \o (IF expires THEN <<EndFrame>> ELSE <<>>))
         /\ spc' = IF Over \/ expires THEN "over" ELSE "read"
         /\ elapsed' = IF Over \/ expires THEN elapsed ELSE elapsed + 1
         /\ idle' = IF Over \/ expires THEN silence ELSE silence + 1
         /\ cut' = expires
  /\ previous' = IF payload = Nothing THEN previous ELSE payload
  /\ UNCHANGED <<record, payload, console, losses>>

-----------------------------------------------------------------------------
(***************************************************************************)
(* useInvestigationStream.                                                 *)
(***************************************************************************)

\* The response is ok: the console is live, on a fresh producer.
Connected ==
  /\ pc = "connect"
  /\ ~gone
  /\ spc' = "read" /\ payload' = Nothing /\ previous' = Nothing
  /\ elapsed' = 0 /\ idle' = 0 /\ wire' = <<>>
  /\ pc' = "consume"
  /\ attempt' = 0 /\ final' = FALSE /\ half' = FALSE
  /\ status' = "live" /\ stale' = FALSE
  /\ cut' = FALSE
  /\ UNCHANGED <<record, shown, losses>>

\* Variant for the mutants: the loss is not shown.
LoseSilently ==
  /\ attempt' = attempt + 1
  /\ stale' = stale
  /\ IF attempt + 1 > MaxAttempts
     THEN pc' = "stopped" /\ status' = "failed"
     ELSE pc' = "backoff" /\ status' = "reconnecting"

\* After a connection that ended without an end event: mark what is on screen,
\* and try again unless that failed too often.
Lose ==
  /\ attempt' = attempt + 1
  /\ stale' = TRUE
  /\ IF attempt + 1 > MaxAttempts
     THEN pc' = "stopped" /\ status' = "failed"
     ELSE pc' = "backoff" /\ status' = "reconnecting"

\* The response is an error (404 once the case is gone), or there is none.
Refused ==
  /\ pc = "connect"
  /\ gone \/ losses < MaxLosses
  /\ losses' = IF gone THEN losses ELSE losses + 1
  /\ Lose
  /\ UNCHANGED <<record, producer, final, half, shown, cut>>

\* A chunk with the first part of a frame: it stays in the buffer.
ReceivePart ==
  /\ pc = "consume"
  /\ wire # <<>>
  /\ ~half
  /\ half' = TRUE
  /\ UNCHANGED <<record, producer, pc, attempt, final, shown, status, stale, cut, losses>>

\* The snapshots among the frames.
News(frames) == {i \in DOMAIN frames : frames[i].event = "snapshot"}

\* Variant for the mutants: an end event hides the snapshot that came with it.
DispatchUnlessEnd(frames) ==
  LET over == \E i \in DOMAIN frames : frames[i].event = "end"
  IN  /\ final' = (final \/ over)
      /\ \/ (News(frames) = {} \/ over) /\ UNCHANGED shown
         \/ \E i \in News(frames) : /\ ~over
                                    /\ \A j \in News(frames) : j <= i
                                    /\ shown' = frames[i].snapshot
      /\ stale' = (News(frames) = {} /\ stale)

\* drainFrames and onEvent: the completed frames of a chunk, in order, so that the
\* last snapshot among them stays on screen.
Dispatch(frames) ==
  /\ final' = (final \/ \E i \in DOMAIN frames : frames[i].event = "end")
  /\ \/ News(frames) = {} /\ UNCHANGED shown
     \/ \E i \in News(frames) : /\ \A j \in News(frames) : j <= i
                                /\ shown' = frames[i].snapshot
  /\ stale' = (News(frames) = {} /\ stale)

\* A chunk that completes n frames and may bring a part of the next.
ReceiveFrames(n) ==
  /\ pc = "consume"
  /\ n <= Len(wire)
  /\ Dispatch(SubSeq(wire, 1, n))
  /\ wire' = SubSeq(wire, n + 1, Len(wire))
  /\ \E part \in BOOLEAN : (part => n < Len(wire)) /\ half' = part
  /\ UNCHANGED <<record, spc, payload, previous, elapsed, idle, pc, attempt, status,
                 cut, losses>>

\* The console leaves the connection, with or without an end event; frames on
\* the way and a part in the buffer are lost with it.
Leave ==
  /\ IF final THEN /\ pc' = "stopped" /\ status' = "ended"
                   /\ UNCHANGED <<attempt, stale>>
              ELSE Lose
  /\ spc' = "off"
  /\ wire' = <<>>
  /\ half' = FALSE
  /\ UNCHANGED <<record, payload, previous, elapsed, idle, final, shown, cut>>

\* The body is at its end.
BodyEnds ==
  /\ pc = "consume"
  /\ spc = "over"
  /\ wire = <<>>
  /\ Leave
  /\ UNCHANGED losses

\* The network, a proxy or the server drops the connection.
Dropped ==
  /\ pc = "consume"
  /\ losses < MaxLosses
  /\ losses' = losses + 1
  /\ Leave

\* The delay is over and the loop starts again.
BackoffOver ==
  /\ pc = "backoff"
  /\ pc' = "connect"
  /\ status' = "reconnecting"
  /\ UNCHANGED <<record, producer, attempt, final, half, shown, stale, cut, losses>>

\* The analyst leaves the page: the effect's cleanup aborts the loop.
Unmounted ==
  /\ pc \notin {"stopped", "left"}
  /\ pc' = "left"
  /\ spc' = "off"
  /\ wire' = <<>>
  /\ half' = FALSE
  /\ UNCHANGED <<record, payload, previous, elapsed, idle, attempt, final, shown,
                 status, stale, cut, losses>>

ProducerStep == read_snapshot \/ Emit

Receive ==
  \/ ReceivePart
  \/ \E n \in 1..Len(wire) : ReceiveFrames(n)

ConsoleStep == Connected \/ Refused \/ Receive \/ BodyEnds \/ Dropped \/ BackoffOver

Next == CaseChanges \/ CaseDeleted \/ ProducerStep \/ ConsoleStep \/ Unmounted

Spec == Init /\ [][Next]_vars

-----------------------------------------------------------------------------
\* However connections are lost and remade, the screen never goes back to an older
\* state of the case ("a client that cannot silently drift", stream.py).
ShownNeverGoesBack == [][shown'.version >= shown.version]_vars

\* A connection that ends in order loses nothing it has read: once the console has
\* stopped at an end event, it shows the last snapshot the producer read and sent,
\* however the frames were cut into chunks (investigation_events, consumeStream).
\* What the case does after a lifetime cut is another matter: nobody looks.
NothingReadIsLost ==
  status = "ended" => \A s \in {payload, previous} \ {Nothing} : shown = s

(***************************************************************************)
(* Why, as parts of one inductive invariant.                               *)
(***************************************************************************)

\* While the console is not connected, what it shows is labelled stale.
LossIsLabelled == status \in {"reconnecting", "failed"} => stale

\* The console stops following a case when it shows it closed, the case is gone, or
\* the connection came to the end of its lifetime.
EndedForAReason == status = "ended" => shown.closed \/ gone \/ cut

\* The producer ends on what it sent, and what it sent last is on screen or is the
\* last snapshot on the wire.
Delivered ==
  /\ spc = "over" => payload \in {Nothing, previous}
  /\ pc = "consume" /\ previous # Nothing =>
       \/ News(wire) = {} /\ shown = previous
       \/ \E i \in News(wire) : \A j \in News(wire) : j >= i => wire[j].snapshot = previous

\* What run() is doing fits what it says, and it gives up in time.
LoopInStep ==
  /\ pc = "consume" => status = "live"
  /\ pc = "backoff" => status = "reconnecting"
  /\ status = "ended" => pc = "stopped"
  /\ pc \in {"connect", "consume", "backoff"} => attempt <= MaxAttempts
  /\ pc # "consume" => spc = "off" /\ wire = <<>>

\* What was shown, sent, read and is current are ever newer states of the case, and
\* so are the snapshots on the wire.
NewerAndNewer ==
  /\ shown.version <= current.version
  /\ previous.version <= current.version
  /\ payload.version <= current.version
  /\ spc = "emit" /\ payload # Nothing =>
       previous.version <= payload.version /\ shown.version <= payload.version
  /\ \A i \in News(wire) : /\ shown.version <= wire[i].snapshot.version
                           /\ wire[i].snapshot.version <= previous.version
  /\ \A i, j \in News(wire) : i < j => wire[i].snapshot.version <= wire[j].snapshot.version

\* An end event is the last frame of a connection and comes for a reason: the case
\* is gone, the connection was cut, or the frame before it shows the case closed.
EndComesLast ==
  /\ spc = "emit" /\ payload = Nothing => gone
  /\ final /\ pc = "consume" =>
       spc = "over" /\ wire = <<>> /\ (shown.closed \/ gone \/ cut)
  /\ \A i \in DOMAIN wire : wire[i].event = "end" =>
       /\ spc = "over" /\ i = Len(wire)
       /\ \/ gone \/ cut
          \/ i = 1 /\ shown.closed
          \/ i > 1 /\ (i - 1) \in News(wire) /\ wire[i - 1].snapshot.closed

\* At every moment of producer and console: the state is well formed, attempts
\* never exceed their limit by more than the last, the screen is labelled stale for
\* as long as there is no connection (setStale in useInvestigationStream; the label
\* goes with the next connection, before its first snapshot, and never comes after
\* an end event), snapshots arrive in order, and an end event comes last.
StreamInv ==
  /\ TypeOK
  /\ LossIsLabelled
  /\ LoopInStep
  /\ NewerAndNewer
  /\ EndComesLast
  /\ EndedForAReason
=============================================================================
