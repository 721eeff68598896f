-------------------------- MODULE LiveStreamProofs --------------------------
(***************************************************************************)
(* The live stream, for any lifetime, heartbeat, number of attempts and    *)
(* number of changes of the case: the inductive invariant of LiveStream,   *)
(* and what it says about the screen.                                      *)
(***************************************************************************)
EXTENDS LiveStream, SequenceTheorems, TLAPS

\* Snapshots have a version and say whether the case is closed; versions are
\* integers also where there is no snapshot.
LEMMA SnapshotType ==
  /\ \A s \in Snapshots : s.version \in 0..MaxVersion /\ s.closed \in BOOLEAN /\ s # Nothing
  /\ Nothing.version = -1 /\ Nothing.closed = FALSE
  /\ \A s \in Snapshots \cup {Nothing} : s.version \in Int /\ s.closed \in BOOLEAN
<1>1. \A s \in Snapshots : s.version \in 0..MaxVersion /\ s.closed \in BOOLEAN
  BY DEF Snapshots
<1>2. Nothing.version = -1 /\ Nothing.closed = FALSE
  BY DEF Nothing
<1>3. \A s \in Snapshots : s # Nothing
  BY <1>1, <1>2, StreamBounds
<1>4. \A s \in Snapshots \cup {Nothing} : s.version \in Int
  BY <1>1, <1>2
<1>5. \A s \in Snapshots \cup {Nothing} : s.closed \in BOOLEAN
  BY <1>1, <1>2
<1> QED  BY <1>1, <1>2, <1>3, <1>4, <1>5

\* What the frames are.
LEMMA FrameType ==
  /\ EndFrame \in Frames /\ EndFrame.event = "end"
  /\ CommentFrame \in Frames /\ CommentFrame.event = "comment"
  /\ \A s \in Snapshots : /\ SnapshotFrame(s) \in Frames
                          /\ SnapshotFrame(s).event = "snapshot" /\ SnapshotFrame(s).snapshot = s
  /\ \A f \in Frames : f.event = "snapshot" => f.snapshot \in Snapshots
BY DEF Frames, EndFrame, CommentFrame, SnapshotFrame

\* What one round sends: snapshots of what it read, if that is news, and at most one
\* end event, last and for a reason.
LEMMA RoundFrames ==
  ASSUME TypeOK, EndComesLast, Emit
  PROVE  \E new \in Seq(Frames) :
           /\ wire' = wire \o new
           /\ \A i \in DOMAIN new : new[i].event = "snapshot" => payload \in Snapshots /\ new[i].snapshot = payload
           /\ \A i \in DOMAIN new : new[i].event = "end" =>
                /\ spc' = "over" /\ i = Len(new)
                /\ gone \/ cut' \/ (i > 1 /\ new[i - 1].event = "snapshot" /\ new[i - 1].snapshot.closed)
           /\ payload \in {Nothing, previous} <=> \A i \in DOMAIN new : new[i].event # "snapshot"
<1> DEFINE expires == ~Over /\ elapsed >= Lifetime
           new == FramesFor \o (IF expires THEN <<EndFrame>> ELSE <<>>)
           Fits(n) ==
             /\ wire' = wire \o n
             /\ \A i \in DOMAIN n : n[i].event = "snapshot" => payload \in Snapshots /\ n[i].snapshot = payload
             /\ \A i \in DOMAIN n : n[i].event = "end" =>
                  /\ spc' = "over" /\ i = Len(n)
                  /\ gone \/ cut' \/ (i > 1 /\ n[i - 1].event = "snapshot" /\ n[i - 1].snapshot.closed)
             /\ payload \in {Nothing, previous} <=> \A i \in DOMAIN n : n[i].event # "snapshot"
<1> SUFFICES \E n \in Seq(Frames) : Fits(n)
  OBVIOUS
<1>1. wire' = wire \o new /\ cut' = expires /\ (Over \/ expires => spc' = "over")
  BY DEF Emit
<1>2. expires => new = FramesFor \o <<EndFrame>>
  OBVIOUS
<1>3. ~expires => new = FramesFor \o <<>>
  OBVIOUS
<1>4. Over => ~expires
  OBVIOUS
<1>5. EndFrame \in Frames /\ CommentFrame \in Frames /\ EndFrame.event = "end" /\ CommentFrame.event = "comment"
  BY FrameType
<1> HIDE DEF new, expires
<1>6. ASSUME new = <<>>, payload \in {Nothing, previous}
      PROVE  \E n \in Seq(Frames) : Fits(n)
  <2>1. new \in Seq(Frames) /\ DOMAIN new = {}
    BY <1>6
  <2> QED  BY <1>1, <1>6, <2>1
<1>7. ASSUME NEW f \in Frames, new = <<f>>,
             f.event = "snapshot" => payload \in Snapshots /\ f.snapshot = payload,
             f.event = "end" => spc' = "over" /\ (gone \/ cut'),
             payload \in {Nothing, previous} <=> f.event # "snapshot"
      PROVE  \E n \in Seq(Frames) : Fits(n)
  <2>1. new \in Seq(Frames) /\ DOMAIN new = {1} /\ Len(new) = 1 /\ new[1] = f
    BY <1>7
  <2>2. Fits(new)
    BY <1>1, <1>7, <2>1
  <2> QED  BY <2>1, <2>2
<1>8. ASSUME NEW f \in Frames, new = <<f, EndFrame>>, spc' = "over", f.event # "end",
             f.event = "snapshot" => payload \in Snapshots /\ f.snapshot = payload,
             cut' \/ (f.event = "snapshot" /\ f.snapshot.closed),
             payload \in {Nothing, previous} <=> f.event # "snapshot"
      PROVE  \E n \in Seq(Frames) : Fits(n)
  <2>1. new \in Seq(Frames) /\ DOMAIN new = {1, 2} /\ Len(new) = 2 /\ new[1] = f /\ new[2] = EndFrame
    BY <1>5, <1>8
  <2>2. Fits(new)
    BY <1>1, <1>5, <1>8, <2>1
  <2> QED  BY <2>1, <2>2
<1>9. CASE payload = Nothing
  <2>1. FramesFor = <<EndFrame>>
    BY <1>9 DEF FramesFor
  <2>2. Over /\ gone
    BY <1>9 DEF Over, EndComesLast, Emit
  <2>3. new = <<EndFrame>>
    BY <1>3, <1>4, <2>1, <2>2
  <2> QED  BY <1>1, <1>5, <1>7, <1>9, <2>2, <2>3
<1>10. CASE payload # Nothing /\ payload # previous
  <2>0. /\ payload \in Snapshots /\ SnapshotFrame(payload) \in Frames
        /\ SnapshotFrame(payload).event = "snapshot" /\ SnapshotFrame(payload).snapshot = payload
    BY <1>10, FrameType DEF TypeOK
  <2>1. CASE payload.closed
    <3>1. FramesFor = <<SnapshotFrame(payload), EndFrame>> /\ Over
      BY <1>10, <2>1 DEF FramesFor, Over
    <3>2. new = <<SnapshotFrame(payload), EndFrame>>
      BY <1>3, <1>4, <3>1
    <3> QED  BY <1>1, <1>8, <1>10, <2>0, <2>1, <3>1, <3>2
  <2>2. CASE ~payload.closed /\ expires
    <3>1. FramesFor = <<SnapshotFrame(payload)>>
      BY <1>10, <2>2 DEF FramesFor
    <3>2. new = <<SnapshotFrame(payload), EndFrame>>
      BY <1>2, <2>2, <3>1
    <3> QED  BY <1>1, <1>8, <1>10, <2>0, <2>2, <3>2
  <2>3. CASE ~payload.closed /\ ~expires
    <3>1. FramesFor = <<SnapshotFrame(payload)>>
      BY <1>10, <2>3 DEF FramesFor
    <3>2. new = <<SnapshotFrame(payload)>>
      BY <1>3, <2>3, <3>1
    <3> QED  BY <1>7, <1>10, <2>0, <3>2
  <2> QED  BY <2>1, <2>2, <2>3
<1>11. CASE payload # Nothing /\ payload = previous
  <2>1. FramesFor = <<CommentFrame>> \/ FramesFor = <<>>
    BY <1>11 DEF FramesFor
  <2>2. CASE expires /\ FramesFor = <<CommentFrame>>
    <3>1. new = <<CommentFrame, EndFrame>>
      BY <1>2, <2>2
    <3> QED  BY <1>1, <1>5, <1>8, <1>11, <2>2, <3>1
  <2>3. CASE expires /\ FramesFor = <<>>
    <3>1. new = <<EndFrame>>
      BY <1>2, <2>3
    <3> QED  BY <1>1, <1>5, <1>7, <1>11, <2>3, <3>1
  <2>4. CASE ~expires /\ FramesFor = <<CommentFrame>>
    <3>1. new = <<CommentFrame>>
      BY <1>3, <2>4
    <3> QED  BY <1>5, <1>7, <1>11, <3>1
  <2>5. CASE ~expires /\ FramesFor = <<>>
    <3>1. new = <<>>
      BY <1>3, <2>5
    <3> QED  BY <1>6, <1>11, <3>1
  <2> QED  BY <2>1, <2>2, <2>3, <2>4, <2>5
<1> QED  BY <1>9, <1>10, <1>11

\* What a chunk takes from the wire, and what it leaves there.
LEMMA Chunk ==
  ASSUME wire \in Seq(Frames), NEW n \in 1..Len(wire)
  PROVE  /\ SubSeq(wire, 1, n) \in Seq(Frames)
         /\ DOMAIN SubSeq(wire, 1, n) = 1..n
         /\ \A i \in 1..n : SubSeq(wire, 1, n)[i] = wire[i]
         /\ SubSeq(wire, n + 1, Len(wire)) \in Seq(Frames)
         /\ Len(SubSeq(wire, n + 1, Len(wire))) = Len(wire) - n
         /\ DOMAIN SubSeq(wire, n + 1, Len(wire)) = 1..(Len(wire) - n)
         /\ \A i \in 1..(Len(wire) - n) : i + n \in 1..Len(wire) /\ SubSeq(wire, n + 1, Len(wire))[i] = wire[i + n]
<1>1. Len(wire) \in Nat
  BY LenProperties
<1>2. SubSeq(wire, 1, n) \in Seq(Frames) /\ Len(SubSeq(wire, 1, n)) = n /\ \A i \in 1..n : SubSeq(wire, 1, n)[i] = wire[i]
  BY <1>1
<1>3. /\ SubSeq(wire, n + 1, Len(wire)) \in Seq(Frames)
      /\ Len(SubSeq(wire, n + 1, Len(wire))) = Len(wire) - n
      /\ \A i \in 1..(Len(wire) - n) : SubSeq(wire, n + 1, Len(wire))[i] = wire[i + n]
  BY <1>1
<1>4. DOMAIN SubSeq(wire, 1, n) = 1..n
  BY <1>2, LenProperties
<1>5. DOMAIN SubSeq(wire, n + 1, Len(wire)) = 1..(Len(wire) - n)
  BY <1>3, LenProperties
<1>6. \A i \in 1..(Len(wire) - n) : i + n \in 1..Len(wire)
  BY <1>1
<1> QED  BY <1>2, <1>3, <1>4, <1>5, <1>6

\* What is on the wire once more frames follow.
LEMMA Longer ==
  ASSUME wire \in Seq(Frames), NEW new \in Seq(Frames)
  PROVE  /\ wire \o new \in Seq(Frames)
         /\ Len(wire) \in Nat /\ Len(new) \in Nat
         /\ Len(wire \o new) = Len(wire) + Len(new)
         /\ DOMAIN wire = 1..Len(wire) /\ DOMAIN new = 1..Len(new)
         /\ DOMAIN (wire \o new) = 1..(Len(wire) + Len(new))
         /\ \A i \in 1..Len(wire) : (wire \o new)[i] = wire[i]
         /\ \A i \in 1..Len(new) : (wire \o new)[Len(wire) + i] = new[i]
         /\ \A i \in 1..(Len(wire) + Len(new)) : i \in 1..Len(wire) \/ i - Len(wire) \in 1..Len(new)
<1>1. Len(wire) \in Nat /\ Len(new) \in Nat /\ DOMAIN wire = 1..Len(wire) /\ DOMAIN new = 1..Len(new)
  BY LenProperties
<1>2. wire \o new \in Seq(Frames) /\ Len(wire \o new) = Len(wire) + Len(new)
  BY ConcatProperties
<1>3. \A i \in 1..(Len(wire) + Len(new)) :
        (wire \o new)[i] = IF i <= Len(wire) THEN wire[i] ELSE new[i - Len(wire)]
  BY ConcatProperties
<1> QED  BY <1>1, <1>2, <1>3, LenProperties

-----------------------------------------------------------------------------
\* The state stays well formed, and the screen is labelled while there is no connection.
LEMMA LoopStep ==
  ASSUME TypeOK, LossIsLabelled, LoopInStep, EndComesLast, Next
  PROVE  TypeOK' /\ LossIsLabelled' /\ LoopInStep'
<1> USE StreamSettings, StreamBounds DEF TypeOK, LossIsLabelled, LoopInStep, record, producer, console
<1>0. <<>> \in Seq(Frames)
  OBVIOUS
<1>1. CASE CaseChanges
  <2>1. current' \in Snapshots
    BY <1>1 DEF CaseChanges, Snapshots
  <2> QED  BY <1>1, <2>1 DEF CaseChanges
<1>2. CASE CaseDeleted
  BY <1>2 DEF CaseDeleted
<1>3. CASE read_snapshot
  BY <1>3 DEF read_snapshot
<1>4. CASE Emit
  <2>1. wire' \in Seq(Frames)
    <3>1. PICK new \in Seq(Frames) : wire' = wire \o new
      BY <1>4, RoundFrames
    <3> QED  BY <3>1, ConcatProperties
  <2>2. elapsed' \in 0..Lifetime
    BY <1>4 DEF Emit
  <2>3. idle' \in 0..Heartbeat
    BY <1>4 DEF Emit, FramesFor, Over
  <2>4. cut' \in BOOLEAN
    BY <1>4 DEF Emit
  <2>5. pc = "consume"
    BY <1>4 DEF Emit
  <2> QED  BY <1>4, <2>1, <2>2, <2>3, <2>4, <2>5 DEF Emit
<1>5. CASE Connected
  <2>1. elapsed' \in 0..Lifetime /\ idle' \in 0..Heartbeat /\ attempt' \in 0..(MaxAttempts + 1) /\ attempt' <= MaxAttempts
    BY <1>5 DEF Connected
  <2>2. final' \in BOOLEAN /\ half' \in BOOLEAN /\ stale' \in BOOLEAN /\ cut' \in BOOLEAN
    BY <1>5 DEF Connected
  <2>3. TypeOK'
    BY <1>0, <1>5, <2>1, <2>2 DEF Connected
  <2> QED  BY <1>5, <2>1, <2>3 DEF Connected
<1>6. ASSUME Lose, pc \in {"connect", "consume"}
      PROVE  /\ attempt' \in 0..(MaxAttempts + 1) /\ stale' \in BOOLEAN /\ stale'
             /\ pc' \in {"stopped", "backoff"} /\ status' \in {"failed", "reconnecting"}
             /\ pc' = "backoff" => status' = "reconnecting" /\ attempt' <= MaxAttempts
  BY <1>6 DEF Lose
<1>7. CASE Refused
  BY <1>6, <1>7 DEF Refused
<1>8. CASE ReceivePart
  BY <1>8 DEF ReceivePart
<1>9. ASSUME NEW n \in 1..Len(wire), ReceiveFrames(n)
      PROVE  TypeOK' /\ LossIsLabelled' /\ LoopInStep'
  <2>1. wire' \in Seq(Frames)
    BY <1>9, Chunk DEF ReceiveFrames
  <2>2. final' \in BOOLEAN /\ stale' \in BOOLEAN
    BY <1>9 DEF ReceiveFrames, Dispatch
  <2>3. shown' \in Snapshots \cup {Nothing}
    BY <1>9, Chunk, FrameType DEF ReceiveFrames, Dispatch, News
  <2>4. half' \in BOOLEAN
    BY <1>9 DEF ReceiveFrames
  <2> QED  BY <1>9, <2>1, <2>2, <2>3, <2>4 DEF ReceiveFrames
<1>10. CASE BodyEnds \/ Dropped
  <2>1. Leave /\ pc = "consume" /\ losses' \in 0..MaxLosses
    BY <1>10 DEF BodyEnds, Dropped
  <2>2. CASE final
    BY <1>0, <2>1, <2>2 DEF Leave
  <2>3. CASE ~final
    BY <1>0, <1>6, <2>1, <2>3 DEF Leave
  <2> QED  BY <2>2, <2>3
<1>11. CASE BackoffOver
  BY <1>11 DEF BackoffOver
<1>12. CASE Unmounted
  BY <1>0, <1>12 DEF Unmounted
<1> QED  BY <1>1, <1>2, <1>3, <1>4, <1>5, <1>7, <1>8, <1>9, <1>10, <1>11, <1>12
         DEF Next, ProducerStep, ConsoleStep, Receive

-----------------------------------------------------------------------------
\* Snapshots are read, sent and shown in the order of the case's states.
LEMMA OrderStep ==
  ASSUME TypeOK, LoopInStep, NewerAndNewer, EndComesLast, Next
  PROVE  NewerAndNewer' /\ shown'.version >= shown.version
<1> USE DEF NewerAndNewer
<1>1. /\ current.version \in 0..MaxVersion /\ shown.version \in Int /\ previous.version \in Int
      /\ payload.version \in Int /\ Nothing.version = -1 /\ MaxVersion \in Nat
  BY SnapshotType, StreamBounds DEF TypeOK
<1>2. \A i \in News(wire) : wire[i].snapshot.version \in Int
  BY SnapshotType, FrameType, LenProperties DEF TypeOK, News
<1>3. CASE CaseChanges
  <2>1. current'.version = current.version + 1
    BY <1>3 DEF CaseChanges
  <2>2. UNCHANGED <<spc, payload, previous, wire, shown>>
    BY <1>3 DEF CaseChanges, producer, console
  <2> QED  BY <1>1, <2>1, <2>2 DEF News
<1>4. CASE CaseDeleted \/ ReceivePart \/ BackoffOver \/ Refused
  <2>1. UNCHANGED <<current, spc, payload, previous, wire, shown>>
    BY <1>4 DEF CaseDeleted, ReceivePart, BackoffOver, Refused, record, producer, console
  <2> QED  BY <1>1, <2>1 DEF News
<1>5. CASE read_snapshot
  <2>1. UNCHANGED <<current, previous, wire, shown>> /\ payload' \in {Nothing, current}
    BY <1>5 DEF read_snapshot, record, console
  <2> QED  BY <1>1, <2>1 DEF News
<1>6. CASE Emit
  <2>1. UNCHANGED <<current, payload, shown>> /\ previous' = (IF payload = Nothing THEN previous ELSE payload)
        /\ spc = "emit" /\ spc' # "emit"
    BY <1>6 DEF Emit, record, console
  <2>2. PICK new \in Seq(Frames) :
          /\ wire' = wire \o new
          /\ \A i \in DOMAIN new : new[i].event = "snapshot" => payload \in Snapshots /\ new[i].snapshot = payload
    BY <1>6, RoundFrames
  <2>3. /\ Len(wire) \in Nat /\ Len(new) \in Nat
        /\ DOMAIN wire = 1..Len(wire) /\ DOMAIN new = 1..Len(new)
        /\ DOMAIN wire' = 1..(Len(wire) + Len(new))
        /\ \A i \in 1..Len(wire) : wire'[i] = wire[i]
        /\ \A i \in 1..Len(new) : wire'[Len(wire) + i] = new[i]
        /\ \A i \in 1..(Len(wire) + Len(new)) : i \in 1..Len(wire) \/ i - Len(wire) \in 1..Len(new)
    BY <2>2, Longer DEF TypeOK
  <2>4. previous.version <= previous'.version
    BY <1>1, <2>1
  <2>5. \A i \in News(wire)' : \/ i \in News(wire) /\ i \in 1..Len(wire) /\ wire'[i] = wire[i]
                              \/ /\ i > Len(wire) /\ i \in Int /\ payload \in Snapshots
                                 /\ wire'[i].snapshot = payload
    <3> SUFFICES ASSUME NEW i \in 1..(Len(wire) + Len(new)), wire'[i].event = "snapshot"
                 PROVE  \/ i \in News(wire) /\ i \in 1..Len(wire) /\ wire'[i] = wire[i]
                        \/ /\ i > Len(wire) /\ i \in Int /\ payload \in Snapshots
                           /\ wire'[i].snapshot = payload
      BY <2>3 DEF News
    <3>1. CASE i \in 1..Len(wire)
      BY <2>3, <3>1 DEF News
    <3>2. CASE i - Len(wire) \in 1..Len(new)
      <4>1. wire'[Len(wire) + (i - Len(wire))] = new[i - Len(wire)]
        BY <2>3, <3>2
      <4>2. Len(wire) + (i - Len(wire)) = i /\ i > Len(wire)
        BY <2>3, <3>2
      <4> QED  BY <2>2, <2>3, <3>2, <4>1, <4>2
    <3> QED  BY <2>3, <3>1, <3>2
  <2>6. payload \in Snapshots => payload # Nothing
    BY SnapshotType
  <2>7. payload \in Snapshots => previous' = payload /\ previous.version <= payload.version /\ shown.version <= payload.version
    BY <2>1, <2>6
  <2>8. \A i \in News(wire)' : /\ shown'.version <= wire'[i].snapshot.version
                              /\ wire'[i].snapshot.version <= previous'.version
    <3> TAKE i \in News(wire)'
    <3>1. CASE i \in News(wire) /\ wire'[i] = wire[i]
      <4>1. /\ wire[i].snapshot.version \in Int /\ shown.version <= wire[i].snapshot.version
            /\ wire[i].snapshot.version <= previous.version /\ previous'.version \in Int
        BY <1>1, <1>2, <2>1, <3>1
      <4> QED  BY <1>1, <2>1, <2>4, <3>1, <4>1
    <3>2. CASE payload \in Snapshots /\ wire'[i].snapshot = payload
      BY <1>1, <2>1, <2>7, <3>2
    <3> QED  BY <2>5, <3>1, <3>2
  <2>9. \A i, j \in News(wire)' : i < j => wire'[i].snapshot.version <= wire'[j].snapshot.version
    <3> TAKE i, j \in News(wire)'
    <3> HAVE i < j
    <3>1. CASE i \in News(wire) /\ wire'[i] = wire[i] /\ j \in News(wire) /\ wire'[j] = wire[j]
      BY <3>1
    <3>2. CASE payload \in Snapshots /\ wire'[j].snapshot = payload
      BY <2>7, <2>8, <3>2
    <3>3. CASE i > Len(wire) /\ i \in Int /\ j \in 1..Len(wire)
      BY <2>3, <3>3
    <3> QED  BY <2>5, <3>1, <3>2, <3>3
  <2>10. previous'.version <= current'.version /\ shown'.version <= current'.version /\ payload'.version <= current'.version
    BY <1>1, <2>1
  <2>11. shown'.version >= shown.version
    BY <1>1, <2>1
  <2> QED  BY <2>1, <2>8, <2>9, <2>10, <2>11
<1>7. CASE Connected
  <2>1. UNCHANGED <<current, shown>> /\ spc' = "read" /\ payload' = Nothing /\ previous' = Nothing /\ wire' = <<>>
    BY <1>7 DEF Connected, record
  <2> QED  BY <1>1, <2>1 DEF News
<1>8. CASE BodyEnds \/ Dropped \/ Unmounted
  <2>1. UNCHANGED <<current, shown, payload, previous>> /\ spc' = "off" /\ wire' = <<>>
    BY <1>8 DEF BodyEnds, Dropped, Unmounted, Leave, record
  <2> QED  BY <1>1, <2>1 DEF News
<1>9. ASSUME NEW n \in 1..Len(wire), ReceiveFrames(n)
      PROVE  NewerAndNewer' /\ shown'.version >= shown.version
  <2>1. UNCHANGED <<current, spc, payload, previous>> /\ Dispatch(SubSeq(wire, 1, n))
        /\ wire' = SubSeq(wire, n + 1, Len(wire))
    BY <1>9 DEF ReceiveFrames, record
  <2>2. /\ Len(wire) \in Nat /\ DOMAIN wire = 1..Len(wire)
        /\ DOMAIN SubSeq(wire, 1, n) = 1..n /\ \A i \in 1..n : SubSeq(wire, 1, n)[i] = wire[i]
        /\ DOMAIN wire' = 1..(Len(wire) - n)
        /\ \A i \in 1..(Len(wire) - n) : i + n \in 1..Len(wire) /\ wire'[i] = wire[i + n]
    BY <2>1, Chunk, LenProperties DEF TypeOK
  <2>3. \A i \in News(wire)' : i + n \in News(wire) /\ i \in 1..(Len(wire) - n) /\ wire'[i] = wire[i + n]
    BY <2>2 DEF News
  <2>4. shown' = shown \/ \E i \in News(wire) : i <= n /\ i \in 1..n /\ shown' = wire[i].snapshot
    BY <2>1, <2>2 DEF Dispatch, News
  <2>5. shown.version <= shown'.version /\ shown'.version \in Int
    BY <1>1, <1>2, <2>4
  <2>6. \A i \in News(wire)' : /\ shown'.version <= wire'[i].snapshot.version
                              /\ wire'[i].snapshot.version <= previous'.version
    <3> TAKE i \in News(wire)'
    <3>1. wire'[i] = wire[i + n] /\ i + n \in News(wire) /\ \A j \in 1..n : j < i + n
      BY <2>2, <2>3
    <3> QED  BY <1>1, <1>2, <2>1, <2>4, <3>1
  <2>7. \A i, j \in News(wire)' : i < j => wire'[i].snapshot.version <= wire'[j].snapshot.version
    <3> TAKE i, j \in News(wire)'
    <3> HAVE i < j
    <3>1. i + n < j + n
      BY <2>2, <2>3
    <3> QED  BY <2>3, <3>1
  <2>8. shown'.version <= current'.version
    BY SMTT(30), <1>1, <1>2, <2>1, <2>4
  <2>9. spc' = "emit" /\ payload' # Nothing => shown'.version <= payload'.version
    BY SMTT(30), <1>1, <1>2, <2>1, <2>4
  <2> QED  BY <1>1, <2>1, <2>5, <2>6, <2>7, <2>8, <2>9
<1> QED  BY <1>3, <1>4, <1>5, <1>6, <1>7, <1>8, <1>9
         DEF Next, ProducerStep, ConsoleStep, Receive

-----------------------------------------------------------------------------
\* If the last frame of a chunk that shows the case is number k, the screen shows it.
LEMMA LastNewsShown ==
  ASSUME wire \in Seq(Frames), NEW n \in 1..Len(wire), Dispatch(SubSeq(wire, 1, n)),
         NEW k \in 1..n, wire[k].event = "snapshot",
         \A j \in 1..n : j > k => wire[j].event # "snapshot"
  PROVE  shown' = wire[k].snapshot
<1>1. n \in Nat /\ DOMAIN SubSeq(wire, 1, n) = 1..n /\ \A i \in 1..n : SubSeq(wire, 1, n)[i] = wire[i]
  BY Chunk, LenProperties
<1>2. k \in News(SubSeq(wire, 1, n)) /\ \A j \in News(SubSeq(wire, 1, n)) : j \in 1..n /\ wire[j].event = "snapshot"
  BY <1>1 DEF News
<1>3. PICK i \in News(SubSeq(wire, 1, n)) : /\ \A j \in News(SubSeq(wire, 1, n)) : j <= i
                                           /\ shown' = SubSeq(wire, 1, n)[i].snapshot
  BY <1>2 DEF Dispatch
<1>4. i \in 1..n /\ k <= i /\ ~(i > k)
  BY <1>2, <1>3
<1>5. i = k
  BY <1>1, <1>4
<1> QED  BY <1>1, <1>3, <1>5

\* End events keep coming last and for a reason.
LEMMA EndStep ==
  ASSUME TypeOK, LoopInStep, EndComesLast, EndedForAReason, Next
  PROVE  EndComesLast' /\ EndedForAReason'
<1> USE DEF EndComesLast, EndedForAReason
<1>1. CASE CaseChanges
  BY <1>1 DEF CaseChanges, producer, console, News
<1>2. CASE CaseDeleted
  BY <1>2 DEF CaseDeleted, producer, console, News
<1>3. CASE read_snapshot
  <2>1. UNCHANGED <<gone, wire, final, pc, shown, status, cut>> /\ spc = "read" /\ spc' = "emit"
    BY <1>3 DEF read_snapshot, record, console
  <2>2. payload' = Nothing => gone
    BY <1>3, SnapshotType DEF read_snapshot, TypeOK
  <2> QED  BY <2>1, <2>2
<1>4. CASE Emit
  <2>1. UNCHANGED <<gone, final, pc, shown, status>> /\ spc = "emit" /\ spc' # "emit" /\ pc = "consume" /\ ~final
    BY <1>4 DEF Emit, record, console, LoopInStep
  <2>2. status # "ended"
    BY <2>1 DEF LoopInStep
  <2>3. PICK new \in Seq(Frames) :
          /\ wire' = wire \o new
          /\ \A i \in DOMAIN new : new[i].event = "end" =>
                /\ spc' = "over" /\ i = Len(new)
                /\ gone \/ cut' \/ (i > 1 /\ new[i - 1].event = "snapshot" /\ new[i - 1].snapshot.closed)
    BY <1>4, RoundFrames
  <2>4. /\ Len(wire) \in Nat /\ Len(new) \in Nat
        /\ DOMAIN wire = 1..Len(wire) /\ DOMAIN new = 1..Len(new)
        /\ Len(wire') = Len(wire) + Len(new)
        /\ DOMAIN wire' = 1..(Len(wire) + Len(new))
        /\ \A i \in 1..Len(wire) : wire'[i] = wire[i]
        /\ \A i \in 1..Len(new) : wire'[Len(wire) + i] = new[i]
        /\ \A i \in 1..(Len(wire) + Len(new)) : i \in 1..Len(wire) \/ i - Len(wire) \in 1..Len(new)
    BY <2>3, Longer DEF TypeOK
  <2>5. ASSUME NEW i \in DOMAIN wire', wire'[i].event = "end"
        PROVE  /\ spc' = "over" /\ i = Len(wire')
               /\ gone \/ cut' \/ (i > 1 /\ (i - 1) \in News(wire)' /\ wire'[i - 1].snapshot.closed)
    <3>1. i \notin 1..Len(wire)
      BY <2>1, <2>4, <2>5
    <3>2. i - Len(wire) \in 1..Len(new)
      BY <2>4, <2>5, <3>1
    <3> DEFINE k == i - Len(wire)
    <3>3. k \in 1..Len(new) /\ i = Len(wire) + k
      BY <2>4, <2>5, <3>2
    <3> HIDE DEF k
    <3>4. new[k].event = "end"
      BY SMTT(30), <2>4, <2>5, <3>3
    <3>5. /\ spc' = "over" /\ k = Len(new)
          /\ gone \/ cut' \/ (k > 1 /\ new[k - 1].event = "snapshot" /\ new[k - 1].snapshot.closed)
      BY <2>3, <2>4, <3>3, <3>4
    <3>6. CASE k > 1 /\ new[k - 1].event = "snapshot" /\ new[k - 1].snapshot.closed
      <4>1. k - 1 \in 1..Len(new) /\ i - 1 = Len(wire) + (k - 1) /\ i > 1 /\ i - 1 \in 1..(Len(wire) + Len(new))
        BY <2>4, <3>3, <3>6
      <4>2. wire'[i - 1] = new[k - 1]
        BY <2>4, <4>1
      <4> QED  BY <2>4, <3>3, <3>5, <3>6, <4>1, <4>2 DEF News
    <3>7. CASE gone \/ cut'
      BY <2>4, <3>3, <3>5, <3>7
    <3> QED  BY <3>5, <3>6, <3>7
  <2> QED  BY <2>1, <2>2, <2>5
<1>5. CASE Connected
  BY <1>5 DEF Connected, record
<1>6. CASE Refused
  <2>1. UNCHANGED <<gone, spc, payload, wire, final, shown, cut>> /\ pc = "connect"
        /\ pc' # "consume" /\ status' # "ended"
    BY <1>6 DEF Refused, Lose, record, producer
  <2>2. spc = "off" /\ wire = <<>>
    BY <2>1 DEF LoopInStep
  <2> QED  BY <2>1, <2>2
<1>7. CASE ReceivePart
  BY <1>7 DEF ReceivePart, record, producer, News
<1>8. CASE BackoffOver
  BY <1>8 DEF BackoffOver, record, producer, News
<1>9. CASE Unmounted
  BY <1>9 DEF Unmounted, record, LoopInStep
<1>10. CASE BodyEnds \/ Dropped
  <2>1. Leave /\ pc = "consume"
    BY <1>10 DEF BodyEnds, Dropped
  <2>2. UNCHANGED <<gone, shown, cut>> /\ spc' = "off" /\ wire' = <<>> /\ pc' # "consume"
    BY <2>1 DEF Leave, Lose, record
  <2>3. status' = "ended" => final
    BY <2>1 DEF Leave, Lose
  <2> QED  BY <2>1, <2>2, <2>3
<1>11. ASSUME NEW n \in 1..Len(wire), ReceiveFrames(n)
       PROVE  EndComesLast' /\ EndedForAReason'
  <2>1. UNCHANGED <<gone, spc, payload, pc, status, cut>> /\ Dispatch(SubSeq(wire, 1, n))
        /\ wire' = SubSeq(wire, n + 1, Len(wire)) /\ pc = "consume"
    BY <1>11 DEF ReceiveFrames, record
  <2>2. /\ wire \in Seq(Frames) /\ Len(wire) \in Nat /\ n \in Nat /\ n >= 1 /\ n <= Len(wire) /\ DOMAIN wire = 1..Len(wire)
        /\ DOMAIN SubSeq(wire, 1, n) = 1..n /\ \A i \in 1..n : SubSeq(wire, 1, n)[i] = wire[i]
        /\ Len(wire') = Len(wire) - n
        /\ DOMAIN wire' = 1..(Len(wire) - n)
        /\ \A i \in 1..(Len(wire) - n) : i + n \in 1..Len(wire) /\ wire'[i] = wire[i + n]
        /\ wire' \in Seq(Frames)
    BY <2>1, Chunk, LenProperties DEF TypeOK
  <2>3. status' # "ended" /\ ~final
    <3>1. wire # <<>>
      BY <2>2
    <3> QED  BY <2>1, <3>1 DEF LoopInStep
  <2>4. ASSUME final'
        PROVE  spc' = "over" /\ wire' = <<>> /\ (shown'.closed \/ gone' \/ cut')
    <3>1. PICK i \in 1..n : wire[i].event = "end"
      BY <2>1, <2>2, <2>3, <2>4 DEF Dispatch
    <3>2. i \in DOMAIN wire
      BY <2>2, <3>1
    <3>3. /\ spc = "over" /\ i = Len(wire)
          /\ \/ gone \/ cut
             \/ i = 1 /\ shown.closed
             \/ i > 1 /\ (i - 1) \in News(wire) /\ wire[i - 1].snapshot.closed
      BY <3>1, <3>2
    <3>4. n = Len(wire)
      <4> HIDE DEF EndComesLast, EndedForAReason
      <4>1. i \in Nat /\ i <= n /\ i = Len(wire) /\ n <= Len(wire) /\ n \in Nat
        BY <2>2, <3>1, <3>3
      <4> QED  BY <4>1
    <3>5. wire' = <<>>
      BY <2>2, <3>4
    <3>6. CASE i = 1 /\ shown.closed
      <4>1. News(SubSeq(wire, 1, n)) = {}
        BY <2>2, <3>1, <3>3, <3>4, <3>6 DEF News
      <4>2. shown' = shown
        BY <2>1, <4>1 DEF Dispatch
      <4> QED  BY <2>1, <3>3, <3>5, <3>6, <4>2
    <3>7. CASE i > 1 /\ (i - 1) \in News(wire) /\ wire[i - 1].snapshot.closed
      <4>1. i - 1 \in 1..n /\ wire[i - 1].event = "snapshot"
        BY <3>1, <3>7 DEF News
      <4>2. \A j \in 1..n : j > i - 1 => j = i
        <5> HIDE DEF EndComesLast, EndedForAReason
        <5>1. i = n /\ n \in Nat
          BY <2>2, <3>3, <3>4
        <5> QED  BY <5>1
      <4>3. \A j \in 1..n : j > i - 1 => wire[j].event # "snapshot"
        BY SMTT(30), <3>1, <4>2
      <4>4. shown' = wire[i - 1].snapshot
        BY <2>1, <2>2, <4>1, <4>3, LastNewsShown
      <4> QED  BY <2>1, <3>3, <3>5, <3>7, <4>4
    <3> QED  BY SMTT(30), <2>1, <3>3, <3>5, <3>6, <3>7
  <2>5. ASSUME NEW i \in DOMAIN wire', wire'[i].event = "end"
        PROVE  /\ spc' = "over" /\ i = Len(wire')
               /\ \/ gone' \/ cut'
                  \/ i = 1 /\ shown'.closed
                  \/ i > 1 /\ (i - 1) \in News(wire)' /\ wire'[i - 1].snapshot.closed
    <3>1. i \in 1..(Len(wire) - n) /\ i + n \in DOMAIN wire /\ wire[i + n].event = "end" /\ i + n # 1
      BY <2>2, <2>5
    <3>2. /\ spc = "over" /\ i + n = Len(wire)
          /\ \/ gone \/ cut
             \/ (i + n - 1) \in News(wire) /\ wire[i + n - 1].snapshot.closed
      BY SMTT(30), <3>1
    <3>3. i = Len(wire')
      BY <2>2, <3>1, <3>2
    <3>4. CASE i = 1 /\ (i + n - 1) \in News(wire) /\ wire[i + n - 1].snapshot.closed
      <4>1. i + n - 1 = n
        BY <2>2, <3>4
      <4>2. n \in 1..n /\ wire[n].event = "snapshot" /\ wire[n].snapshot.closed
        BY <2>2, <3>4, <4>1 DEF News
      <4>3. \A j \in 1..n : ~(j > n)
        BY <2>2
      <4>4. shown' = wire[n].snapshot
        BY <2>1, <2>2, <4>2, <4>3, LastNewsShown
      <4> QED  BY <2>1, <3>2, <3>3, <3>4, <4>2, <4>4
    <3>5. CASE i > 1 /\ (i + n - 1) \in News(wire) /\ wire[i + n - 1].snapshot.closed
      <4>1. i - 1 \in 1..(Len(wire) - n) /\ (i - 1) + n = i + n - 1
        <5> HIDE DEF EndComesLast, EndedForAReason
        <5>1. i \in Nat /\ n \in Nat /\ Len(wire) \in Nat /\ i <= Len(wire) - n /\ i > 1
          BY <2>2, <3>1, <3>5
        <5> QED  BY <5>1
      <4>2. wire'[i - 1] = wire[i + n - 1] /\ i - 1 \in DOMAIN wire'
        BY <2>2, <4>1
      <4> QED  BY <2>1, <3>2, <3>3, <3>5, <4>2 DEF News
    <3>6. i = 1 \/ i > 1
      BY <3>1
    <3> QED  BY <2>1, <3>2, <3>3, <3>4, <3>5, <3>6
  <2> QED  BY <2>1, <2>3, <2>4, <2>5
<1> QED  BY <1>1, <1>2, <1>3, <1>4, <1>5, <1>6, <1>7, <1>8, <1>9, <1>10, <1>11
         DEF Next, ProducerStep, ConsoleStep, Receive

-----------------------------------------------------------------------------
\* StreamInv holds at first, and no step leads out of it.
LEMMA StreamStep ==
  /\ Init => StreamInv
  /\ StreamInv /\ [Next]_vars => StreamInv'
<1>1. Init => StreamInv
  <2> SUFFICES ASSUME Init
               PROVE  StreamInv
    OBVIOUS
  <2> USE StreamSettings, StreamBounds DEF Init
  <2>1. current \in Snapshots /\ current.version = 0
    BY DEF Snapshots
  <2>2. gone \in BOOLEAN /\ final \in BOOLEAN /\ half \in BOOLEAN /\ stale \in BOOLEAN /\ cut \in BOOLEAN
    OBVIOUS
  <2>3. elapsed \in 0..Lifetime /\ idle \in 0..Heartbeat /\ attempt \in 0..(MaxAttempts + 1) /\ losses \in 0..MaxLosses
    OBVIOUS
  <2>4. wire \in Seq(Frames) /\ DOMAIN wire = {}
    OBVIOUS
  <2>5. TypeOK
    BY <2>1, <2>2, <2>3, <2>4 DEF TypeOK
  <2>6. LossIsLabelled /\ LoopInStep
    BY DEF LossIsLabelled, LoopInStep
  <2>7. NewerAndNewer
    BY <2>1, <2>4, SnapshotType DEF NewerAndNewer, News
  <2>8. EndComesLast /\ EndedForAReason
    BY <2>4 DEF EndComesLast, EndedForAReason
  <2> QED  BY <2>5, <2>6, <2>7, <2>8 DEF StreamInv
<1>2. StreamInv /\ Next => StreamInv'
  BY LoopStep, OrderStep, EndStep DEF StreamInv
<1>3. StreamInv /\ UNCHANGED vars => StreamInv'
  BY DEF StreamInv, TypeOK, LossIsLabelled, LoopInStep, NewerAndNewer, EndComesLast, EndedForAReason, News,
         vars, record, producer, console
<1> QED  BY <1>1, <1>2, <1>3

\* For any lifetime, heartbeat and limit of attempts, at every moment: the state is
\* well formed, attempts stay within their limit, the screen is labelled stale while
\* there is no connection, and frames arrive in order, an end event last (stream.py,
\* useInvestigationStream).
THEOREM StreamIsSound == Spec => []StreamInv
BY StreamStep, PTL DEF Spec

\* What the producer sent last stays on its way to the screen.
LEMMA DeliveredStep ==
  ASSUME TypeOK, LoopInStep, EndComesLast, Delivered, NothingReadIsLost, Next
  PROVE  Delivered' /\ NothingReadIsLost'
<1> USE DEF Delivered, NothingReadIsLost
<1>1. CASE CaseChanges \/ CaseDeleted \/ ReceivePart
  BY <1>1 DEF CaseChanges, CaseDeleted, ReceivePart, record, producer, console, News
<1>2. CASE read_snapshot
  <2>1. UNCHANGED <<previous, wire, pc, shown, status>> /\ spc' = "emit" /\ pc = "consume" /\ status # "ended"
    BY <1>2 DEF read_snapshot, console, LoopInStep
  <2> QED  BY <2>1 DEF News
<1>3. CASE Connected
  BY <1>3 DEF Connected
<1>4. CASE Refused \/ BackoffOver
  <2>1. UNCHANGED <<payload, previous, wire, spc, shown>> /\ pc' # "consume" /\ status' # "ended"
        /\ spc = "off"
    BY <1>4 DEF Refused, Lose, BackoffOver, producer, LoopInStep
  <2> QED  BY <2>1
<1>5. CASE Unmounted
  <2>1. status # "ended" /\ status' = status /\ pc' = "left" /\ spc' = "off"
    BY <1>5 DEF Unmounted, LoopInStep
  <2> QED  BY <2>1
<1>6. CASE BodyEnds \/ Dropped
  <2>1. Leave /\ pc = "consume"
    BY <1>6 DEF BodyEnds, Dropped
  <2>2. UNCHANGED <<payload, previous, shown>> /\ spc' = "off" /\ pc' # "consume"
    BY <2>1 DEF Leave, Lose
  <2>3. CASE final
    <3>1. spc = "over" /\ wire = <<>>
      BY <2>1, <2>3 DEF EndComesLast
    <3>2. News(wire) = {}
      BY <3>1 DEF News
    <3> QED  BY <2>1, <2>2, <3>1, <3>2
  <2>4. CASE ~final
    <3>1. status' # "ended"
      BY <2>1, <2>4 DEF Leave, Lose
    <3> QED  BY <2>2, <3>1
  <2> QED  BY <2>3, <2>4
<1>7. CASE Emit
  <2>1. UNCHANGED <<payload, shown, pc, status>> /\ previous' = (IF payload = Nothing THEN previous ELSE payload)
        /\ pc = "consume" /\ status # "ended"
    BY <1>7 DEF Emit, console, LoopInStep
  <2>2. PICK new \in Seq(Frames) :
          /\ wire' = wire \o new
          /\ \A i \in DOMAIN new : new[i].event = "snapshot" => payload \in Snapshots /\ new[i].snapshot = payload
          /\ payload \in {Nothing, previous} <=> \A i \in DOMAIN new : new[i].event # "snapshot"
    BY <1>7, RoundFrames
  <2>3. /\ Len(wire) \in Nat /\ Len(new) \in Nat
        /\ DOMAIN wire = 1..Len(wire) /\ DOMAIN new = 1..Len(new)
        /\ DOMAIN wire' = 1..(Len(wire) + Len(new))
        /\ \A i \in 1..Len(wire) : wire'[i] = wire[i]
        /\ \A i \in 1..Len(new) : wire'[Len(wire) + i] = new[i]
    BY <2>2, Longer DEF TypeOK
  <2>4. \A i \in 1..(Len(wire) + Len(new)) :
          i \in 1..Len(wire) \/ \E k \in 1..Len(new) : i = Len(wire) + k /\ wire'[i] = new[k]
    <3> TAKE i \in 1..(Len(wire) + Len(new))
    <3>1. CASE i <= Len(wire)
      BY <2>3, <3>1
    <3>2. CASE i > Len(wire)
      <4>1. i - Len(wire) \in 1..Len(new) /\ Len(wire) + (i - Len(wire)) = i
        BY <2>3, <3>2
      <4> QED  BY <2>3, <4>1
    <3> QED  BY <2>3, <3>1, <3>2
  <2>5. CASE payload \in {Nothing, previous}
    <3>1. previous' = previous
      BY <2>1, <2>5
    <3>2. News(wire)' = News(wire) /\ \A i \in News(wire) : wire'[i] = wire[i]
      <4>1. \A i \in News(wire) : i \in News(wire)' /\ wire'[i] = wire[i]
        BY <2>3 DEF News
      <4>2. \A i \in News(wire)' : i \in News(wire)
        <5> TAKE i \in News(wire)'
        <5>1. i \in 1..(Len(wire) + Len(new)) /\ wire'[i].event = "snapshot"
          BY <2>3 DEF News
        <5>2. ASSUME NEW k \in 1..Len(new), wire'[i] = new[k]
              PROVE  FALSE
          BY <2>2, <2>3, <2>5, <5>1, <5>2
        <5>3. i \in 1..Len(wire)
          BY <2>4, <5>1, <5>2
        <5> QED  BY <2>3, <5>1, <5>3 DEF News
      <4> QED  BY <4>1, <4>2
    <3> QED  BY <2>1, <2>5, <3>1, <3>2
  <2>6. CASE payload \notin {Nothing, previous}
    <3>1. PICK k \in 1..Len(new) : new[k].event = "snapshot"
      BY <2>2, <2>3, <2>6
    <3>2. /\ Len(wire) + k \in 1..(Len(wire) + Len(new)) /\ wire'[Len(wire) + k] = new[k]
          /\ \A j \in 1..Len(wire) : ~(j >= Len(wire) + k)
      BY <2>3, <3>1
    <3>3. Len(wire) + k \in News(wire)'
      BY <2>3, <3>1, <3>2 DEF News
    <3>4. \A j \in News(wire)' : j >= Len(wire) + k => wire'[j].snapshot = payload
      <4> TAKE j \in News(wire)'
      <4> HAVE j >= Len(wire) + k
      <4>1. j \in 1..(Len(wire) + Len(new)) /\ wire'[j].event = "snapshot"
        BY <2>3 DEF News
      <4>2. PICK m \in 1..Len(new) : wire'[j] = new[m]
        BY <2>4, <3>2, <4>1
      <4> QED  BY <2>2, <2>3, <4>1, <4>2
    <3> QED  BY <2>1, <2>6, <3>3, <3>4
  <2> QED  BY <2>5, <2>6
<1>8. ASSUME NEW n \in 1..Len(wire), ReceiveFrames(n)
      PROVE  Delivered' /\ NothingReadIsLost'
  <2>1. UNCHANGED <<spc, payload, previous, pc, status>> /\ Dispatch(SubSeq(wire, 1, n))
        /\ wire' = SubSeq(wire, n + 1, Len(wire)) /\ pc = "consume" /\ status # "ended"
    BY <1>8 DEF ReceiveFrames, LoopInStep
  <2>2. /\ Len(wire) \in Nat /\ n \in Nat /\ DOMAIN wire = 1..Len(wire)
        /\ DOMAIN SubSeq(wire, 1, n) = 1..n /\ \A i \in 1..n : SubSeq(wire, 1, n)[i] = wire[i]
        /\ DOMAIN wire' = 1..(Len(wire) - n)
        /\ \A i \in 1..(Len(wire) - n) : i + n \in 1..Len(wire) /\ wire'[i] = wire[i + n]
    BY <2>1, Chunk, LenProperties DEF TypeOK
  <2>3. \A i \in News(wire)' : i \in Nat /\ i + n \in News(wire) /\ wire'[i] = wire[i + n]
    <3> TAKE i \in News(wire)'
    <3>1. i \in 1..(Len(wire) - n) /\ wire'[i].event = "snapshot"
      BY <2>2 DEF News
    <3>2. i + n \in 1..Len(wire) /\ wire'[i] = wire[i + n] /\ i \in Nat
      BY <2>2, <3>1
    <3> QED  BY <2>2, <3>1, <3>2 DEF News
  <2>4. \A i \in News(wire) : i > n => i - n \in News(wire)' /\ i \in Nat
    <3> TAKE i \in News(wire)
    <3> HAVE i > n
    <3>0. i \in 1..Len(wire)
      BY <2>2 DEF News
    <3>1. i - n \in 1..(Len(wire) - n) /\ (i - n) + n = i /\ i \in Nat
      <4> HIDE DEF Delivered, NothingReadIsLost
      <4>1. i \in Nat /\ n \in Nat /\ Len(wire) \in Nat /\ i > n /\ i <= Len(wire)
        BY <2>2, <3>0
      <4> QED  BY <4>1
    <3>2. wire'[i - n] = wire[i]
      BY <2>2, <3>1
    <3> QED  BY <2>2, <3>0, <3>1, <3>2 DEF News
  <2>5. News(SubSeq(wire, 1, n)) = {i \in News(wire) : i <= n}
    <3>1. \A i \in News(SubSeq(wire, 1, n)) : i \in News(wire) /\ i <= n
      BY <2>2 DEF News
    <3>2. \A i \in News(wire) : i <= n => i \in News(SubSeq(wire, 1, n))
      BY <2>2 DEF News
    <3> QED  BY <3>1, <3>2
  <2>6. \A i \in News(wire) : i \in 1..Len(wire)
    BY <2>2 DEF News
  <2> SUFFICES ASSUME previous # Nothing
               PROVE  \/ News(wire)' = {} /\ shown' = previous
                      \/ \E i \in News(wire)' : \A j \in News(wire)' : j >= i => wire'[j].snapshot = previous
    BY <2>1
  <2>7. CASE News(wire) = {} /\ shown = previous
    <3>1. News(SubSeq(wire, 1, n)) = {} /\ News(wire)' = {}
      BY <2>3, <2>5, <2>7
    <3> QED  BY <2>1, <2>7, <3>1 DEF Dispatch
  <2>8. ASSUME NEW i \in News(wire), \A j \in News(wire) : j >= i => wire[j].snapshot = previous
        PROVE  \/ News(wire)' = {} /\ shown' = previous
               \/ \E k \in News(wire)' : \A j \in News(wire)' : j >= k => wire'[j].snapshot = previous
    <3>1. CASE i > n
      <4>1. i - n \in News(wire)' /\ i \in Nat
        BY <2>4, <3>1
      <4>2. \A j \in News(wire)' : j >= i - n => wire'[j].snapshot = previous
        <5> TAKE j \in News(wire)'
        <5> HAVE j >= i - n
        <5>1. j + n \in News(wire) /\ j + n >= i /\ wire'[j] = wire[j + n]
          BY <2>2, <2>3, <4>1
        <5> QED  BY <2>8, <5>1
      <4> QED  BY <4>1, <4>2
    <3>2. CASE i <= n
      <4>1. \A j \in News(wire)' : wire'[j].snapshot = previous
        <5> TAKE j \in News(wire)'
        <5>1. j + n \in News(wire) /\ j + n >= i /\ wire'[j] = wire[j + n]
          BY <2>2, <2>3, <2>6, <3>2
        <5> QED  BY <2>8, <5>1
      <4>2. i \in News(SubSeq(wire, 1, n))
        BY <2>5, <3>2
      <4>3. PICK k \in News(SubSeq(wire, 1, n)) : /\ \A j \in News(SubSeq(wire, 1, n)) : j <= k
                                                 /\ shown' = SubSeq(wire, 1, n)[k].snapshot
        BY <2>1, <4>2 DEF Dispatch
      <4>4. k \in News(wire) /\ k >= i /\ k \in 1..n
        BY <2>2, <2>5, <2>6, <4>2, <4>3
      <4>5. shown' = previous
        BY <2>2, <2>8, <4>3, <4>4
      <4> QED  BY <4>1, <4>5
    <3> QED  BY <2>2, <2>6, <3>1, <3>2
  <2> QED  BY <2>1, <2>7, <2>8
<1> QED  BY <1>1, <1>2, <1>3, <1>4, <1>5, <1>6, <1>7, <1>8
         DEF Next, ProducerStep, ConsoleStep, Receive

\* A connection that ends in order loses nothing it has read: the console that stops
\* at an end event shows the last snapshot the producer read and sent, however the
\* frames were cut into chunks (investigation_events, consumeStream).
THEOREM OrderlyEndLosesNothing == Spec => []NothingReadIsLost
<1>1. Init => Delivered /\ NothingReadIsLost
  BY DEF Init, Delivered, NothingReadIsLost
<1>2. StreamInv /\ Delivered /\ NothingReadIsLost /\ [Next]_vars => Delivered' /\ NothingReadIsLost'
  <2>1. StreamInv /\ Delivered /\ NothingReadIsLost /\ Next => Delivered' /\ NothingReadIsLost'
    BY DeliveredStep DEF StreamInv
  <2>2. Delivered /\ NothingReadIsLost /\ UNCHANGED vars => Delivered' /\ NothingReadIsLost'
    BY DEF Delivered, NothingReadIsLost, News, vars, producer, console
  <2> QED  BY <2>1, <2>2
<1> QED  BY <1>1, <1>2, StreamIsSound, PTL DEF Spec

\* However connections are lost and remade, no step takes the screen back to an
\* older state of the case (stream.py, onEvent).
THEOREM ScreenNeverGoesBack == Spec => ShownNeverGoesBack
<1>1. StreamInv /\ [Next]_vars => [shown'.version >= shown.version]_vars
  BY OrderStep DEF StreamInv
<1> QED  BY <1>1, StreamIsSound, PTL DEF Spec, ShownNeverGoesBack
=============================================================================
