------------------------- MODULE AuthorBrokerProofs -------------------------
(***************************************************************************)
(* Proofs about one author turn, for any bound on the failures.  All four  *)
(* invariants follow from one strengthening, whose parts say where in the  *)
(* turn what may be running, be published, or be on its way to the client. *)
(***************************************************************************)
EXTENDS AuthorBroker, SequenceTheorems, TLAPS

\* At most the acceptance or a broken result is still unread when the broker
\* answers, and nothing is when it delivers.
FramesInv ==
  /\ pc \in {"receive", "accept"} =>
       frames = <<>> /\ sent # "payload" /\ client \notin {"sending", "waiting"}
  /\ pc \in Before \cup During \cup {"remove", "deliver"} /\ (client = "sending" \/ sent = "payload")
       => frames = <<>>
  /\ pc \in {"publish", "snapshot", "watch", "remove", "deliver"} \cup During => sent = "payload"
  /\ client \in {"connected", "header", "sending"} => sent # "payload"
  /\ ~Ended => Len(frames) <= 1

\* A launcher is alive only while run_bounded_process has it, and a turn that
\* has not failed has seen its unit.
StageInv ==
  /\ pc \in Before \cup {"launch"} => launcher = "none" /\ unit = "none"
  /\ launcher = "up" => pc \in {"inspect", "check", "stream", "abort", "reap"}
  /\ pc \in Before \cup {"launch", "inspect", "check", "stream", "remove", "deliver"} => reason = "none"
  /\ pc \in {"check", "stream", "abort", "reap", "kill", "prove"} /\ reason = "none" => unit # "none"
  /\ pc \in {"kill", "prove"} /\ reason = "none" => launcher = "gone"
  /\ pc \in {"remove", "deliver"} => unit = "gone" /\ launcher = "gone"
  /\ pc \in {"cleanup", "answer"} /\ reason \notin {"mismatch", "broken"} => unit # "running"

\* The publication exists from before the launch to the removal, and the broker
\* has its name unless a check of the new directory failed.
StorageInv ==
  /\ pc \in {"snapshot", "watch", "remove"} \cup During => published /\ owned
  /\ pc = "deliver" => ~published
  /\ published => owned \/ faults > 0
  /\ pc = "answer" /\ published => reason = "mismatch" \/ faults > 0

\* A result, or part of one, is only sent when all is over.
ResultSent == client = "done" \/ \E i \in 1 .. Len(frames) : frames[i] \in {"result", "cut"}
ResultInv  ==
  ResultSent => /\ unit = "gone" /\ ~published /\ launcher = "gone"
                /\ pc \in {"cleanup", "answer", "exited", "died"}

\* The watcher kills only after it has set the event.
WatchInv == watcher \in {"killing", "done"} => cancelled

IInv ==
  /\ TypeOK /\ FramesInv /\ StageInv /\ StorageInv /\ ResultInv /\ WatchInv
  /\ PublicationGuarded /\ CancelledTurnEnds /\ PublicationReclaimed

\* What a frame that is sent, or read, does to the queue.
LEMMA Sending ==
  ASSUME TypeOK, NEW f \in Frame, Send(f)
  PROVE  /\ frames' \in Seq(Frame) /\ Len(frames') = Len(frames) + 1
         /\ \A i \in 1 .. Len(frames') : frames'[i] = IF i = Len(frames') THEN f ELSE frames[i]
BY DEF TypeOK, Send

LEMMA Reading ==
  ASSUME TypeOK, frames # <<>>
  PROVE  /\ Tail(frames) \in Seq(Frame) /\ Len(Tail(frames)) = Len(frames) - 1
         /\ Len(frames) \in {1, 2} /\ Head(frames) = frames[1]
         /\ \A i \in 1 .. Len(Tail(frames)) : Tail(frames)[i] = frames[i + 1]
         /\ Len(frames) = 1 => Tail(frames) = <<>>
<1>1. frames \in Seq(Frame) /\ Len(frames) <= 2
  BY DEF TypeOK
<1>2. Len(frames) \in {1, 2} /\ Head(frames) = frames[1]
  <2>1. Len(frames) \in Nat /\ Len(frames) # 0
    BY <1>1
  <2>2. \A n \in Nat : n # 0 /\ n <= 2 => n \in {1, 2}
    OBVIOUS
  <2>3. Head(frames) = frames[1]
    BY <1>1
  <2> QED
    BY <1>1, <2>1, <2>2, <2>3
<1>3. /\ Tail(frames) \in Seq(Frame) /\ Len(Tail(frames)) = Len(frames) - 1
      /\ \A i \in 1 .. Len(Tail(frames)) : Tail(frames)[i] = frames[i + 1]
  BY <1>1
<1>4. Len(frames) = 1 => Tail(frames) = <<>>
  <2>1. \A s \in Seq(Frame) : Len(s) = 0 => s = <<>>
    OBVIOUS
  <2>2. Len(frames) = 1 => Len(Tail(frames)) = 0
    BY <1>3
  <2> QED
    BY <1>3, <2>1, <2>2
<1> QED
  BY <1>2, <1>3, <1>4

LEMMA InitInv == Init => IInv
<1> SUFFICES ASSUME Init PROVE IInv
  OBVIOUS
<1>1. frames \in Seq(Frame) /\ Len(frames) = 0 /\ faults \in 0 .. MaxFault
  BY FaultAssumption DEF Init
<1>2. TypeOK
  <2>1. Len(frames) <= 2
    BY <1>1
  <2> QED
    BY <1>1, <2>1 DEF Init, TypeOK, Before, Reason
<1>3. FramesInv
  BY <1>1 DEF Init, FramesInv, During
<1>4. StageInv /\ StorageInv
  BY DEF Init, StageInv, StorageInv, During
<1>5. ResultInv
  BY <1>1 DEF Init, ResultInv, ResultSent
<1>6. WatchInv /\ PublicationGuarded /\ CancelledTurnEnds /\ PublicationReclaimed
  BY DEF CancelledTurnEnds, Init, WatchInv, PublicationGuarded, PublicationReclaimed
<1> QED
  BY <1>2, <1>3, <1>4, <1>5, <1>6 DEF IInv

\* Every step preserves the invariant; the actions in the order Next lists them.
LEMMA StepInv == IInv /\ [Next]_vars => IInv'
<1> SUFFICES ASSUME IInv, [Next]_vars PROVE IInv'
  OBVIOUS
<1> USE FaultAssumption DEF FaultAssumption
<1>1. CASE SendHeader
  BY <1>1, SMTT(20)
     DEF CancelledTurnEnds, IInv, TypeOK, FramesInv, StageInv, StorageInv, ResultInv,
         ResultSent, WatchInv, PublicationGuarded, PublicationReclaimed, Behind,
         Closing, Ended, SendHeader, storage, world, watch, conn, vars
<1>2. CASE SendPayload
  BY <1>2, SMTT(20)
     DEF CancelledTurnEnds, IInv, TypeOK, FramesInv, StageInv, StorageInv, ResultInv,
         ResultSent, WatchInv, PublicationGuarded, PublicationReclaimed, Behind,
         Closing, Ended, SendPayload, storage, world, watch, conn, vars
<1>3. CASE ReadFrame
  <2>0. /\ frames \in Seq(Frame) /\ Len(frames) \in {1, 2}
        /\ frames' \in Seq(Frame) /\ Len(frames') \in 0 .. Len(frames) - 1
        /\ Len(frames) = 1 => frames' = <<>>
        /\ \A i \in 1 .. Len(frames') : frames'[i] = frames[i + 1]
        /\ Head(frames) = frames[1]
    <3>1. TypeOK /\ frames # <<>> /\ frames \in Seq(Frame)
      BY <1>3 DEF IInv, TypeOK, ReadFrame
    <3>2. CASE frames' = <<>>
      BY <3>1, <3>2, Reading
    <3>3. CASE frames' = Tail(frames)
      BY <3>1, <3>3, Reading
    <3> QED
      BY <1>3, <3>2, <3>3 DEF ReadFrame
  <2>1. TypeOK'
    BY <1>3, <2>0 DEF IInv, TypeOK, ReadFrame, storage, watch, world, Closing
  <2>2. FramesInv'
    BY <1>3, <2>0 DEF IInv, FramesInv, ReadFrame, Ended, Closing, Before
  <2>3. StageInv'
    BY <1>3 DEF IInv, StageInv, ReadFrame, world
  <2>4. StorageInv'
    BY <1>3 DEF IInv, StorageInv, ReadFrame, storage
  <2>5. ResultInv'
    BY <1>3, <2>0 DEF IInv, ResultInv, ResultSent, ReadFrame, storage, world, Closing
  <2>6. WatchInv'
    BY <1>3 DEF IInv, WatchInv, ReadFrame, watch
  <2>7. (PublicationGuarded /\ CancelledTurnEnds /\ PublicationReclaimed)'
    BY <1>3
       DEF CancelledTurnEnds, IInv, PublicationGuarded, PublicationReclaimed,
           ReadFrame, storage, watch, world
  <2> QED
    BY <2>1, <2>2, <2>3, <2>4, <2>5, <2>6, <2>7 DEF IInv
<1>4. CASE ClientFails
  BY <1>4, SMTT(20)
     DEF CancelledTurnEnds, IInv, TypeOK, FramesInv, StageInv, StorageInv, ResultInv,
         ResultSent, WatchInv, PublicationGuarded, PublicationReclaimed, Behind,
         Closing, Ended, ClientFails, Connected, storage, world, watch, conn, vars
<1>5. CASE Receive
  BY <1>5, SMTT(20)
     DEF CancelledTurnEnds, IInv, TypeOK, FramesInv, StageInv, StorageInv, ResultInv,
         ResultSent, WatchInv, PublicationGuarded, PublicationReclaimed, Before,
         During, Behind, Closing, Ended, Receive, Goto, conn, storage, world, watch,
         vars
<1>6. CASE Accept
  <2>0. /\ frames = <<>>
        /\ frames' \in Seq(Frame) /\ Len(frames') <= 1
        /\ \A i \in 1 .. Len(frames') : frames'[i] = "accepted"
    <3>1. TypeOK /\ frames = <<>> /\ Len(frames) = 0
      BY <1>6 DEF IInv, FramesInv, Accept
    <3>2. CASE Send("accepted")
      <4>1. "accepted" \in Frame
        BY DEF Frame
      <4>2. /\ frames' \in Seq(Frame) /\ Len(frames') = 1
            /\ \A i \in 1 .. Len(frames') :
                 frames'[i] = IF i = Len(frames') THEN "accepted" ELSE frames[i]
        BY <3>1, <3>2, <4>1, Sending
      <4>3. \A i \in 1 .. Len(frames') : i = Len(frames')
        BY <4>2
      <4>4. Len(frames') <= 1
        BY <4>2
      <4> QED
        BY <3>1, <4>2, <4>3, <4>4
    <3>3. CASE UNCHANGED frames
      BY <3>1, <3>3
    <3> QED
      BY <1>6, <3>2, <3>3 DEF Accept
  <2>1. TypeOK'
    BY <1>6, <2>0
       DEF IInv, TypeOK, Accept, Connected, Goto, Raise, storage, watch, world, Before,
           Behind, Closing, Reason
  <2>2. FramesInv'
    BY <1>6, <2>0
       DEF IInv, FramesInv, Accept, Connected, Goto, Raise, During, Ended, Closing
  <2>3. StageInv'
    BY <1>6 DEF IInv, StageInv, Accept, Goto, Raise, world, Before
  <2>4. StorageInv'
    BY <1>6 DEF IInv, StorageInv, Accept, Goto, Raise, storage, During
  <2>5. ResultInv'
    BY <1>6, <2>0
       DEF IInv, ResultInv, ResultSent, Accept, Goto, Raise, storage, world, Closing
  <2>6. WatchInv'
    BY <1>6 DEF IInv, WatchInv, Accept, watch
  <2>7. (PublicationGuarded /\ CancelledTurnEnds /\ PublicationReclaimed)'
    BY <1>6
       DEF CancelledTurnEnds, IInv, StageInv, PublicationGuarded, PublicationReclaimed,
           Accept, Goto, Raise, storage, watch, world, Before
  <2> QED
    BY <2>1, <2>2, <2>3, <2>4, <2>5, <2>6, <2>7 DEF IInv
<1>7. CASE ReceivePayload
  BY <1>7, SMTT(20)
     DEF CancelledTurnEnds, IInv, TypeOK, FramesInv, StageInv, StorageInv, ResultInv,
         ResultSent, WatchInv, PublicationGuarded, PublicationReclaimed, Before,
         During, Behind, Closing, Ended, ReceivePayload, Goto, conn, storage, world,
         watch, vars
<1>8. CASE Publish
  <2>1. TypeOK'
    <3>1. faults' \in 0 .. MaxFault
      BY <1>8 DEF IInv, TypeOK, Publish, Fault
    <3>2. published' \in BOOLEAN /\ owned' \in BOOLEAN
      BY <1>8 DEF IInv, TypeOK, Publish
    <3>3. pc' \in Before \cup During \cup Behind \cup {"died"} /\ reason' \in Reason
      BY <1>8 DEF IInv, TypeOK, Publish, Goto, Raise, Before, Behind, Reason
    <3> QED
      BY <1>8, <3>1, <3>2, <3>3 DEF IInv, TypeOK, Publish, conn, watch, world
  <2>2. FramesInv'
    BY <1>8 DEF IInv, FramesInv, Publish, Goto, Raise, conn, Before, Ended
  <2>3. StageInv'
    BY <1>8 DEF IInv, StageInv, Publish, Goto, Raise, world, Before
  <2>4. StorageInv'
    BY <1>8 DEF IInv, TypeOK, StorageInv, Publish, Goto, Raise, Fault, During
  <2>5. ResultInv'
    BY <1>8 DEF IInv, ResultInv, ResultSent, Publish, conn
  <2>6. WatchInv'
    BY <1>8 DEF IInv, WatchInv, Publish, watch
  <2>7. (PublicationGuarded /\ CancelledTurnEnds /\ PublicationReclaimed)'
    BY <1>8
       DEF CancelledTurnEnds, IInv, PublicationGuarded, PublicationReclaimed, Publish,
           Goto, Raise, watch, world
  <2> QED
    BY <2>1, <2>2, <2>3, <2>4, <2>5, <2>6, <2>7 DEF IInv
<1>9. CASE Snapshot
  BY <1>9, SMTT(20)
     DEF CancelledTurnEnds, IInv, TypeOK, FramesInv, StageInv, StorageInv, ResultInv,
         ResultSent, WatchInv, PublicationGuarded, PublicationReclaimed, Before,
         Behind, Closing, Ended, Snapshot, Goto, conn, storage, world, watch, vars
<1>10. CASE StartWatcher
  BY <1>10, SMTT(20)
     DEF CancelledTurnEnds, IInv, TypeOK, FramesInv, StageInv, StorageInv, ResultInv,
         ResultSent, WatchInv, PublicationGuarded, PublicationReclaimed, During,
         Behind, Closing, Ended, StartWatcher, Goto, conn, storage, world, watch, vars
<1>11. CASE Reject
  BY <1>11, SMTT(20)
     DEF CancelledTurnEnds, IInv, TypeOK, FramesInv, StageInv, StorageInv, ResultInv,
         ResultSent, WatchInv, PublicationGuarded, PublicationReclaimed, Before,
         During, Behind, Closing, Reason, Ended, Reject, Raise, conn, storage, world,
         watch, vars, Goto
<1>12. CASE Launch
  BY <1>12, SMTT(20)
     DEF CancelledTurnEnds, IInv, TypeOK, FramesInv, StageInv, StorageInv, ResultInv,
         ResultSent, WatchInv, PublicationGuarded, PublicationReclaimed, Before,
         During, Behind, Closing, Reason, Ended, Launch, Fault, Goto, conn, storage,
         watch, world, vars
<1>13. CASE Inspect
  BY <1>13, SMTT(20)
     DEF CancelledTurnEnds, IInv, TypeOK, FramesInv, StageInv, StorageInv, ResultInv,
         ResultSent, WatchInv, PublicationGuarded, PublicationReclaimed, Before,
         During, Behind, Closing, Ended, Inspect, Goto, conn, storage, world, watch,
         vars
<1>14. CASE InspectFails
  BY <1>14, SMTT(20)
     DEF CancelledTurnEnds, IInv, TypeOK, FramesInv, StageInv, StorageInv, ResultInv,
         ResultSent, WatchInv, PublicationGuarded, PublicationReclaimed, Before,
         During, Behind, Closing, Reason, Ended, InspectFails, Fault, Goto, conn,
         storage, world, watch, vars
<1>15. CASE Check
  BY <1>15, SMTT(20)
     DEF CancelledTurnEnds, IInv, TypeOK, FramesInv, StageInv, StorageInv, ResultInv,
         ResultSent, WatchInv, PublicationGuarded, PublicationReclaimed, Before,
         During, Behind, Closing, Reason, Ended, Check, Goto, Kill, conn, storage,
         watch, world, vars, Fault
<1>16. CASE StreamEnds
  BY <1>16, SMTT(20)
     DEF CancelledTurnEnds, IInv, TypeOK, FramesInv, StageInv, StorageInv, ResultInv,
         ResultSent, WatchInv, PublicationGuarded, PublicationReclaimed, Before,
         During, Behind, Closing, Ended, StreamEnds, Goto, conn, storage, world, watch,
         vars
<1>17. CASE StreamAborts
  BY <1>17, SMTT(20)
     DEF CancelledTurnEnds, IInv, TypeOK, FramesInv, StageInv, StorageInv, ResultInv,
         ResultSent, WatchInv, PublicationGuarded, PublicationReclaimed, Before,
         During, Behind, Closing, Reason, Ended, StreamAborts, Fault, Goto, conn,
         storage, world, watch, vars
<1>18. CASE Abort
  BY <1>18, SMTT(20)
     DEF CancelledTurnEnds, IInv, TypeOK, FramesInv, StageInv, StorageInv, ResultInv,
         ResultSent, WatchInv, PublicationGuarded, PublicationReclaimed, Before,
         During, Behind, Closing, Ended, Abort, Goto, Kill, conn, storage, watch,
         world, vars, Fault
<1>19. CASE Reap
  BY <1>19, SMTT(20)
     DEF CancelledTurnEnds, IInv, TypeOK, FramesInv, StageInv, StorageInv, ResultInv,
         ResultSent, WatchInv, PublicationGuarded, PublicationReclaimed, Before,
         During, Behind, Closing, Ended, Reap, Goto, conn, storage, watch, world, vars
<1>20. CASE FinalKill
  BY <1>20, SMTT(20)
     DEF CancelledTurnEnds, IInv, TypeOK, FramesInv, StageInv, StorageInv, ResultInv,
         ResultSent, WatchInv, PublicationGuarded, PublicationReclaimed, Before,
         During, Behind, Closing, Ended, FinalKill, Goto, Kill, conn, storage, watch,
         world, vars, Fault
<1>21. CASE Prove
  BY <1>21, SMTT(20)
     DEF CancelledTurnEnds, IInv, TypeOK, FramesInv, StageInv, StorageInv, ResultInv,
         ResultSent, WatchInv, PublicationGuarded, PublicationReclaimed, Before,
         Behind, Closing, Ended, Prove, Goto, Raise, conn, storage, world, watch, vars
<1>22. CASE ProveFails
  BY <1>22, SMTT(20)
     DEF CancelledTurnEnds, IInv, TypeOK, FramesInv, StageInv, StorageInv, ResultInv,
         ResultSent, WatchInv, PublicationGuarded, PublicationReclaimed, Before,
         Behind, Closing, Reason, Ended, ProveFails, Fault, Raise, conn, storage,
         world, watch, vars, Goto
<1>23. CASE ProveBreaks
  BY <1>23, SMTT(20)
     DEF CancelledTurnEnds, IInv, TypeOK, FramesInv, StageInv, StorageInv, ResultInv,
         ResultSent, WatchInv, PublicationGuarded, PublicationReclaimed, Before,
         Behind, Closing, Reason, Ended, ProveBreaks, Fault, Raise, conn, storage,
         world, watch, vars, Goto
<1>24. CASE Remove
  <2>1. TypeOK'
    <3>1. faults' \in 0 .. MaxFault
      BY <1>24 DEF IInv, TypeOK, Remove, Fault, RemovalFails
    <3>2. published' \in BOOLEAN /\ owned' \in BOOLEAN
      BY <1>24 DEF IInv, TypeOK, Remove, Removal, RemovalFails
    <3>3. pc' \in Before \cup During \cup Behind \cup {"died"} /\ reason' \in Reason
      BY <1>24 DEF IInv, TypeOK, Remove, Goto, Raise, Behind, Reason
    <3> QED
      BY <1>24, <3>1, <3>2, <3>3 DEF IInv, TypeOK, Remove, conn, watch, world
  <2>2. FramesInv'
    BY <1>24 DEF IInv, FramesInv, Remove, Goto, Raise, conn, Ended
  <2>3. StageInv'
    BY <1>24 DEF IInv, StageInv, Remove, Goto, Raise, world, Before
  <2>4. StorageInv'
    BY <1>24
       DEF IInv, StorageInv, Remove, Removal, RemovalFails, Goto, Raise, Fault, During
  <2>5. ResultInv'
    BY <1>24 DEF IInv, ResultInv, ResultSent, Remove, conn
  <2>6. WatchInv'
    BY <1>24 DEF IInv, WatchInv, Remove, watch
  <2>7. (PublicationGuarded /\ CancelledTurnEnds /\ PublicationReclaimed)'
    BY <1>24
       DEF CancelledTurnEnds, IInv, StageInv, PublicationGuarded, PublicationReclaimed,
           Remove, Goto, Raise, watch, world
  <2> QED
    BY <2>1, <2>2, <2>3, <2>4, <2>5, <2>6, <2>7 DEF IInv
<1>25. CASE Deliver
  <2>0. /\ frames = <<>> /\ unit = "gone" /\ launcher = "gone" /\ ~published
        /\ frames' \in Seq(Frame) /\ Len(frames') <= 1
    <3>1. /\ TypeOK /\ frames = <<>> /\ Len(frames) = 0
          /\ unit = "gone" /\ launcher = "gone" /\ ~published
      BY <1>25 DEF IInv, FramesInv, StageInv, StorageInv, Deliver
    <3>2. CASE Send("result") \/ Send("cut")
      BY <3>1, <3>2, Sending DEF Frame
    <3>3. CASE UNCHANGED frames
      BY <3>1, <3>3
    <3> QED
      BY <1>25, <3>1, <3>2, <3>3 DEF Deliver
  <2>1. TypeOK'
    BY <1>25, <2>0
       DEF IInv, TypeOK, Deliver, Goto, Raise, storage, watch, world, Behind, Closing,
           Reason
  <2>2. FramesInv'
    BY <1>25, <2>0 DEF IInv, FramesInv, Deliver, Goto, Raise, Before, During, Ended
  <2>3. StageInv'
    BY <1>25, <2>0 DEF IInv, StageInv, Deliver, Goto, Raise, world, Before
  <2>4. StorageInv'
    BY <1>25, <2>0 DEF IInv, StorageInv, Deliver, Goto, Raise, storage, During
  <2>5. ResultInv'
    BY <1>25, <2>0 DEF IInv, ResultInv, Deliver, Goto, Raise, storage, world
  <2>6. WatchInv'
    BY <1>25 DEF IInv, WatchInv, Deliver, watch
  <2>7. (PublicationGuarded /\ CancelledTurnEnds /\ PublicationReclaimed)'
    BY <1>25, <2>0
       DEF CancelledTurnEnds, IInv, PublicationGuarded, PublicationReclaimed, Deliver,
           Goto, Raise, storage, watch, world
  <2> QED
    BY <2>1, <2>2, <2>3, <2>4, <2>5, <2>6, <2>7 DEF IInv
<1>26. CASE Cleanup
  <2>1. TypeOK'
    <3>1. faults' \in 0 .. MaxFault
      BY <1>26 DEF IInv, TypeOK, Cleanup, Fault, RemovalFails
    <3>2. published' \in BOOLEAN /\ owned' \in BOOLEAN
      BY <1>26 DEF IInv, TypeOK, Cleanup, Removal, RemovalFails, storage
    <3>3. pc' \in Before \cup During \cup Behind \cup {"died"} /\ reason' \in Reason
      BY <1>26 DEF IInv, TypeOK, Cleanup, Goto, Behind
    <3> QED
      BY <1>26, <3>1, <3>2, <3>3 DEF IInv, TypeOK, Cleanup, conn, watch, world
  <2>2. FramesInv'
    BY <1>26 DEF IInv, FramesInv, Cleanup, Goto, conn, Before, During, Ended
  <2>3. StageInv'
    BY <1>26 DEF IInv, StageInv, Cleanup, Goto, world, Before
  <2>4. StorageInv'
    BY <1>26
       DEF IInv, TypeOK, StorageInv, Cleanup, Removal, RemovalFails, Goto, Fault,
           storage, During
  <2>5. ResultInv'
    BY <1>26
       DEF IInv, ResultInv, ResultSent, Cleanup, Removal, RemovalFails, Goto, conn,
           storage, world
  <2>6. WatchInv'
    BY <1>26 DEF IInv, WatchInv, Cleanup, watch
  <2>7. (PublicationGuarded /\ CancelledTurnEnds /\ PublicationReclaimed)'
    BY <1>26
       DEF CancelledTurnEnds, IInv, StageInv, PublicationGuarded, PublicationReclaimed,
           Cleanup, Removal, RemovalFails, Goto, storage, watch, world
  <2> QED
    BY <2>1, <2>2, <2>3, <2>4, <2>5, <2>6, <2>7 DEF IInv
<1>27. CASE Answer
  <2>0. /\ frames' \in Seq(Frame) /\ Len(frames') <= 2
        /\ \A i \in 1 .. Len(frames') :
             frames'[i] = "error" \/ (i \in 1 .. Len(frames) /\ frames'[i] = frames[i])
    <3>1. TypeOK /\ frames \in Seq(Frame) /\ Len(frames) \in Nat /\ Len(frames) <= 1
      BY <1>27 DEF IInv, TypeOK, FramesInv, Answer, Ended
    <3>2. CASE Send("error")
      BY <3>1, <3>2, Sending DEF Frame
    <3>3. CASE UNCHANGED frames
      BY <3>1, <3>3
    <3> QED
      BY <1>27, <3>2, <3>3 DEF Answer
  <2>1. TypeOK'
    BY <1>27, <2>0 DEF IInv, TypeOK, Answer, Goto, storage, watch, world, Behind, Closing
  <2>2. FramesInv'
    BY <1>27 DEF IInv, FramesInv, Answer, Goto, Before, During, Ended
  <2>3. StageInv'
    BY <1>27 DEF IInv, StageInv, Answer, Goto, world, Before
  <2>4. StorageInv'
    BY <1>27 DEF IInv, StorageInv, Answer, Goto, storage, During
  <2>5. ResultInv'
    BY <1>27, <2>0 DEF IInv, ResultInv, ResultSent, Answer, Goto, storage, world
  <2>6. WatchInv'
    BY <1>27 DEF IInv, WatchInv, Answer, watch
  <2>7. (PublicationGuarded /\ CancelledTurnEnds /\ PublicationReclaimed)'
    BY <1>27
       DEF CancelledTurnEnds, IInv, StorageInv, PublicationGuarded,
           PublicationReclaimed, Answer, Goto, storage, watch, world
  <2> QED
    BY <2>1, <2>2, <2>3, <2>4, <2>5, <2>6, <2>7 DEF IInv
<1>28. CASE PeerGone
  BY <1>28, SMTT(20)
     DEF CancelledTurnEnds, IInv, TypeOK, FramesInv, StageInv, StorageInv, ResultInv,
         ResultSent, WatchInv, PublicationGuarded, PublicationReclaimed, Behind,
         Closing, Ended, PeerGone, Connected, conn, storage, world, watch, vars
<1>29. CASE WatcherKill
  BY <1>29, SMTT(20)
     DEF CancelledTurnEnds, IInv, TypeOK, FramesInv, StageInv, StorageInv, ResultInv,
         ResultSent, WatchInv, PublicationGuarded, PublicationReclaimed, Behind,
         Closing, Ended, WatcherKill, Kill, conn, storage, world, watch, vars, Fault
<1>30. CASE Register
  BY <1>30, SMTT(20)
     DEF CancelledTurnEnds, IInv, TypeOK, FramesInv, StageInv, StorageInv, ResultInv,
         ResultSent, WatchInv, PublicationGuarded, PublicationReclaimed, Behind,
         Closing, Ended, Register, conn, storage, watch, world, vars
<1>31. CASE UnitEnds
  BY <1>31, SMTT(20)
     DEF CancelledTurnEnds, IInv, TypeOK, FramesInv, StageInv, StorageInv, ResultInv,
         ResultSent, WatchInv, PublicationGuarded, PublicationReclaimed, Behind,
         Closing, Ended, UnitEnds, conn, storage, watch, world, vars
<1>32. CASE LauncherEnds
  BY <1>32, SMTT(20)
     DEF CancelledTurnEnds, IInv, TypeOK, FramesInv, StageInv, StorageInv, ResultInv,
         ResultSent, WatchInv, PublicationGuarded, PublicationReclaimed, Behind,
         Closing, Ended, LauncherEnds, conn, storage, watch, world, vars
<1>33. CASE BrokerDies
  BY <1>33, SMTT(20)
     DEF CancelledTurnEnds, IInv, TypeOK, FramesInv, StageInv, StorageInv, ResultInv,
         ResultSent, WatchInv, PublicationGuarded, PublicationReclaimed, Before,
         During, Behind, Closing, Ended, BrokerDies, Fault, Goto, conn, storage, watch,
         world, vars
<1>34. CASE Done
  BY <1>34, SMTT(20)
     DEF CancelledTurnEnds, IInv, TypeOK, FramesInv, StageInv, StorageInv, ResultInv,
         ResultSent, WatchInv, PublicationGuarded, PublicationReclaimed, Behind,
         Closing, Ended, Done, Connected, vars, conn, storage, world, watch
<1>35. CASE UNCHANGED vars
  BY <1>35
     DEF CancelledTurnEnds, IInv, TypeOK, FramesInv, StageInv, StorageInv, ResultInv,
         ResultSent, WatchInv, PublicationGuarded, PublicationReclaimed, Behind,
         Closing, Ended, vars, conn, storage, watch, world
<1> QED
  BY <1>1, <1>2, <1>3, <1>4, <1>5, <1>6, <1>7, <1>8, <1>9, <1>10, <1>11, <1>12, <1>13,
     <1>14, <1>15, <1>16, <1>17, <1>18, <1>19, <1>20, <1>21, <1>22, <1>23, <1>24, <1>25,
     <1>26, <1>27, <1>28, <1>29, <1>30, <1>31, <1>32, <1>33, <1>34, <1>35
     DEF Next, Client, Serve, Author, Wrap, Broker, Watcher, System

LEMMA Invariance == Spec => []IInv
BY InitInv, StepInv, PTL DEF Spec

\* The conversation keeps its types, and never holds more than two frames.
THEOREM TypeCorrect == Spec => []TypeOK
<1>1. IInv => TypeOK
  BY DEF IInv
<1> QED
  BY <1>1, Invariance, PTL

\* broker_main never removes the files of an author that may still run, or be
\* started, however many commands and removals fail, except when the question
\* that stands in for a control group never found raises an error itself.
THEOREM Guarded == Spec => []PublicationGuarded
<1>1. IInv => PublicationGuarded
  BY DEF IInv
<1> QED
  BY <1>1, Invariance, PTL

\* run_author returns a result only of an author that is gone, whose files are
\* removed.
THEOREM ResultsFinal == Spec => []ResultMeansGone
<1>1. IInv => ResultMeansGone
  BY DEF IInv, ResultInv, ResultSent, ResultMeansGone
<1> QED
  BY <1>1, Invariance, PTL

\* Watcher and started() between them kill the author of a client that has
\* gone, whichever comes first, unless a kill fails.
THEOREM CancelledKilled == Spec => []CancelledTurnEnds
<1>1. IInv => CancelledTurnEnds
  BY DEF IInv
<1> QED
  BY <1>1, Invariance, PTL

\* What broker_main leaves behind is a lifecycle mismatch or a failure.
THEOREM Reclaimed == Spec => []PublicationReclaimed
<1>1. IInv => PublicationReclaimed
  BY DEF IInv
<1> QED
  BY <1>1, Invariance, PTL
=============================================================================
