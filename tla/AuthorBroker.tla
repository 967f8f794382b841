---------------------------- MODULE AuthorBroker ----------------------------
(***************************************************************************)
(* One author turn in the fixed system service: FixedAuthorServiceClient   *)
(* and broker_main (author_service.py), with run_bounded_process           *)
(* (service.py) underneath.                                                *)
(*                                                                         *)
(* systemd starts one broker per connection.  The broker takes the         *)
(* request, publishes read-only copies of the author's files, lets         *)
(* systemd-run start the author unit, waits for its end and answers.  A    *)
(* second thread watches the connection and kills the unit when the client *)
(* goes away; the unit may not exist yet, or no longer.  The copies are    *)
(* removed only when nothing can be running on them any more.              *)
(*                                                                         *)
(* Every wait has a deadline that may pass at any time.  systemd itself is *)
(* outside the program: a launcher that is alive may get its unit started, *)
(* and a unit ends when it is killed, is done, or its broker is gone.      *)
(***************************************************************************)
EXTENDS Naturals, Sequences

CONSTANT MaxFault  \* bound: failed commands, failed removals, broker deaths

ASSUME FaultAssumption == MaxFault \in Nat

VARIABLES
  client,    \* FixedAuthorServiceClient.run_author
  sent,      \* what the broker's end of the connection has to read
  frames,    \* frames on their way to the client
  pc,        \* broker_main
  reason,    \* why the turn failed, as the broker sees it
  published, \* does the publication directory exist?
  owned,     \* does the broker hold its name (publication is not None)?
  cancelled, \* the event the watcher sets
  watcher,   \* the watcher thread
  group,     \* has started() found the unit's control group?
  launcher,  \* the systemd-run process
  unit,      \* the author unit
  faults     \* failures so far

conn    == <<client, sent, frames>>
storage == <<published, owned>>
world   == <<launcher, unit>>
watch   == <<cancelled, watcher, group>>
vars    == <<conn, pc, reason, storage, watch, world, faults>>

Frame  == {"accepted", "result", "cut", "error"}
Reason == {"none", "mismatch", "interrupt", "error", "broken"}

Before  == {"receive", "accept", "payload", "publish", "snapshot", "watch"}
During  == {"launch", "inspect", "check", "stream", "abort", "reap", "kill", "prove"}
Behind  == {"remove", "deliver", "cleanup", "answer", "exited"}
Closing == {"done", "failed"}

TypeOK ==
  /\ client \in {"connected", "header", "sending", "waiting"} \cup Closing
  /\ sent \in {"nothing", "header", "payload"} /\ frames \in Seq(Frame) /\ Len(frames) <= 2
  /\ pc \in Before \cup During \cup Behind \cup {"died"}
  /\ reason \in Reason
  /\ published \in BOOLEAN /\ owned \in BOOLEAN
  /\ cancelled \in BOOLEAN /\ watcher \in {"none", "polling", "killing", "done"} /\ group \in BOOLEAN
  /\ launcher \in {"none", "up", "gone"} /\ unit \in {"none", "running", "gone"}
  /\ faults \in 0 .. MaxFault

-----------------------------------------------------------------------------
Fault == faults < MaxFault /\ faults' = faults + 1
Connected == client \notin Closing
Ended == pc \in {"exited", "died"}

Goto(step) == pc' = step
Send(frame) == frames' = Append(frames, frame)

\* An exception: caught by broker_main, which cleans up and answers.
Raise(r) == Goto("cleanup") /\ reason' = r

\* _kill_system_unit: does nothing to a unit that does not exist; systemctl
\* may fail, which nobody looks at.
Kill ==
  \/ unit' = (IF unit = "running" THEN "gone" ELSE unit) /\ UNCHANGED faults
  \/ unit = "running" /\ UNCHANGED unit /\ Fault

-----------------------------------------------------------------------------
\* The client.

SendHeader ==
  /\ client = "connected" /\ ~Ended
  /\ client' = "header" /\ sent' = "header"
  /\ UNCHANGED <<frames, pc, reason, storage, watch, world, faults>>

SendPayload ==
  /\ client = "sending" /\ ~Ended
  /\ client' = "waiting" /\ sent' = "payload"
  /\ UNCHANGED <<frames, pc, reason, storage, watch, world, faults>>

\* The acceptance, the result, or an error.  A result that breaks off is an
\* error of the protocol, unless the bytes of a frame behind it make it up.
ReadFrame ==
  /\ client \in {"header", "waiting"} /\ frames # <<>>
  /\ \/ /\ Head(frames) = "cut" /\ Len(frames) > 1
        /\ client' \in Closing /\ frames' = <<>>
     \/ /\ Head(frames) # "cut"
        /\ client' = IF client = "header" /\ Head(frames) = "accepted" THEN "sending"
                     ELSE IF client = "waiting" /\ Head(frames) = "result" THEN "done"
                     ELSE "failed"
        /\ frames' = Tail(frames)
  /\ UNCHANGED <<sent, pc, reason, storage, watch, world, faults>>

\* Its deadline passes, it is interrupted, it dies, or the broker has closed
\* the connection.
ClientFails ==
  /\ Connected
  /\ client' = "failed"
  /\ UNCHANGED <<sent, frames, pc, reason, storage, watch, world, faults>>

-----------------------------------------------------------------------------
\* The broker up to the launch.

Receive ==
  /\ pc = "receive" /\ sent # "nothing"
  /\ Goto("accept")
  /\ UNCHANGED <<conn, reason, storage, watch, world, faults>>

Accept ==
  /\ pc = "accept"
  /\ IF Connected THEN Send("accepted") /\ Goto("payload") /\ UNCHANGED reason
                  ELSE Raise("error") /\ UNCHANGED frames
  /\ UNCHANGED <<client, sent, storage, watch, world, faults>>

ReceivePayload ==
  /\ pc = "payload" /\ sent = "payload"
  /\ Goto("publish")
  /\ UNCHANGED <<conn, reason, storage, watch, world, faults>>

\* _safe_publication_directory: its checks after mkdir may fail, and then the
\* broker never learns the name.
Publish ==
  /\ pc = "publish"
  /\ published' = TRUE
  /\ \/ owned' = TRUE /\ Goto("snapshot") /\ UNCHANGED <<reason, faults>>
     \/ UNCHANGED owned /\ Raise("error") /\ Fault
  /\ UNCHANGED <<conn, watch, world>>

Snapshot ==
  /\ pc = "snapshot"
  /\ Goto("watch")
  /\ UNCHANGED <<conn, reason, storage, watch, world, faults>>

StartWatcher ==
  /\ pc = "watch"
  /\ watcher' = "polling" /\ Goto("launch")
  /\ UNCHANGED <<conn, reason, storage, cancelled, group, world, faults>>

\* A deadline, a closed connection, a request that breaks a rule, or files
\* that do not match their digests.
Reject ==
  /\ pc \in Before
  /\ Raise("error")
  /\ UNCHANGED <<conn, storage, watch, world, faults>>

-----------------------------------------------------------------------------
\* The watcher thread.

PeerGone ==
  /\ watcher = "polling" /\ ~Connected /\ ~Ended
  /\ cancelled' = TRUE /\ watcher' = "killing"
  /\ UNCHANGED <<conn, pc, reason, storage, group, world, faults>>

WatcherKill ==
  /\ watcher = "killing" /\ ~Ended
  /\ Kill /\ watcher' = "done"
  /\ UNCHANGED <<conn, pc, reason, storage, cancelled, group, launcher>>

-----------------------------------------------------------------------------
\* _run_system_author and run_bounded_process.

Launch ==
  /\ pc = "launch"
  /\ \/ launcher' = "up" /\ Goto("inspect") /\ UNCHANGED <<reason, faults>>
     \/ UNCHANGED launcher /\ Goto("kill") /\ reason' = "error" /\ Fault
  /\ UNCHANGED <<conn, storage, watch, unit>>

\* started(): wait up to three seconds for the control group, which a unit
\* that is already gone does not have, or fail to ask for it ...
Inspect ==
  /\ pc = "inspect" /\ unit = "running"
  /\ group' = TRUE /\ Goto("check")
  /\ UNCHANGED <<conn, reason, storage, cancelled, watcher, world, faults>>

InspectKeepsWaiting ==
  /\ pc = "inspect" /\ unit # "running"
  /\ UNCHANGED vars

InspectFails ==
  /\ pc = "inspect"
  /\ Goto("abort")
  /\ \/ reason' = "mismatch" /\ UNCHANGED faults
     \/ reason' = "error" /\ Fault
  /\ UNCHANGED <<conn, storage, watch, world>>

\* ... then see whether the client has gone meanwhile.
Check ==
  /\ pc = "check"
  /\ \/ ~cancelled /\ Goto("stream") /\ UNCHANGED <<reason, unit, faults>>
     \/ cancelled /\ Kill /\ Goto("abort") /\ reason' = "interrupt"
  /\ UNCHANGED <<conn, storage, watch, launcher>>

\* The launcher ends: the turn is over.
StreamEnds ==
  /\ pc = "stream" /\ launcher = "gone"
  /\ Goto("kill")
  /\ UNCHANGED <<conn, reason, storage, watch, world, faults>>

\* Timeout or output limit, which is a result; or an exception.
StreamAborts ==
  /\ pc = "stream"
  /\ Goto("abort")
  /\ \/ UNCHANGED <<reason, faults>>
     \/ reason' = "error" /\ Fault
  /\ UNCHANGED <<conn, storage, watch, world>>

\* abort(): the unit, then the launcher's process group, which is reaped.
Abort ==
  /\ pc = "abort"
  /\ Kill /\ Goto("reap")
  /\ UNCHANGED <<conn, reason, storage, watch, launcher>>

Reap ==
  /\ pc = "reap"
  /\ launcher' = "gone" /\ Goto("kill")
  /\ UNCHANGED <<conn, reason, storage, watch, unit, faults>>

FinalKill ==
  /\ pc = "kill"
  /\ Kill /\ Goto("prove")
  /\ UNCHANGED <<conn, reason, storage, watch, launcher>>

\* The observed control group is empty or, if none was observed, systemd does
\* not know the unit.
ProveTrustsKill ==
  /\ pc = "prove"
  /\ IF reason = "none" THEN Goto("remove") /\ UNCHANGED reason ELSE Raise(reason)
  /\ UNCHANGED <<conn, storage, watch, world, faults>>

Prove ==
  /\ pc = "prove" /\ unit # "running"
  /\ IF reason = "none" THEN Goto("remove") /\ UNCHANGED reason ELSE Raise(reason)
  /\ UNCHANGED <<conn, storage, watch, world, faults>>

\* It is not, or that cannot be read, until the deadline.
ProveFails ==
  /\ pc = "prove"
  /\ \/ unit = "running" /\ UNCHANGED faults
     \/ unit # "running" /\ Fault
  /\ Raise("mismatch")
  /\ UNCHANGED <<conn, storage, watch, world>>

\* Without a control group systemd is asked, and the question itself may fail:
\* a systemctl that cannot be started, or an answer that cannot be decoded.
\* That is no lifecycle mismatch, and what the turn failed of is lost.
ProveBreaks ==
  /\ pc = "prove" /\ ~group
  /\ Fault /\ Raise("broken")
  /\ UNCHANGED <<conn, storage, watch, world>>

-----------------------------------------------------------------------------
\* The end.

Removal == published /\ published' = FALSE /\ owned' = FALSE

\* A removal may fail after the directory itself is gone.
RemovalFails ==
  /\ published /\ published' \in BOOLEAN /\ UNCHANGED owned
  /\ Fault

Remove ==
  /\ pc = "remove"
  /\ \/ Removal /\ Goto("deliver") /\ UNCHANGED <<reason, faults>>
     \/ RemovalFails /\ Raise("error")
  /\ UNCHANGED <<conn, watch, world>>

\* Nothing is sent to a client that has gone.  The deadline may pass before
\* the result is sent, or in the middle.
Deliver ==
  /\ pc = "deliver"
  /\ \/ cancelled /\ Goto("exited") /\ UNCHANGED <<frames, reason>>
     \/ /\ ~cancelled
        /\ \/ Connected /\ Send("result") /\ Goto("exited") /\ UNCHANGED reason
           \/ /\ (Connected /\ Send("cut")) \/ UNCHANGED frames
              /\ Raise("error")
  /\ UNCHANGED <<client, sent, storage, watch, world, faults>>

\* After an exception: remove the publication, except after a lifecycle
\* mismatch, when the author may still be running.  A directory that is gone cannot be removed, an error
\* like any other.
CleanupAlways ==
  /\ pc = "cleanup"
  /\ owned' = FALSE /\ published' = (published /\ ~owned)
  /\ Goto("answer")
  /\ UNCHANGED <<conn, reason, watch, world, faults>>

Cleanup ==
  /\ pc = "cleanup"
  /\ \/ owned /\ reason # "mismatch" /\ Removal /\ UNCHANGED faults
     \/ owned /\ reason # "mismatch" /\ RemovalFails
     \/ (~owned \/ ~published \/ reason = "mismatch") /\ UNCHANGED <<storage, faults>>
  /\ Goto("answer")
  /\ UNCHANGED <<conn, reason, watch, world>>

Answer ==
  /\ pc = "answer"
  /\ (Connected /\ Send("error")) \/ UNCHANGED frames
  /\ Goto("exited")
  /\ UNCHANGED <<client, sent, reason, storage, watch, world, faults>>

\* The broker's own unit is stopped, or it is interrupted: its processes go,
\* the launcher among them.
BrokerDies ==
  /\ ~Ended /\ Fault
  /\ Goto("died")
  /\ launcher' = IF launcher = "up" THEN "gone" ELSE launcher
  /\ UNCHANGED <<conn, reason, storage, watch, unit>>

-----------------------------------------------------------------------------
\* systemd.

Register ==
  /\ launcher = "up" /\ unit = "none"
  /\ \/ unit' = "running" /\ UNCHANGED launcher
     \/ launcher' = "gone" /\ UNCHANGED unit
  /\ UNCHANGED <<conn, pc, reason, storage, watch, faults>>

\* Done, over its own limits, or stopped with the broker it is bound to.
UnitEnds ==
  /\ unit = "running"
  /\ unit' = "gone"
  /\ UNCHANGED <<conn, pc, reason, storage, watch, launcher, faults>>

LauncherEnds ==
  /\ launcher = "up" /\ unit = "gone"
  /\ launcher' = "gone"
  /\ UNCHANGED <<conn, pc, reason, storage, watch, unit, faults>>

-----------------------------------------------------------------------------
Init ==
  /\ client = "connected" /\ sent = "nothing" /\ frames = <<>>
  /\ pc = "receive" /\ reason = "none"
  /\ published = FALSE /\ owned = FALSE
  /\ cancelled = FALSE /\ watcher = "none" /\ group = FALSE
  /\ launcher = "none" /\ unit = "none"
  /\ faults = 0

Client  == SendHeader \/ SendPayload \/ ReadFrame \/ ClientFails
Serve   == Receive \/ Accept \/ ReceivePayload \/ Publish \/ Snapshot \/ StartWatcher \/ Reject
Author  == Launch \/ Inspect \/ InspectFails \/ Check \/ StreamEnds \/ StreamAborts
           \/ Abort \/ Reap \/ FinalKill \/ Prove \/ ProveFails \/ ProveBreaks
Wrap    == Remove \/ Deliver \/ Cleanup \/ Answer
Broker  == Serve \/ Author \/ Wrap
Watcher == PeerGone \/ WatcherKill
System  == Register \/ UnitEnds \/ LauncherEnds

Done == Ended /\ ~Connected /\ unit # "running" /\ UNCHANGED vars
Next == Client \/ Broker \/ Watcher \/ System \/ BrokerDies \/ Done

Spec == Init /\ [][Next]_vars

\* Every wait of broker and client has a deadline, threads are scheduled, and
\* a unit whose broker has ended is stopped (BindsTo).
FairSpec ==
  /\ Spec
  /\ WF_vars(Client) /\ WF_vars(Broker) /\ WF_vars(Watcher)
  /\ WF_vars(Ended /\ UnitEnds)

-----------------------------------------------------------------------------
\* Properties.

\* "Never remove a source tree while an author cgroup may still hold it"
\* (broker_main): neither a running unit nor a launcher that may still start
\* one is left without its publication, whatever fails; with one exception,
\* which the broker does not tell from a turn that is over: the control group
\* was never found, and asking systemd for the unit raised an error.
PublicationGuarded ==
  /\ launcher = "up" => published
  /\ unit = "running" => published \/ reason = "broken"

\* When the client has a result, the author is gone and its publication
\* removed, as ServiceResult(cgroup_empty=True) asserts without having looked.
ResultMeansGone == client = "done" => unit = "gone" /\ ~published /\ launcher = "gone"

\* Once the watcher is through, the broker no longer waits for an author whose
\* client has gone, unless a kill has failed.
CancelledTurnEnds == watcher = "done" /\ pc = "stream" /\ unit = "running" => faults > 0

\* Without failures the broker leaves a publication behind only after a
\* lifecycle mismatch.
PublicationReclaimed == pc = "exited" /\ published => reason = "mismatch" \/ faults > 0

\* The conversation ends on both sides, and so does the author.
ConversationEnds == <>(Ended /\ ~Connected /\ unit # "running")
=============================================================================
