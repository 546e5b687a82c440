---- MODULE JobStream ----
(***************************************************************************)
(* A background job and a browser that follows it (app/jobs.py, the stream *)
(* route of app/routers/bills.py).  Events are numbered; an extraction     *)
(* thread emits beside the event loop, everything else runs on the loop    *)
(* and is one step from one await to the next.                             *)
(***************************************************************************)
EXTENDS Integers, Sequences

CONSTANTS MaxEvents,  \* bound: events of the job
          QueueCap    \* a subscriber's queue holds this many (100 in the code)

VARIABLES status,   \* Job.status, or "lost" after a restart
          emitted,  \* number of Job.events
          watcher,  \* where the stream of the browser stands
          seen,     \* events replayed to it
          queue     \* its subscription

vars == <<status, emitted, watcher, seen, queue>>

Ended == status \in {"done", "error"}
Subscribed == watcher \in {"replay", "wait"}

Init == /\ status = "running" /\ emitted = 1
        /\ watcher = "off" /\ seen = 0 /\ queue = <<>>

\* put_nowait: an event for a full queue is dropped
Offered(n) == IF Subscribed /\ Len(queue) < QueueCap THEN Append(queue, n) ELSE queue

Emit == /\ status = "running" /\ emitted < MaxEvents
        /\ emitted' = emitted + 1 /\ queue' = Offered(emitted + 1)
        /\ UNCHANGED <<status, watcher, seen>>

\* the status is set before the last event is emitted
Ends(outcome) ==
    /\ status = "running"
    /\ status' = outcome
    /\ emitted' = emitted + 1 /\ queue' = Offered(emitted + 1)
    /\ UNCHANGED <<watcher, seen>>

\* what follows "done" in the same stretch fails: the job is an error after all
EndsTwice ==
    /\ status = "running"
    /\ status' = "error"
    /\ emitted' = emitted + 2
    /\ queue' = IF Len(Offered(emitted + 1)) < QueueCap /\ Subscribed
                THEN Append(Offered(emitted + 1), emitted + 2) ELSE Offered(emitted + 1)
    /\ UNCHANGED <<watcher, seen>>

Connect == /\ watcher = "off" /\ status # "lost"
           /\ watcher' = "replay" /\ seen' = 0
           /\ UNCHANGED <<status, emitted, queue>>

Replay == /\ watcher = "replay" /\ seen < emitted
          /\ seen' = seen + 1
          /\ UNCHANGED <<status, emitted, watcher, queue>>

\* Faulty variant: the stream goes on to wait without looking at the job.
ReplayedUnchecked ==
    /\ watcher = "replay" /\ seen = emitted
    /\ watcher' = "wait"
    /\ UNCHANGED <<status, emitted, seen, queue>>

Replayed == /\ watcher = "replay" /\ seen = emitted
            /\ watcher' = IF Ended THEN "told" ELSE "wait"
            /\ queue' = IF Ended THEN <<>> ELSE queue
            /\ UNCHANGED <<status, emitted, seen>>

\* an event may be one the replay has shown; after the end the rest is dropped
Deliver == /\ watcher = "wait" /\ queue # <<>>
           /\ watcher' = IF Ended THEN "told" ELSE "wait"
           /\ queue' = IF Ended THEN <<>> ELSE Tail(queue)
           /\ UNCHANGED <<status, emitted, seen>>

Disconnect == /\ Subscribed
              /\ watcher' = "off" /\ queue' = <<>>
              /\ UNCHANGED <<status, emitted, seen>>

\* the process restarts: JOBS is empty, the job cannot be asked for any more
Restart == /\ status' = "lost"
           /\ watcher' = "off" /\ queue' = <<>>
           /\ UNCHANGED <<emitted, seen>>

Next == \/ Emit \/ Ends("done") \/ Ends("error") \/ EndsTwice
        \/ Connect \/ Replay \/ Replayed \/ Deliver \/ Disconnect \/ Restart

Spec == Init /\ [][Next]_vars

-----------------------------------------------------------------------------
TypeOK ==
    /\ status \in {"running", "done", "error", "lost"}
    /\ watcher \in {"off", "replay", "wait", "told"}
    /\ emitted \in Nat /\ seen \in 0 .. emitted
    /\ Len(queue) <= QueueCap

(***************************************************************************)
(* No watcher is left waiting: a stream that waits for an ended job has an *)
(* event to wake it, whenever it connected and whatever its full queue     *)
(* dropped, so that the terminal marker always comes.                      *)
(***************************************************************************)
NoWatcherStranded == watcher = "wait" /\ Ended => queue # <<>>

====
