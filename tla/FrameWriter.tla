----------------------------- MODULE FrameWriter -----------------------------
(***************************************************************************)
(* TokioStreamWriter and TokioFrameWriter                                  *)
(* (infrastructure/adapters/tokio_writer.rs).  Both take &mut self: one    *)
(* call is under way at a time.  The caller may drop the future of a call  *)
(* at an await, which abandons the call there.                             *)
(*                                                                         *)
(* Frames are numbered as they are handed in.  A write that fails, times   *)
(* out or is abandoned may have written part of its bytes, and a batch     *)
(* some of its frames whole.  Byte counts and latencies are left out, and  *)
(* the semaphore: a call takes one permit of buffer_size, gives it back    *)
(* and never competes for it.                                              *)
(***************************************************************************)
EXTENDS Naturals, Sequences, FiniteSetsExt, SequencesExt

CONSTANTS
  BackpressureStrategy, \* of "Block", "DropLowPriority", "DropOldest", "Error"
  Priorities,
  BufferSizes,          \* WriterConfig::buffer_size
  MaxFrames             \* bound: frames handed in

VARIABLES
  strategy,   \* backpressure_strategy
  threshold,  \* backpressure_threshold
  closed,
  handed,     \* the frames handed in: their priority, the first of their call,
              \* and whether the call writes by priority
  call,       \* the call under way
  queue,      \* priority_queue, a set of frames
  wire,       \* what has been written: <<frame, whole>>
  metrics,
  failed,     \* history: frames whose call was answered with an error or abandoned
  dropped     \* history: frames dropped by backpressure

vars == << strategy, threshold, closed, handed, call, queue, wire, metrics, failed, dropped >>

NoCall == [kind |-> "none", todo |-> << >>]
Frame  == DOMAIN handed
Priority(f) == handed[f].priority

Init ==
  /\ strategy \in BackpressureStrategy
  /\ threshold \in {size \div 2 : size \in BufferSizes}
  /\ closed = FALSE
  /\ handed = << >>
  /\ call = NoCall
  /\ queue = {}
  /\ wire = << >>
  /\ metrics = [written |-> 0, dropped |-> 0, errors |-> 0]
  /\ failed = {}
  /\ dropped = {}

Config == UNCHANGED << strategy, threshold >>

\* The orders sort_by may leave the frames in.  It is stable: more important
\* frames first, then as they were given, so there is one.
ByPriority(frames) ==
  {order \in [DOMAIN frames -> ToSet(frames)] :
     /\ ToSet(order) = ToSet(frames)
     /\ \A i, j \in DOMAIN order :
          i < j => \/ Priority(order[i])' > Priority(order[j])'
                   \/ Priority(order[i])' = Priority(order[j])' /\ order[i] < order[j]}

\* write_frames_by_priority, of which write_prioritized_frame is the case of
\* one frame ("queued"); write_frame ("single") and write_frames ("batch")
\* go past the queue.
Call(kind, priorities) ==
  /\ call = NoCall
  /\ Len(handed) + Len(priorities) <= MaxFrames
  /\ LET first == Len(handed) + 1
         frames == [i \in DOMAIN priorities |-> Len(handed) + i]
     IN  /\ handed' = handed \o [i \in DOMAIN priorities |->
                                   [priority |-> priorities[i], call |-> first,
                                    sorted |-> kind = "queued"]]
         /\ \E order \in IF kind = "queued" THEN ByPriority(frames) ELSE {frames} :
              call' = [kind |-> kind, todo |-> order]
  /\ Config /\ UNCHANGED << closed, queue, wire, metrics, failed, dropped >>

Calling(kind) == call.kind = kind

\* The error goes to the caller.  Frames not yet written are not written, but
\* what is in the queue stays there and a later call writes it.
EndWithError ==
  /\ failed' = failed \cup ToSet(call.todo) \cup queue
  /\ call' = NoCall

-----------------------------------------------------------------------------
(* The queue *)

\* handle_backpressure and the push.  Block and DropOldest do nothing.
Full == Cardinality(queue) >= threshold
DropsLow(f) == Full /\ strategy = "DropLowPriority" /\ Priority(f) < 50

Enqueue ==
  /\ Calling("queued") /\ call.todo # << >>
  /\ LET f == Head(call.todo)
     IN  \/ /\ Full /\ strategy = "Error"
            /\ EndWithError
            /\ UNCHANGED << queue, metrics, dropped >>
         \/ /\ DropsLow(f)
            /\ dropped' = dropped \cup {f}
            /\ metrics' = [metrics EXCEPT !.dropped = @ + 1]
            /\ call' = [call EXCEPT !.todo = Tail(@)]
            /\ UNCHANGED << queue, failed >>
         \/ /\ ~(Full /\ strategy = "Error") /\ ~DropsLow(f)
            /\ queue' = queue \cup {f}
            /\ call' = [kind |-> "draining", todo |-> Tail(call.todo)]
            /\ UNCHANGED << metrics, failed, dropped >>
  /\ Config /\ UNCHANGED << closed, handed, wire >>

\* The queue is keyed by Reverse(priority): the least important frame is
\* popped first, ties as the heap has them.
Popped(f) == f \in queue /\ \A g \in queue : Priority(f) <= Priority(g)

\* write_frame, of a frame that was popped
Written(f) ==
  /\ ~closed
  /\ wire' = Append(wire, << f, TRUE >>)
  /\ metrics' = [metrics EXCEPT !.written = @ + 1]

NotWritten(f) ==
  \/ closed /\ UNCHANGED << wire, metrics >>
  \/ /\ ~closed
     /\ wire' \in {wire, Append(wire, << f, FALSE >>)}
     /\ metrics' = [metrics EXCEPT !.errors = @ + 1]

\* Mutant: one frame is popped, not all.
ProcessOne ==
  /\ Calling("draining") /\ queue # {}
  /\ \E f \in queue :
       /\ Popped(f)
       /\ queue' = queue \ {f}
       /\ \/ Written(f) /\ call' = [call EXCEPT !.kind = "queued"] /\ UNCHANGED failed
          \/ NotWritten(f) /\ EndWithError
  /\ Config /\ UNCHANGED << closed, handed, dropped >>

\* process_priority_queue: the queue is emptied, or a write fails.
Process ==
  /\ Calling("draining") /\ queue # {}
  /\ \E f \in queue :
       /\ Popped(f)
       /\ queue' = queue \ {f}
       /\ \/ /\ Written(f)
             /\ call' = [call EXCEPT !.kind = IF queue' = {} THEN "queued" ELSE "draining"]
             /\ UNCHANGED failed
          \/ NotWritten(f) /\ EndWithError
  /\ Config /\ UNCHANGED << closed, handed, dropped >>

Answer ==
  /\ Calling("queued") /\ call.todo = << >>
  /\ call' = NoCall
  /\ Config /\ UNCHANGED << closed, handed, queue, wire, metrics, failed, dropped >>

-----------------------------------------------------------------------------
(* Past the queue *)

WriteFrame ==
  /\ Calling("single")
  /\ LET f == Head(call.todo)
     IN  \/ Written(f) /\ call' = NoCall /\ UNCHANGED failed
         \/ NotWritten(f) /\ failed' = failed \cup {f} /\ call' = NoCall
  /\ Config /\ UNCHANGED << closed, handed, queue, dropped >>

\* One write for all of them, which counts as one frame; whether the writer
\* is closed is not asked.
WriteFrames ==
  /\ Calling("batch")
  /\ \/ /\ wire' = wire \o [i \in DOMAIN call.todo |-> << call.todo[i], TRUE >>]
        /\ metrics' = [metrics EXCEPT !.written = @ + 1]
        /\ call' = NoCall
        /\ UNCHANGED failed
     \/ /\ \E n \in 0 .. Len(call.todo) - 1, torn \in BOOLEAN :
             wire' = wire \o [i \in 1 .. n |-> << call.todo[i], TRUE >>]
                          \o IF torn THEN << << call.todo[n + 1], FALSE >> >> ELSE << >>
        /\ metrics' = [metrics EXCEPT !.errors = @ + 1]
        /\ failed' = failed \cup ToSet(call.todo)
        /\ call' = NoCall
  /\ Config /\ UNCHANGED << closed, handed, queue, dropped >>

-----------------------------------------------------------------------------
(* Abandoning, closing *)

\* The future of a call on the queue is dropped: before a frame is popped, or
\* while it is written.  Nothing is counted.
Abandon ==
  /\ Calling("draining")
  /\ \/ UNCHANGED << queue, wire >> /\ EndWithError
     \/ \E f \in queue :
          /\ Popped(f) /\ ~closed
          /\ queue' = queue \ {f}
          /\ wire' \in {wire, Append(wire, << f, FALSE >>)}
          /\ EndWithError
  /\ Config /\ UNCHANGED << closed, handed, metrics, dropped >>

Close ==
  /\ call = NoCall /\ ~closed
  /\ closed' = TRUE
  /\ UNCHANGED << strategy, threshold, handed, call, queue, wire, metrics, failed, dropped >>

SetBackpressureThreshold(n) ==
  /\ call = NoCall
  /\ threshold' = n
  /\ UNCHANGED << strategy, closed, handed, call, queue, wire, metrics, failed, dropped >>

Next ==
  \/ \E p \in Priorities : Call("single", << p >>) \/ Call("queued", << p >>)
  \/ \E p, q \in Priorities : Call("batch", << p, q >>) \/ Call("queued", << p, q >>)
  \/ Enqueue \/ Process \/ Answer \/ WriteFrame \/ WriteFrames \/ Abandon \/ Close
  \/ \E size \in BufferSizes : SetBackpressureThreshold(size \div 2)

Spec == Init /\ [][Next]_vars
-----------------------------------------------------------------------------
(* Properties *)

TypeOK ==
  /\ threshold \in {size \div 2 : size \in BufferSizes}
  /\ Len(handed) <= MaxFrames
  /\ queue \subseteq Frame /\ failed \subseteq Frame /\ dropped \subseteq Frame
  /\ metrics.dropped = Cardinality(dropped)
  /\ metrics.written <= Len(wire)

Whole == {f \in Frame : \E i \in DOMAIN wire : wire[i] = << f, TRUE >>}

\* A call answered with Ok has dropped or written each of its frames, in spite
\* of calls before it that failed half way or were abandoned and left frames
\* behind; no frame is written twice, in whole or in part; and part of one is
\* on the wire only if its caller was not told Ok.
EveryFrameIsAccountedFor ==
  /\ \A f \in Frame :
       \/ f \in failed \cup dropped \cup Whole
       \/ f \in ToSet(call.todo) \cup queue
  /\ call = NoCall => queue \subseteq failed
  /\ \A i, j \in DOMAIN wire : wire[i][1] = wire[j][1] => i = j
  /\ \A i \in DOMAIN wire : ~wire[i][2] => wire[i][1] \in failed

\* The frames of one call by priority are written more important first,
\* although the queue itself hands out the least important first.
ImportantFirst ==
  \A i, j \in DOMAIN wire :
    LET f == wire[i][1]
        g == wire[j][1]
    IN  /\ i < j
        /\ handed[f].call = handed[g].call
        /\ f \notin failed /\ g \notin failed
        => IF handed[f].sorted THEN Priority(f) >= Priority(g) ELSE f < g

NothingIsLostUnnoticed == EveryFrameIsAccountedFor /\ ImportantFirst
=============================================================================
