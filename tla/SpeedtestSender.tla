-------------------------- MODULE SpeedtestSender --------------------------
(***************************************************************************)
(* The send loop of src/examples/streamed_sockets/speedtest/sender.cc.     *)
(*                                                                         *)
(* The sender connects, writes its buffer over and over, and after every   *)
(* write keeps a sliding window of { time, total bytes } samples from      *)
(* which it prints the throughput.  A connect failure or an exception out  *)
(* of a write is caught and the outer loop connects again.                 *)
(*                                                                         *)
(* Time is counted in clock ticks.  `now` is the wall clock; every call of *)
(* current::time::Now() returns a later tick than the one before it.       *)
(* Bytes are counted in units of the model; the buffer is `BufferSize` of *)
(* them and size_t arithmetic is taken modulo `SizeModulus`.               *)
(***************************************************************************)
EXTENDS Integers, Sequences

CONSTANTS
    BufferSize,       \* data.size()
    WindowSizeBytes,  \* window_size_bytes
    WindowSize,       \* t_window_size
    OutputFrequency,  \* t_output_frequency
    MaxNoSends,       \* FLAGS_max_seconds_of_no_sends, in ticks
    MaxWriteTime,     \* the longest one BlockingWrite of the buffer takes
    MaxTime,          \* bound on the clock
    SizeModulus       \* the range of size_t

ASSUME SenderAssumption ==
    /\ {BufferSize, WindowSizeBytes, WindowSize, OutputFrequency,
        MaxNoSends, MaxWriteTime, MaxTime, SizeModulus} \subseteq Nat \ {0}
    /\ MaxTime * BufferSize < SizeModulus

VARIABLES
    now,                        \* the wall clock
    connected,                  \* inside the inner loop, on a live Connection
    total_bytes_sent,
    history,                    \* the deque of samples
    t_next_output,
    t_last_successful_receive,
    shown                       \* ghost: <<front, back>> of the last printed window

vars == <<now, connected, total_bytes_sent, history, t_next_output,
          t_last_successful_receive, shown>>

Sample == [t : Nat, bytes : Nat]

TypeOK ==
    /\ now \in 0 .. MaxTime
    /\ connected \in BOOLEAN
    /\ total_bytes_sent \in 0 .. SizeModulus - 1
    /\ history \in Seq(Sample)
    /\ t_next_output \in Nat
    /\ t_last_successful_receive \in Nat
    /\ shown \in {<<>>} \cup (Sample \X Sample)

-----------------------------------------------------------------------------
(* Mutation: the subtraction without its guard, wrapping in size_t.        *)
SizeCutoffWraps(total) ==
    (total - WindowSizeBytes) % SizeModulus

(* size_cutoff: the byte count below which a sample is out of the window.  *)
(* The comparison keeps the size_t subtraction from wrapping.              *)
SizeCutoff(total) ==
    IF total > WindowSizeBytes THEN total - WindowSizeBytes ELSE 0

(* Mutation: the loop pops while more than one sample is left.            *)
TrimToOne(h, t_cutoff, size_cutoff) ==
    LET Stops(k) == \/ Len(h) - k <= 1
                    \/ ~(h[k + 1].t <= t_cutoff \/ h[k + 1].bytes <= size_cutoff)
        k == CHOOSE k \in 0 .. Len(h) :
                 Stops(k) /\ \A j \in 0 .. k - 1 : ~Stops(j)
    IN  SubSeq(h, k + 1, Len(h))

(* The pop_front loop: drop the oldest sample while more than two are left *)
(* and it is older than t_cutoff or at or below size_cutoff.  The result   *)
(* keeps the samples after the first k, k the first place the loop stops. *)
Trim(h, t_cutoff, size_cutoff) ==
    LET Stops(k) == \/ Len(h) - k <= 2
                    \/ ~(h[k + 1].t <= t_cutoff \/ h[k + 1].bytes <= size_cutoff)
        k == CHOOSE k \in 0 .. Len(h) :
                 Stops(k) /\ \A j \in 0 .. k - 1 : ~Stops(j)
    IN  SubSeq(h, k + 1, Len(h))

-----------------------------------------------------------------------------
(* Mutation: the history outlives the connection (declared outside the    *)
(* outer loop), so its samples count bytes of the last connection.        *)
ConnectKeepsHistory ==
    /\ ~connected
    /\ now + 2 <= MaxTime
    /\ connected' = TRUE
    /\ total_bytes_sent' = 0
    /\ t_next_output' = now + 1 + OutputFrequency
    /\ t_last_successful_receive' = now + 2
    /\ now' = now + 2
    /\ UNCHANGED <<history, shown>>

(* Connection connection(ClientSocket(...)) succeeds: fresh counters and    *)
(* history, then two reads of Now() for t_next_output and                   *)
(* t_last_successful_receive.                                               *)
Connect ==
    /\ ~connected
    /\ now + 2 <= MaxTime
    /\ connected' = TRUE
    /\ total_bytes_sent' = 0
    /\ history' = <<>>
    /\ t_next_output' = now + 1 + OutputFrequency
    /\ t_last_successful_receive' = now + 2
    /\ now' = now + 2
    /\ UNCHANGED shown

(* The connect throws SocketConnectException; the catch prints and the     *)
(* outer loop tries again at once.                                         *)
ConnectFails ==
    /\ ~connected
    /\ UNCHANGED vars

(* One pass of the inner loop when BlockingWrite returns after d ticks:  *)
(* the counters and history are updated, and when the output time has    *)
(* come the window is trimmed and printed and t_next_output is moved on.  *)
WriteTakes(d) ==
    LET t_now == now + d
        total == (total_bytes_sent + BufferSize) % SizeModulus
        grown == Append(history, [t |-> t_now, bytes |-> total])
        trimmed == Trim(grown, t_now - WindowSize, SizeCutoff(total))
        output == t_now >= t_next_output
        report == output /\ Len(grown) >= 2
    IN  /\ connected
        /\ t_now <= MaxTime
        /\ now' = t_now
        /\ total_bytes_sent' = total
        /\ t_last_successful_receive' = t_now
        /\ history' = IF report THEN trimmed ELSE grown
        /\ shown' = IF report
                      THEN <<Head(trimmed), trimmed[Len(trimmed)]>>
                      ELSE shown
        /\ t_next_output' = IF output THEN t_now + OutputFrequency
                                      ELSE t_next_output
        /\ UNCHANGED connected

(* BlockingWrite of the whole buffer returns, after 1 to MaxWriteTime ticks. *)
Write == \E d \in 1 .. MaxWriteTime : WriteTakes(d)

(* BlockingWrite has not returned: the peer does not read, time passes.    *)
Stall ==
    /\ connected
    /\ now < MaxTime
    /\ now' = now + 1
    /\ UNCHANGED <<connected, total_bytes_sent, history, t_next_output,
                   t_last_successful_receive, shown>>

(* BlockingWrite throws; the catch of current::Exception prints and the    *)
(* outer loop reconnects.  The Connection and the locals are destroyed.    *)
WriteFails ==
    /\ connected
    /\ connected' = FALSE
    /\ UNCHANGED <<now, total_bytes_sent, history, t_next_output,
                   t_last_successful_receive, shown>>

Init ==
    /\ now = 0
    /\ connected = FALSE
    /\ total_bytes_sent = 0
    /\ history = <<>>
    /\ t_next_output = 0
    /\ t_last_successful_receive = 0
    /\ shown = <<>>

Next == Connect \/ ConnectFails \/ Write \/ Stall \/ WriteFails

Spec == Init /\ [][Next]_vars

-----------------------------------------------------------------------------
(* The throughput line divides the bytes between the front and the back of *)
(* the window by the time between them (sender.cc 68-69).  Every window    *)
(* printed spans a positive time and a positive byte count: the trim loop  *)
(* leaves two samples of one connection, taken at different Now() reads.  *)
ReportWellFormed ==
    shown # <<>> =>
        /\ shown[2].t > shown[1].t
        /\ shown[2].bytes > shown[1].bytes

(* The samples a write drops from the front of the history (none when it  *)
(* does not report).                                                       *)
Dropped ==
    LET grown == Append(history, [t |-> now', bytes |-> total_bytes_sent'])
    IN  SubSeq(grown, 1, Len(grown) - Len(history'))

(* A write drops only samples that are out of the window by the flags'    *)
(* own measure, in true integers: taken at or before t_now - window, or at *)
(* or below total - window bytes.  A size_t subtraction that wraps when    *)
(* fewer bytes than the window were sent would drop samples in the window. *)
TrimKeepsWindow ==
    [][connected /\ t_last_successful_receive' # t_last_successful_receive =>
         \A i \in 1 .. Len(Dropped) :
             \/ Dropped[i].t <= now' - WindowSize
             \/ Dropped[i].bytes <= total_bytes_sent' - WindowSizeBytes]_vars

(* The flag max_seconds_of_no_sends says "Terminate the connection if      *)
(* can't send anything for this long": while connected, the last           *)
(* successful send is never further back than that.                        *)
NoSendTimeout ==
    connected => now - t_last_successful_receive <= MaxNoSends

=============================================================================
