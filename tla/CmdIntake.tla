----------------------------- MODULE CmdIntake ------------------------------
(***************************************************************************)
(* Telecommand intake: bytes from the receive interrupt of the UART        *)
(* (src/src/plat/plat_isr_uart.c) through the ring (src/src/svc/svc_ring.c)*)
(* to the frame assembler and the command sequence                         *)
(* (src/src/comm/comm_cmd.c).                                              *)
(*                                                                         *)
(* The interrupt runs between any two steps of the loop: it moves what the *)
(* device holds into the ring, dropping what does not fit, and publishes   *)
(* an event that says whether the line then fell idle.  The loop takes the *)
(* events in its INTERRUPTS slot and the bytes in its TELECOMMAND slot.    *)
(*                                                                         *)
(* A byte is the position of a frame, and whether it has the value of the  *)
(* start marker; a checksum matches exactly the bytes of one frame in      *)
(* order.  What a frame asks for is left open: every check of process()    *)
(* but the one for a command in flight may refuse it.                      *)
(***************************************************************************)
EXTENDS PacketLayer, Sequences, SequencesExt

CONSTANTS
    FrameLen,    \* COMM_CMD_FRAME_BYTES, 13 in the code
    RingBytes,   \* QIRAN_UART_RX_RING_BYTES, 256 in the code
    ChunkBytes,  \* size of assemble()'s chunk, 64 in the code
    EventDepth,  \* QIRAN_IRQ_QUEUE_DEPTH, 8 in the code
    MaxFrames,   \* bound of the model: frames sent on either link
    MaxTraffic   \* bound of the model: packets, a frame counting for two

ASSUME FrameAssumption == FrameLen \in Nat \ {0, 1} /\ {MaxFrames, MaxTraffic} \subseteq Nat
ASSUME RingAssumption  ==
    RingBytes \in Nat \ {0} /\ ChunkBytes \in Nat \ {0} /\ EventDepth \in Nat \ {0}

Frame == 1 .. MaxFrames

VARIABLES
    frames,    \* frames the ground has begun to send
    position,  \* bytes of the current frame on the UART sent so far; FrameLen + 1
               \* once the line has been seen idle after them
    ring,      \* the receive ring
    events,    \* events of the UART's interrupt queue not yet taken
    turn,      \* what the loop runs next
    chunk,     \* chunk[] of assemble(), what is left of it
    again,     \* its read filled the chunk, so it reads once more
    asm,       \* s_asm[0 .. s_asm_len - 1]
    inflight,  \* s_inflight: the frame of the command, 0 when not active
    expired,   \* s_inflight.budget has expired
    \* History:
    spoilt,    \* frames of which the line or the ring lost a byte
    cut,       \* frames in s_asm when a gap abandoned it
    accepted,  \* results COMM_CMD_ACCEPTED sent, by frame
    final      \* every other result sent, by frame

uartVars == <<frames, position, ring, events, spoilt>>
asmVars  == <<turn, chunk, again, asm, cut>>
cmdVars  == <<inflight, expired, accepted, final>>
vars     == <<uartVars, asmVars, cmdVars, packetVars>>

Byte == [frame : Frame, at : 1 .. FrameLen, marker : BOOLEAN]

\* The frame on the line, if its bytes are not all sent.
OnTheLine == position < FrameLen

-----------------------------------------------------------------------------
Init ==
    /\ frames = 0 /\ position = FrameLen + 1
    /\ ring = <<>> /\ events = <<>>
    /\ turn = "interrupts"
    /\ chunk = <<>> /\ again = FALSE /\ asm = <<>>
    /\ inflight = 0 /\ expired = FALSE
    /\ spoilt = {} /\ cut = {}
    /\ PacketInit
    /\ accepted = [f \in Frame |-> 0] /\ final = [f \in Frame |-> 0]

\* plat_irq.c: an event is queued, or dropped when the queue is full.
Publish(kind) ==
    events' = IF Len(events) < EventDepth THEN Append(events, kind) ELSE events

\* One frame more, and so many packets, stay within the bounds.
RoomForFrame(packets) ==
    frames < MaxFrames /\ 2 * (frames + 1) + built + packets <= MaxTraffic

\* The ground sends the next frame.
BeginFrame ==
    /\ ~OnTheLine /\ RoomForFrame(0)
    /\ frames' = frames + 1
    /\ position' = 0
    /\ UNCHANGED <<ring, events, spoilt, asmVars, cmdVars>>

RingHasRoom == Len(ring) < RingBytes

\* The interrupt, with one byte for the ring: the device drains byte by byte.
\* Only the first byte of a frame is a marker for certain; body bytes may look
\* like one.
ReceiveByte(marker) ==
    /\ OnTheLine
    /\ position' = position + 1
    /\ position = 0 => marker
    /\ IF RingHasRoom
       THEN /\ ring' = Append(ring, [frame |-> frames, at |-> position + 1,
                                     marker |-> marker])
            /\ spoilt' = spoilt
       ELSE /\ ring' = ring
            /\ spoilt' = spoilt \cup {frames}
    /\ Publish("data")
    /\ UNCHANGED <<frames, asmVars, cmdVars>>

\* The line loses a byte.
LoseByte ==
    /\ OnTheLine
    /\ position' = position + 1
    /\ spoilt' = spoilt \cup {frames}
    /\ UNCHANGED <<frames, ring, events, asmVars, cmdVars>>

\* The interrupt when the line falls idle after a frame.
IdleGap ==
    /\ position = FrameLen
    /\ position' = FrameLen + 1
    /\ Publish("gap")
    /\ UNCHANGED <<frames, ring, spoilt, asmVars, cmdVars>>

-----------------------------------------------------------------------------
(* comm_cmd_service_interrupts(). *)

TakeEvent ==
    /\ turn = "interrupts"
    /\ events # <<>>
    /\ events' = Tail(events)
    /\ IF Head(events) = "gap"
       THEN asm' = <<>> /\ cut' = cut \cup {b.frame : b \in ToSet(asm)}
       ELSE UNCHANGED <<asm, cut>>
    /\ UNCHANGED <<frames, position, ring, spoilt, turn, chunk, again, cmdVars>>

EventsTaken ==
    /\ turn = "interrupts"
    /\ events = <<>>
    /\ turn' = "comms"
    /\ UNCHANGED <<uartVars, chunk, again, asm, cut, cmdVars>>

-----------------------------------------------------------------------------
(* The command sequence. *)

AddTo(results, f) == [results EXCEPT ![f] = @ + 1]

\* Seeded fault: the budget is never looked at.
NeverTimedOut == FALSE

TimedOut == expired

\* track(): the handler of the command in flight is called again.
Track ==
    /\ turn = "track"
    /\ \/ inflight = 0 /\ UNCHANGED cmdVars
       \/ /\ inflight # 0
          /\ final' = AddTo(final, inflight)     \* completed or failed
          /\ inflight' = 0
          /\ UNCHANGED <<accepted, expired>>
       \/ /\ inflight # 0 /\ TimedOut            \* still busy: it times out
          /\ final' = AddTo(final, inflight)
          /\ inflight' = 0
          /\ UNCHANGED <<accepted, expired>>
       \/ inflight # 0 /\ ~TimedOut /\ UNCHANGED cmdVars
    /\ turn' = "read"
    /\ UNCHANGED <<uartVars, chunk, again, asm, cut>>

\* Seeded fault: a command may be dispatched over the one in flight.
DispatchesAnyway == TRUE

Dispatches == inflight = 0

\* process(): refused, by the command in flight or by any other check ...
Refuse(f) ==
    /\ final' = AddTo(final, f)
    /\ UNCHANGED <<accepted, inflight, expired>>

\* ... or dispatched: completed or failed at once, or left running.
Dispatch(f) ==
    /\ Dispatches
    /\ \/ /\ final' = AddTo(final, f)
          /\ UNCHANGED <<accepted, inflight, expired>>
       \/ /\ accepted' = AddTo(accepted, f)
          /\ inflight' = f /\ expired' = FALSE
          /\ UNCHANGED final

Process(f) == Refuse(f) \/ Dispatch(f)

\* comm_cmd_submit(): a command inside a space packet, in the COMMS slot.
SubmitFromPacket ==
    /\ ReceiveNext \/ \E count \in Count : ReceiveTampered(count)
    /\ ~OnTheLine /\ RoomForFrame(1)
    /\ frames' = frames + 1
    /\ Process(frames + 1)
    /\ turn' = "track"

\* comm_ccsds_receive() refuses the packet, or comm_cmd_submit() what is in it.
RefusePacket ==
    /\ PacketNext
    /\ UNCHANGED <<frames, cmdVars>>
    /\ turn' \in {"comms", "track"}

\* deliver_received(): one packet, and the next in the same slot only after one that
\* filled the buffer, which no command does.
ReceivePacket ==
    /\ turn = "comms"
    /\ 2 * frames + built < MaxTraffic
    /\ SubmitFromPacket \/ RefusePacket
    /\ UNCHANGED <<position, ring, events, spoilt, chunk, again, asm, cut>>

CommsDone ==
    /\ turn = "comms"
    /\ turn' = "track"
    /\ UNCHANGED <<uartVars, chunk, again, asm, cut, cmdVars>>

\* Time passes the budget of the command in flight.
BudgetElapses ==
    /\ inflight # 0 /\ ~expired
    /\ expired' = TRUE
    /\ UNCHANGED <<uartVars, asmVars, inflight, accepted, final, packetVars>>

-----------------------------------------------------------------------------
(* assemble(). *)

\* plat_isr_uart_read(): byte by byte, until the chunk is full or the ring empty.
ReadByte ==
    /\ turn = "read"
    /\ ring # <<>> /\ Len(chunk) < ChunkBytes
    /\ chunk' = Append(chunk, Head(ring))
    /\ ring' = Tail(ring)
    /\ UNCHANGED <<frames, position, events, spoilt, turn, again, asm, cut, cmdVars>>

ReadDone ==
    /\ turn = "read"
    /\ ring = <<>> \/ Len(chunk) = ChunkBytes
    /\ again' = (Len(chunk) = ChunkBytes)
    /\ turn' = "bytes"
    /\ UNCHANGED <<uartVars, chunk, asm, cut, cmdVars>>

\* The checksum holds: FrameLen bytes of one frame in their order.
ChecksumHolds(bytes) ==
    \A i \in 1 .. FrameLen :
        bytes[i].frame = bytes[1].frame /\ bytes[i].at = i

\* Seeded fault: the buffer is emptied.
ResyncEmpties(bytes) == <<>>

Markers(bytes) == {i \in 2 .. Len(bytes) : bytes[i].marker}

\* resync(): the leading byte goes, and all up to the next start marker.
Resync(bytes) ==
    IF Markers(bytes) = {} THEN <<>>
    ELSE SubSeq(bytes, Min(Markers(bytes)), Len(bytes))

\* One byte of the chunk.
AssembleByte ==
    /\ turn = "bytes"
    /\ chunk # <<>>
    /\ chunk' = Tail(chunk)
    /\ LET bytes == Append(asm, Head(chunk)) IN
       IF asm = <<>> /\ ~Head(chunk).marker
       THEN UNCHANGED <<asm, cmdVars>>                \* not a frame start
       ELSE IF Len(bytes) < FrameLen
       THEN asm' = bytes /\ UNCHANGED cmdVars
       ELSE IF ChecksumHolds(bytes)
       THEN asm' = <<>> /\ Process(bytes[1].frame)
       ELSE asm' = Resync(bytes) /\ UNCHANGED cmdVars
    /\ UNCHANGED <<uartVars, turn, again, cut>>

AssembleDone ==
    /\ turn = "bytes"
    /\ chunk = <<>>
    /\ turn' = IF again THEN "read" ELSE "interrupts"
    /\ UNCHANGED <<uartVars, chunk, again, asm, cut, cmdVars>>

-----------------------------------------------------------------------------
Line == BeginFrame \/ (\E marker \in BOOLEAN : ReceiveByte(marker)) \/ LoseByte \/ IdleGap

Bytes ==
    \/ TakeEvent \/ EventsTaken \/ CommsDone \/ Track
    \/ ReadByte \/ ReadDone \/ AssembleByte \/ AssembleDone

Loop == ReceivePacket \/ (Bytes /\ UNCHANGED packetVars)

Next == Loop \/ BudgetElapses \/ (Line /\ UNCHANGED packetVars)

\* The loop runs and the clock does; the ground and the line owe nothing.
Spec == Init /\ [][Next]_vars /\ WF_vars(Loop) /\ WF_vars(BudgetElapses)

-----------------------------------------------------------------------------
TypeOK ==
    /\ frames \in 0 .. MaxFrames /\ position \in 0 .. FrameLen + 1
    /\ {ring, chunk, asm} \subseteq Seq(Byte)
    /\ Len(ring) <= RingBytes /\ Len(chunk) <= ChunkBytes
    /\ events \in Seq({"data", "gap"}) /\ Len(events) <= EventDepth
    /\ turn \in {"interrupts", "comms", "track", "read", "bytes"}
    /\ again \in BOOLEAN /\ expired \in BOOLEAN
    /\ inflight \in 0 .. frames
    /\ spoilt \subseteq Frame /\ cut \subseteq Frame
    /\ {accepted, final} \subseteq [Frame -> Nat]

\* A result always refers to an unambiguous command: a command gets one final
\* result and never a second, one acceptance at most, and a command that was
\* accepted and has no final result yet is the one in flight.
OneResultEach ==
    \A f \in Frame :
        /\ final[f] <= 1 /\ accepted[f] <= 1
        /\ (accepted[f] = 1 /\ final[f] = 0) <=> inflight = f

\* FW-38: no corruption desynchronises the stream: the first byte of a frame
\* that arrived intact is never dropped, whatever wreckage it follows, until the
\* frame has its result, unless an idle gap abandoned it.
Underway(f) ==
    \E bytes \in {ring, chunk, asm} : \E i \in 1 .. Len(bytes) :
        bytes[i].frame = f /\ bytes[i].at = 1
Answered(f) == accepted[f] + final[f] > 0
Begun(f)    == f < frames \/ (f = frames /\ position > 0)
IntactKept ==
    \A f \in Frame :
        Begun(f) => Answered(f) \/ f \in spoilt \/ f \in cut \/ Underway(f)

\* comm_cmd.h: an idle gap marks a frame boundary, so what it abandons is a
\* partly received frame, never one that arrived whole.
GapAbandonsPartsOnly ==
    \A f \in cut : f \in spoilt \/ (f = frames /\ OnTheLine) \/ Answered(f)

Service == INSTANCE CommandService WITH Command <- Frame

\* What both links together promise: each command is answered once, or accepted
\* while no other runs and then finished, in that order; and a command left running
\* does finish, by itself or by its budget, whatever else arrives.
ImplementsCommandService == Service!Spec
=============================================================================
