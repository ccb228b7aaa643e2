-------------------------- MODULE ConnectionSource --------------------------
(***************************************************************************)
(* ConnectionSource (pane-app, connection_source.rs): one connection of a  *)
(* looper as an event source, read and written on the looper thread.  The  *)
(* handler writes into the shared FrameWriter; other threads send into a   *)
(* bounded channel that the source drains.                                 *)
(*                                                                         *)
(* One step is one system call or one channel operation of the looper      *)
(* thread; a read or a write moves the bytes that are there and fit.       *)
(* The looper calls the event loop twice, once blocking, then dispatches   *)
(* the batch (looper.rs); a poll reports the readiness of the moment, and  *)
(* a synthetic event of before_sleep comes before it (calloop).  The other *)
(* sources of the loop are WakeOther.  The peer reads and writes whole     *)
(* frames with the blocking FrameCodec and may close at any time.          *)
(* Ghosts: given and enqueued (all frames given to the writer, and their   *)
(* bytes), taken and received (what the peer has read of them), wrote and  *)
(* peer_sent (the frames of the peer, and the bytes it has written),       *)
(* delivered.                                                              *)
(***************************************************************************)
EXTENDS FrameCodec, FiniteSets

CONSTANTS
    ChannelCapacity,  \* WRITE_CHANNEL_CAPACITY
    Highwater,        \* WRITE_HIGHWATER_BYTES
    SocketBytes,      \* bytes a socket buffer holds
    OutLengths,       \* bound: lengths of the frames the pane sends
    PeerFrames,       \* bound: <<kind, length>> of the frames the peer sends
    MaxFrames         \* bound: frames the pane and the peer send

ASSUME ConnectionAssumption ==
    /\ ChannelCapacity \in Nat \ {0} /\ Highwater \in Nat \ {0}
    /\ SocketBytes \in Nat \ {0}
    /\ OutLengths \subseteq ServiceBytes..MaxMessage
    /\ PeerFrames \subseteq FrameKinds \X Nat
    /\ MaxFrames \in Nat

VARIABLES
    channel,             \* write_rx
    writer, reader,      \* FrameWriter, FrameReader
    write_interest,
    token,               \* registered_token is Some
    source,              \* active, or removed from the loop
    pc, round,           \* where the looper thread is; which dispatch call
    events, ready,       \* readiness to process; readiness in process
    outgoing, incoming,  \* the two socket buffers
    peer_open, peer_out, \* the peer: its end, bytes of the frame it writes
    peer_reader,
    given, enqueued, taken, received,  \* ghosts
    wrote, peer_sent, delivered,       \* ghosts
    outs, ins            \* bounds

looper == <<pc, round, events, ready>>
peer == <<peer_open, peer_out, peer_reader, wrote, ins>>
outward == <<channel, writer, outs, given, enqueued, outgoing>>
inward == <<reader, incoming, delivered>>
ghosts == <<taken, received, peer_sent>>
vars == <<looper, peer, outward, inward, ghosts, write_interest, token,
          source>>

NoReadiness == [readable |-> FALSE, writable |-> FALSE]
Readiness == [readable : BOOLEAN, writable : BOOLEAN]

Init ==
    /\ channel = <<>> /\ writer = NewWriter /\ reader = NewReader
    /\ write_interest = FALSE /\ token = FALSE /\ source = "active"
    /\ pc = "before_sleep" /\ round = 1
    /\ events = <<>> /\ ready = NoReadiness
    /\ outgoing = <<>> /\ incoming = <<>>
    /\ peer_open = TRUE /\ peer_out = <<>> /\ peer_reader = NewReader
    /\ given = <<>> /\ enqueued = <<>> /\ taken = <<>> /\ received = <<>>
    /\ wrote = <<>> /\ peer_sent = <<>> /\ delivered = <<>>
    /\ outs = 0 /\ ins = 0

(* The bytes that one call on a stream socket moves. *)
Least(m, n) == IF m < n THEN m ELSE n

-----------------------------------------------------------------------------
(* SharedWriter::enqueue of the next frame of the channel or of a handler. *)
Put(f) ==
    /\ writer' = Enqueue(writer, f)
    /\ given' = Append(given, f)
    /\ enqueued' = enqueued \o Encode(f)

OutFrame(via, n) ==
    [id |-> outs + 1, via |-> via, kind |-> "Service", len |-> n]

(* A thread other than the looper's sends into the channel: try_send fails *)
(* when it is full, and when the source and its receiver are gone.         *)
ChannelSend ==
    /\ source = "active" /\ Len(channel) < ChannelCapacity
    /\ outs + ins < MaxFrames
    /\ \E n \in OutLengths : channel' = Append(channel, OutFrame("channel", n))
    /\ outs' = outs + 1
    /\ UNCHANGED <<looper, peer, inward, ghosts, write_interest, token, source,
                   writer, given, enqueued, outgoing>>

(* A handler, called for the batch, writes directly; nothing tells it that *)
(* the source was removed.                                                 *)
HandlerSend ==
    /\ pc = "batch" /\ outs + ins < MaxFrames
    /\ \E n \in OutLengths : Put(OutFrame("direct", n))
    /\ outs' = outs + 1
    /\ UNCHANGED <<looper, peer, inward, ghosts, write_interest, token, source,
                   channel, outgoing>>

BatchDone ==
    /\ pc = "batch"
    /\ pc' = "before_sleep" /\ round' = 1
    /\ UNCHANGED <<events, ready, peer, outward, inward, ghosts,
                   write_interest, token, source>>

-----------------------------------------------------------------------------
(* What a poll reports, for the interest that is registered. *)
Polled ==
    [readable |-> incoming # <<>> \/ ~peer_open,
     writable |-> /\ write_interest
                  /\ Len(outgoing) < SocketBytes \/ ~peer_open]
PolledEvents == IF source = "active" /\ Polled # NoReadiness
                THEN <<Polled>> ELSE <<>>

(* before_sleep asks for a writable event, which makes the poll return at  *)
(* once, when the writer has bytes and the token is known.                 *)
(* Mutant: only for a frame it has just taken from the channel.            *)
MutDirectOverlooked(w) == pending_bytes(w) > 0 /\ token /\ w # writer
Synthetic(w) == pending_bytes(w) > 0 /\ token
WritableEvent == [readable |-> FALSE, writable |-> TRUE]

Sleep(w) ==
    /\ events' = IF Synthetic(w) THEN <<WritableEvent>> \o PolledEvents
                 ELSE IF round = 2 THEN PolledEvents ELSE <<>>
    /\ pc' = IF Synthetic(w) \/ round = 2 THEN "events" ELSE "asleep"
    /\ UNCHANGED <<round, ready>>

(* Mutant: before_sleep does not look into the channel. *)
MutChannelOverlooked ==
    /\ pc = "before_sleep" /\ source = "active"
    /\ pending_bytes(writer) = 0 /\ channel # <<>>
    /\ Sleep(writer)
    /\ UNCHANGED <<peer, outward, inward, ghosts, write_interest, token,
                   source>>
(* before_sleep with an empty write buffer takes one frame of the channel. *)
BeforeSleepTakes ==
    /\ pc = "before_sleep" /\ source = "active"
    /\ pending_bytes(writer) = 0 /\ channel # <<>>
    /\ Put(Head(channel)) /\ channel' = Tail(channel)
    /\ Sleep(writer')
    /\ UNCHANGED <<peer, inward, ghosts, write_interest, token, source, outs,
                   outgoing>>

BeforeSleep ==
    /\ pc = "before_sleep" /\ source = "active"
    /\ pending_bytes(writer) > 0 \/ channel = <<>>
    /\ Sleep(writer)
    /\ UNCHANGED <<peer, outward, inward, ghosts, write_interest, token,
                   source>>

(* The loop without the source. *)
PollOthers ==
    /\ pc = "before_sleep" /\ source = "removed"
    /\ pc' = IF round = 2 THEN "events" ELSE "asleep"
    /\ UNCHANGED <<round, events, ready, peer, outward, inward, ghosts,
                   write_interest, token, source>>

Wake ==
    /\ pc = "asleep" /\ PolledEvents # <<>>
    /\ events' = PolledEvents /\ pc' = "events"
    /\ UNCHANGED <<round, ready, peer, outward, inward, ghosts,
                   write_interest, token, source>>

(* Another source of the loop is ready: a channel, a timer. *)
WakeOther ==
    /\ pc = "asleep"
    /\ events' = PolledEvents /\ pc' = "events"
    /\ UNCHANGED <<round, ready, peer, outward, inward, ghosts,
                   write_interest, token, source>>

(* The dispatch call returns: after the first comes a second that does not *)
(* block, then the batch.  Events of a removed source are skipped.         *)
DispatchReturns ==
    /\ pc = "events" /\ (events = <<>> \/ source = "removed")
    /\ events' = <<>>
    /\ pc' = IF round = 1 THEN "before_sleep" ELSE "batch"
    /\ round' = 2
    /\ UNCHANGED <<ready, peer, outward, inward, ghosts, write_interest, token,
                   source>>

-----------------------------------------------------------------------------
(* process_events, from its first line to the end of drain_write_channel.  *)
ProcessEvents ==
    /\ pc = "events" /\ events # <<>> /\ source = "active"
    /\ ready' = Head(events) /\ events' = Tail(events)
    /\ token' = TRUE
    /\ pc' = "drain"
    /\ UNCHANGED <<round, peer, outward, inward, ghosts, write_interest,
                   source>>

(* drain_write_channel pulls while the buffer is below the highwater mark. *)
(* Mutant: it pulls whatever there is. *)
MutNoHighwater == TRUE
MayPull == pending_bytes(writer) < Highwater

Drain ==
    /\ pc = "drain" /\ MayPull /\ channel # <<>>
    /\ Put(Head(channel)) /\ channel' = Tail(channel)
    /\ UNCHANGED <<looper, peer, inward, ghosts, write_interest, token, source,
                   outs, outgoing>>

DrainDone ==
    /\ pc = "drain" /\ (~MayPull \/ channel = <<>>)
    /\ pc' = IF ready.readable THEN "read" ELSE "write"
    /\ UNCHANGED <<round, events, ready, peer, outward, inward, ghosts,
                   write_interest, token, source>>

(* PostAction::Remove: the fd and the channel's receiver are dropped; the  *)
(* looper is not told.                                                     *)
Remove == source' = "removed" /\ pc' = "events" /\ UNCHANGED write_interest

(* The end of process_events, with the bytes that are pending then: write  *)
(* interest is registered while there are any.                             *)
Finish(interest, pending) ==
    /\ write_interest' = (interest \/ pending > 0)
    /\ pc' = "events" /\ UNCHANGED source

(* What ends the connection: a bad length, and a frame that classify_frame *)
(* finds to be an abort or not to be a control message.                    *)
Fatal(r) ==
    \/ HeaderRead(r) /\ LengthError(r)
    \/ BodyRead(r) /\ Kind(r) \in {"Abort", "Undecodable"}

(* A read of process_events returns n bytes; a frame that is complete is   *)
(* handed to the looper.                                                   *)
Read ==
    /\ pc = "read" /\ incoming # <<>>
    /\ LET n == Least(Len(incoming), Want(reader) - Len(reader.got))
           r == Filled(reader, SubSeq(incoming, 1, n))
       IN  /\ incoming' = SubSeq(incoming, n + 1, Len(incoming))
           /\ reader' = Advance(r)
           /\ delivered' = IF BodyRead(r) /\ ~Fatal(r)
                           THEN Append(delivered, r.got[1].frame)
                           ELSE delivered
           /\ IF Fatal(r) THEN Remove
              ELSE UNCHANGED <<pc, source, write_interest>>
    /\ UNCHANGED <<round, events, ready, peer, outward, ghosts, token>>

(* The read would block. *)
ReadDone ==
    /\ pc = "read" /\ incoming = <<>> /\ peer_open
    /\ IF ready.writable
       THEN pc' = "write" /\ UNCHANGED <<write_interest, source>>
       ELSE Finish(write_interest, pending_bytes(writer))
    /\ UNCHANGED <<round, events, ready, peer, outward, inward, ghosts, token>>

ReadEof ==
    /\ pc = "read" /\ incoming = <<>> /\ ~peer_open
    /\ Remove
    /\ UNCHANGED <<round, events, ready, peer, outward, inward, ghosts, token>>

(* A write of try_flush takes n bytes. *)
Write ==
    /\ pc = "write" /\ peer_open
    /\ pending_bytes(writer) > 0 /\ Len(outgoing) < SocketBytes
    /\ LET n == Least(pending_bytes(writer), SocketBytes - Len(outgoing))
       IN  /\ outgoing' = outgoing \o SubSeq(Pending(writer), 1, n)
           /\ writer' = Flush(writer, n)
    /\ UNCHANGED <<looper, peer, inward, ghosts, write_interest, token, source,
                   channel, outs, given, enqueued>>

(* try_flush returns: all bytes are out, or the socket is full. *)
FlushDone ==
    /\ pc = "write" /\ pending_bytes(writer) = 0
    /\ Finish(FALSE, 0)
    /\ UNCHANGED <<round, events, ready, peer, outward, inward, ghosts, token>>

FlushBlocked ==
    /\ pc = "write" /\ pending_bytes(writer) > 0
    /\ peer_open /\ Len(outgoing) = SocketBytes
    /\ Finish(write_interest, pending_bytes(writer))
    /\ UNCHANGED <<round, events, ready, peer, outward, inward, ghosts, token>>

FlushFails ==
    /\ pc = "write" /\ pending_bytes(writer) > 0 /\ ~peer_open
    /\ Remove
    /\ UNCHANGED <<round, events, ready, peer, outward, inward, ghosts, token>>

-----------------------------------------------------------------------------
(* The peer, over the blocking FrameCodec. *)

(* write_frame, and the bytes of it that the socket takes. *)
PeerSend ==
    /\ peer_open /\ peer_out = <<>> /\ outs + ins < MaxFrames
    /\ \E k \in PeerFrames :
        LET f == [id |-> ins + 1, via |-> "peer", kind |-> k[1], len |-> k[2]]
        IN  peer_out' = Encode(f) /\ wrote' = Append(wrote, f)
    /\ ins' = ins + 1
    /\ UNCHANGED <<looper, outward, inward, ghosts, write_interest, token,
                   source, peer_open, peer_reader>>

PeerWrite ==
    /\ peer_open /\ source = "active"
    /\ \E n \in 1..Len(peer_out) :
        /\ Len(incoming) + n =< SocketBytes
        /\ incoming' = incoming \o SubSeq(peer_out, 1, n)
        /\ peer_sent' = peer_sent \o SubSeq(peer_out, 1, n)
        /\ peer_out' = SubSeq(peer_out, n + 1, Len(peer_out))
    /\ UNCHANGED <<looper, outward, write_interest, token, source, reader,
                   delivered, taken, received, peer_open, peer_reader, wrote,
                   ins>>

(* read_frame: an error poisons the codec and ends the connection. *)
PeerRead ==
    /\ peer_open /\ outgoing # <<>>
    /\ LET n == Least(Len(outgoing), Want(peer_reader) - Len(peer_reader.got))
           r == Filled(peer_reader, SubSeq(outgoing, 1, n))
       IN  /\ outgoing' = SubSeq(outgoing, n + 1, Len(outgoing))
           /\ taken' = taken \o SubSeq(outgoing, 1, n)
           /\ peer_reader' = Advance(r)
           /\ peer_open' = ~(HeaderRead(r) /\ LengthError(r))
           /\ received' = IF BodyRead(r)
                          THEN Append(received, r.got[1].frame)
                          ELSE received
    /\ UNCHANGED <<looper, inward, write_interest, token, source, channel,
                   writer, outs, given, enqueued, wrote, peer_sent, peer_out,
                   ins>>

PeerClose ==
    /\ peer_open
    /\ peer_open' = FALSE
    /\ UNCHANGED <<looper, outward, inward, ghosts, write_interest, token,
                   source, peer_out, peer_reader, wrote, ins>>

-----------------------------------------------------------------------------
Dispatch ==
    \/ BeforeSleepTakes \/ BeforeSleep \/ PollOthers \/ Wake
    \/ DispatchReturns \/ ProcessEvents \/ Drain \/ DrainDone
    \/ Read \/ ReadDone \/ ReadEof
    \/ Write \/ FlushDone \/ FlushBlocked \/ FlushFails
    \/ BatchDone

Next ==
    \/ Dispatch \/ WakeOther \/ HandlerSend \/ ChannelSend
    \/ PeerSend \/ PeerWrite \/ PeerRead \/ PeerClose

Spec == Init /\ [][Next]_vars

(* The looper thread runs, and the peer reads what arrives. *)
FairSpec == Spec /\ WF_vars(Dispatch) /\ WF_vars(PeerRead)
-----------------------------------------------------------------------------
(* Properties *)

(* Every variable has its type; a channel and a socket hold no more than    *)
(* their capacity, and flush_pos stays within the buffer.                   *)
OutwardType ==
    /\ channel \in Seq(Frame) /\ Len(channel) =< ChannelCapacity
    /\ \A k \in DOMAIN channel : channel[k].len =< MaxMessage
    /\ writer \in FrameWriter /\ writer.flush_pos =< Len(writer.buf)
    /\ outgoing \in Seq(Byte) /\ Len(outgoing) =< SocketBytes
    /\ given \in Seq(Frame)
    /\ enqueued \in Seq(Byte) /\ taken \in Seq(Byte)
    /\ outs \in Nat
InwardType ==
    /\ reader \in FrameReader /\ peer_reader \in FrameReader
    /\ incoming \in Seq(Byte) /\ Len(incoming) =< SocketBytes
    /\ peer_out \in Seq(Byte) /\ peer_sent \in Seq(Byte)
    /\ received \in Seq(Frame) /\ delivered \in Seq(Frame)
    /\ wrote \in Seq(Frame)
    /\ ins \in Nat
LooperType ==
    /\ write_interest \in BOOLEAN /\ token \in BOOLEAN
    /\ peer_open \in BOOLEAN
    /\ source \in {"active", "removed"}
    /\ pc \in {"before_sleep", "asleep", "events", "drain", "read", "write",
               "batch"}
    /\ round \in {1, 2}
    /\ events \in Seq(Readiness) /\ ready \in Readiness
TypeOK == OutwardType /\ InwardType /\ LooperType

(* However writes are cut short, the bytes the peer has read, the bytes in  *)
(* the socket and the unflushed bytes of the writer are, in this order, all *)
(* bytes ever given to the writer: try_flush and the reset of its buffer    *)
(* lose, repeat and reorder nothing, whichever of the two write paths and   *)
(* of the two places that empty the channel a frame came through.           *)
BytesInOrder == taken \o outgoing \o Pending(writer) = enqueued

(* The frames the peer decodes are the frames given to the writer, complete *)
(* and in order: the writer, the socket and the peer's codec implement      *)
(* FrameLink.                                                               *)
Outbound == INSTANCE FrameLink WITH sent <- given
OutboundLink == Outbound!Spec

(* The frames process_events hands to the looper are the frames the peer    *)
(* wrote to their last byte, complete and in order, however their bytes     *)
(* were cut up.                                                             *)
Written == SubSeq(wrote, 1, Len(wrote) - (IF peer_out = <<>> THEN 0 ELSE 1))
Inbound == INSTANCE FrameLink WITH sent <- Written, received <- delivered
InboundLink == Inbound!Spec

(* The source is removed only when the peer has closed or has written a     *)
(* frame that ends the connection: the reader never loses its place and     *)
(* takes the bytes of good frames for an error.                             *)
EndsConnection(f) ==
    f.kind \in {"Abort", "Undecodable"} \/ ~(f.len \in ServiceBytes..MaxMessage)
RemovalHasCause ==
    source = "removed" =>
        \/ ~peer_open
        \/ \E i \in DOMAIN peer_sent : EndsConnection(peer_sent[i].frame)

(* The looper blocks in the poll with write interest registered for         *)
(* unflushed bytes, so that room in the socket wakes it, and without it     *)
(* for an empty buffer, where a writable socket would wake it for ever:     *)
(* "when drained, write interest is removed to avoid busy-spinning"         *)
(* (connection_source.rs).  This holds from the first event of the source   *)
(* on; before it, before_sleep has no token.                                *)
NeverAsleepOnBytes ==
    pc = "asleep" /\ source = "active" /\ token =>
        (pending_bytes(writer) > 0 <=> write_interest)

(* The highwater mark bounds what leaves the bounded channel: of the bytes  *)
(* pending in the writer, those that came through the channel never exceed  *)
(* the mark by a whole frame, however much handlers write directly.         *)
ChannelBytes == {i \in (writer.flush_pos + 1)..Len(writer.buf) :
                     writer.buf[i].frame.via = "channel"}
BackpressureKept ==
    Cardinality(ChannelBytes) < Highwater + PrefixBytes + MaxMessage

(* What these rest on.  process_events runs for an active source; between   *)
(* two reads there is room in the buffer that read_into fills; write        *)
(* interest outlives the bytes it is for only until try_flush returns; and  *)
(* before_sleep keeps the looper from blocking while bytes are pending.     *)
InProcess == pc \in {"drain", "read", "write"} => source = "active"
RoomToRead ==
    /\ source = "active" => Len(reader.got) < Want(reader)
    /\ peer_open => Len(peer_reader.got) < Want(peer_reader)
InterestJustified ==
    write_interest /\ pending_bytes(writer) = 0 => pc = "write"
AsleepDrained ==
    pc = "asleep" /\ source = "active" /\ token =>
        pending_bytes(writer) = 0 /\ ~write_interest
ConnectionInv ==
    /\ TypeOK /\ BytesInOrder /\ AsleepDrained /\ BackpressureKept
    /\ InProcess /\ RoomToRead /\ InterestJustified

Ended == source = "removed" \/ ~peer_open

Queued(i) == \E k \in DOMAIN channel : channel[k].id = i
Arrived(i) == \E k \in DOMAIN received : received[k].id = i

(* Once the source has had its first event, a looper that is awake empties  *)
(* the channel, or the connection ends: process_events and before_sleep     *)
(* between them overlook no frame that is there before the poll blocks.     *)
SentAwakeTaken ==
    (token /\ pc # "asleep" /\ channel # <<>>) ~> (channel = <<>> \/ Ended)

(* What before_sleep says of itself, "same result, one fewer fd" as a       *)
(* channel that wakes the poll: a frame sent into the channel reaches the   *)
(* peer, or the connection ends.                                            *)
QueuedArrives ==
    \A i \in 1..MaxFrames : (token /\ Queued(i)) ~> (Arrived(i) \/ Ended)

(* Frames arrive in both directions: again and again every frame whose last *)
(* byte the peer has written is with the looper and, once the source has    *)
(* had its first event, every frame put in the write buffer is with the     *)
(* peer, or the connection ends.                                            *)
FramesArrive ==
    []<>( \/ Ended
          \/ /\ Len(delivered) = Len(Written)
             /\ token => Len(received) = Len(given) )
=============================================================================
