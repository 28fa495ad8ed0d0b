------------------------------ MODULE Channel ------------------------------
(***************************************************************************)
(* One direction of the authenticated channel, from a device to a client:  *)
(* crates/bliti-core/src/channel/, over the transport of gatt.rs.          *)
(*                                                                         *)
(* The writer deflates what it is given (compress.rs), encrypts what comes *)
(* out into length-framed Noise messages (stream.rs, framing.rs), and cuts *)
(* those into chunks the link takes a few at a time; each layer keeps a    *)
(* backlog (write_backlog.rs). The reader undoes each layer. The first     *)
(* frame is the second message of the handshake (noise.rs).                *)
(*                                                                         *)
(* zlib is external: it takes bytes in and may keep any of them until it   *)
(* is flushed, and it inflates what it has been given at any later call. A *)
(* compressed unit is a byte, or one of its own that inflates to nothing:  *)
(* a header, the mark of a sync flush, or the end of the stream.           *)
(***************************************************************************)
EXTENDS Naturals, Sequences

CONSTANTS
    MaxPlaintext,  \* the most one Noise message carries
    MaxChunk,      \* the most one notification carries
    MaxQueued,     \* chunks buffered by the transport
    MaxRead,       \* the most the reader asks for at once
    MaxBytes       \* bound: bytes written

ASSUME ChannelAssumption ==
    {MaxPlaintext, MaxChunk, MaxQueued, MaxRead, MaxBytes} \subseteq Nat \ {0}

VARIABLES
    w,         \* the writer's layers
    link,      \* the chunks on their way, and whether any more may come
    r,         \* the reader's layers
    written, received, shut, outcome, genuine

chanVars == <<w, link, r, written, received, shut, outcome, genuine>>

(* The units of zlib's own, beside the bytes written, which are 1..MaxBytes. *)
Header == 0
Sync == MaxBytes + 1
Finish == MaxBytes + 2

Frame(n, kind, units) == [n |-> n, kind |-> kind, units |-> units]

(* A frame on the wire: its length, and a part for each unit it carries.   *)
(* The tag is left out of the length.                                      *)
Framed(f) ==
    <<[part |-> "prefix", len |-> Len(f.units), of |-> f]>>
        \o [i \in 1..Len(f.units) |-> [part |-> "body", len |-> i, of |-> f]]

(* The device has read the first message and written the second.           *)
ChanInit ==
    /\ w = [deflating |-> <<Header>>, dirty |-> FALSE, finished |-> FALSE,
            out |-> << >>, noise |-> Framed(Frame(0, "handshake", <<0>>)), sent |-> 1]
    /\ link = [chunks |-> << >>, open |-> TRUE]
    /\ r = [pending |-> << >>, shaken |-> FALSE, buf |-> << >>, next |-> 1,
            inBuf |-> << >>, inflating |-> << >>, totalIn |-> 0, streamEnd |-> FALSE, eof |-> FALSE]
    /\ written = << >> /\ received = << >> /\ shut = FALSE /\ outcome = "none"
    /\ genuine \in BOOLEAN
-----------------------------------------------------------------------------
(* CompressStream, writing. What deflate keeps back is anything it likes.  *)
Deflates(x, units, kept) ==
    LET all == x.deflating \o units
        n == Len(all) - kept
    IN [x EXCEPT !.deflating = SubSeq(all, n + 1, Len(all)), !.out = @ \o SubSeq(all, 1, n)]

(* poll_write: the backlog is cleared first.                               *)
WritesByte(b) ==
    /\ link.open /\ ~w.finished /\ w.out = << >> /\ Len(written) < MaxBytes
    /\ \E kept \in 0..(Len(w.deflating) + 1) : w' = [Deflates(w, <<b>>, kept) EXCEPT !.dirty = TRUE]
    /\ written' = Append(written, b)
    /\ UNCHANGED <<link, r, received, shut, outcome, genuine>>

(* poll_flush: a sync flush, where anything was written since the last.    *)
Flushes ==
    /\ link.open /\ w.dirty /\ ~w.finished
    /\ w' = [Deflates(w, <<Sync>>, 0) EXCEPT !.dirty = FALSE]
    /\ UNCHANGED <<link, r, written, received, shut, outcome, genuine>>

(* poll_close, once the handle is gone: the stream is finished first.      *)
Finishes ==
    /\ link.open /\ ~w.finished
    /\ w' = [Deflates(w, <<Finish>>, 0) EXCEPT !.dirty = FALSE, !.finished = TRUE]
    /\ shut' = TRUE
    /\ UNCHANGED <<link, r, written, received, outcome, genuine>>

(* NoiseStream, writing: one Noise message is in flight at a time.         *)
Encrypts ==
    /\ link.open /\ w.out # << >> /\ w.noise = << >>
    /\ LET n == IF Len(w.out) < MaxPlaintext THEN Len(w.out) ELSE MaxPlaintext IN
       w' = [w EXCEPT !.out = SubSeq(@, n + 1, Len(@)), !.sent = @ + 1,
                      !.noise = Framed(Frame(w.sent, "transport", SubSeq(w.out, 1, n)))]
    /\ UNCHANGED <<link, r, written, received, shut, outcome, genuine>>

(* GattTransport, writing: a chunk where there is room for one.            *)
Notifies ==
    /\ link.open /\ w.noise # << >> /\ Len(link.chunks) < MaxQueued
    /\ LET n == IF Len(w.noise) < MaxChunk THEN Len(w.noise) ELSE MaxChunk IN
       /\ link' = [link EXCEPT !.chunks = Append(@, SubSeq(w.noise, 1, n))]
       /\ w' = [w EXCEPT !.noise = SubSeq(@, n + 1, Len(@))]
    /\ UNCHANGED <<r, written, received, shut, outcome, genuine>>

Closes ==
    /\ link.open /\ w.finished /\ w.out = << >> /\ w.noise = << >>
    /\ link' = [link EXCEPT !.open = FALSE]
    /\ UNCHANGED <<w, r, written, received, shut, outcome, genuine>>

(* The link goes, with some of what was on its way.                        *)
Cut ==
    /\ link.open
    /\ \E n \in 0..Len(link.chunks) : link' = [chunks |-> SubSeq(link.chunks, 1, n), open |-> FALSE]
    /\ UNCHANGED <<w, r, written, received, shut, outcome, genuine>>
-----------------------------------------------------------------------------
(* Reassembler::take: the first whole frame of a sequence of parts.        *)
HasFrame(parts) == parts # << >> /\ Len(parts) > parts[1].len
Taken(parts) == SubSeq(parts, parts[1].len + 2, Len(parts))

(* What is framed is read by the length its prefix claims, whatever it is. *)
Decrypts(parts) ==
    LET f == parts[1].of IN
    /\ parts[1].part = "prefix" /\ f.n = r.next /\ f.kind = "transport"
    /\ \A i \in 1..parts[1].len : parts[i + 1] = [part |-> "body", len |-> i, of |-> f]

ReadsTo(x) == r' = x /\ UNCHANGED <<w, link, written, shut, genuine>>
ReadEnds(how, x) == outcome' = how /\ ReadsTo(x) /\ UNCHANGED received
Goes(x) == ReadsTo(x) /\ UNCHANGED <<received, outcome>>

(* GattTransport, reading: the handshake takes exactly its own frame off   *)
(* the transport, and leaves the rest of the chunk there.                  *)
PullsChunk ==
    /\ outcome = "none" /\ link.chunks # << >>
    /\ \/ ~r.shaken /\ ~HasFrame(r.pending)
       \/ r.shaken /\ r.pending = << >> /\ ~HasFrame(r.buf) /\ r.inBuf = << >> /\ r.inflating = << >>
    /\ link' = [link EXCEPT !.chunks = Tail(@)]
    /\ r' = [r EXCEPT !.pending = @ \o Head(link.chunks)]
    /\ UNCHANGED <<w, written, received, shut, outcome, genuine>>

(* Handshake::read_message: the device's keys are checked here, before     *)
(* anything further.                                                       *)
Shakes ==
    /\ outcome = "none" /\ ~r.shaken /\ HasFrame(r.pending)
    /\ IF genuine THEN Goes([r EXCEPT !.shaken = TRUE, !.pending = Taken(@)])
       ELSE ReadEnds("refused", r)

(* NoiseStream, reading.                                                   *)
Pushes ==
    /\ outcome = "none" /\ r.shaken /\ r.pending # << >>
    /\ Goes([r EXCEPT !.buf = @ \o r.pending, !.pending = << >>])

TakesFrame ==
    /\ outcome = "none" /\ r.shaken /\ HasFrame(r.buf)
    /\ r.inBuf = << >> /\ r.inflating = << >> /\ ~r.streamEnd
    /\ IF Decrypts(r.buf)
       THEN Goes([r EXCEPT !.buf = Taken(@), !.next = @ + 1, !.inBuf = @ \o r.buf[1].of.units])
       ELSE ReadEnds("fault", r)

(* CompressStream, reading: one call into the decompressor for a buffer of *)
(* `size'. It takes all it is given, and keeps what does not fit.          *)
Outputs(units) ==
    LET out[i \in 0..Len(units)] ==
            IF i = 0 THEN << >>
            ELSE IF units[i] \in {Header, Sync, Finish} THEN out[i - 1] ELSE Append(out[i - 1], units[i])
    IN out[Len(units)]

Finishing(units) == IF \E i \in DOMAIN units : units[i] = Finish THEN <<Finish>> ELSE << >>

Inflated(units, size) ==
    LET out == Outputs(units)
        fits == Len(out) <= size
    IN [r EXCEPT !.inBuf = << >>, !.totalIn = @ + Len(r.inBuf),
                 !.inflating = IF fits THEN << >>
                               ELSE SubSeq(out, size + 1, Len(out)) \o Finishing(units),
                 !.streamEnd = fits /\ Finishing(units) # << >>]

FillsBuffer(units, size) == IF Len(Outputs(units)) < size THEN Outputs(units) ELSE SubSeq(Outputs(units), 1, size)

(* Mutant of Inflates: nothing is inflated without input to inflate.       *)
InflatesInput(size) ==
    /\ outcome = "none" /\ r.inBuf # << >>
    /\ ReadsTo(Inflated(r.inflating \o r.inBuf, size))
    /\ received' = received \o FillsBuffer(r.inflating \o r.inBuf, size)
    /\ UNCHANGED outcome

Inflates(size) ==
    /\ outcome = "none" /\ r.inBuf \o r.inflating # << >>
    /\ ReadsTo(Inflated(r.inflating \o r.inBuf, size))
    /\ received' = received \o FillsBuffer(r.inflating \o r.inBuf, size)
    /\ UNCHANGED outcome

(* The end of the zlib stream is the end, whatever the transport says.     *)
ReadsEnd ==
    /\ outcome = "none" /\ r.streamEnd
    /\ ReadEnds("end", r)

(* Mutant of EndOf: a transport that ends is the end of the stream.        *)
EndOfAny == "end"

(* A transport that ended before the stream did cut it short, unless       *)
(* nothing ever arrived.                                                   *)
EndOf == IF r.totalIn = 0 THEN "end" ELSE "fault"

ReadsEof ==
    /\ outcome = "none" /\ ~link.open /\ link.chunks = << >> /\ ~r.streamEnd
    /\ IF r.shaken
       THEN /\ r.pending = << >> /\ ~HasFrame(r.buf) /\ r.inBuf = << >> /\ r.inflating = << >>
            /\ ReadEnds(EndOf, r)
       ELSE ~HasFrame(r.pending) /\ ReadEnds("refused", r)
-----------------------------------------------------------------------------
ReaderStep ==
    \/ PullsChunk \/ Shakes \/ Pushes \/ TakesFrame \/ ReadsEnd \/ ReadsEof
    \/ \E size \in 1..MaxRead : Inflates(size)
DriverStep == Flushes \/ Encrypts \/ Notifies \/ Closes

ChanNext == WritesByte(Len(written) + 1) \/ Finishes \/ Cut \/ DriverStep \/ ReaderStep
ChanSpec == ChanInit /\ [][ChanNext]_chanVars

(* The driver and the reader are polled whenever they can go on.           *)
ChanFairSpec == ChanSpec /\ WF_chanVars(DriverStep) /\ WF_chanVars(ReaderStep)
-----------------------------------------------------------------------------
Abstract == INSTANCE ByteStream WITH Bytes <- 1..MaxBytes

(* The layers together are the byte stream they present: whatever the      *)
(* sizes bytes are cut into at each layer and wherever the link goes,      *)
(* bytes arrive as written, and an end read as clean is one.               *)
ImplementsByteStream == Abstract!Spec

(* What is written and flushed is read: no layer of either end keeps       *)
(* anything back (compress.rs, its first and second rules).                *)
FlushedIsRead ==
    (Len(written) > 0 /\ genuine) ~> (received = written \/ ~link.open \/ outcome # "none")
=============================================================================
