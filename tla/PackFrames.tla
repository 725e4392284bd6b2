------------------------------ MODULE PackFrames ------------------------------
(* One channel of a transfer below the want loop: SendPackRecords writes a   *)
(* pack through the chunkWriter, which sends it in TData frames of ChunkSize  *)
(* bytes and ends it with TDataEnd, or TErr in its place; the packReader     *)
(* turns the frames back into bytes, the decoder stops at the pack's own end *)
(* marker and the rest is drained.  The connection may be cut at any byte.   *)
EXTENDS Integers, Sequences, FiniteSets, SequencesExt

CONSTANTS
  ChunkSize,
  Packs,       \* packs the sender may be asked for: the lengths of their records
  ReadSizes,   \* buffer sizes the decoder reads with
  MaxPacks     \* bound on the rounds of the channel

ASSUME FrameAssumption ==
  /\ ChunkSize \in Nat \ {0} /\ MaxPacks \in Nat \ {0}
  /\ Packs \subseteq Seq(Nat \ {0}) \ {<<>>}
  /\ ReadSizes \subseteq Nat \ {0} /\ ReadSizes # {}

End == 0   \* the end marker amberpack's Close writes; record bytes are numbered

VARIABLES
  packs,    \* packs asked for so far
  plan,     \* the records of this pack not yet added
  sent,     \* the bytes of this pack given to the chunkWriter
  buf,      \* chunkWriter.buf
  sender,   \* "add", "finish", "idle", "readerr" or "failed"
  stream,   \* frames under way
  cut,      \* "no", or where the connection was cut: between two frames, inside a
            \* header, between a header and its payload, inside a payload
  cur, done, err,   \* packReader
  got,      \* the bytes of this pack the decoder has read
  reader    \* "decode", "drain", "ok" or "failed"

vars == <<packs, plan, sent, buf, sender, stream, cut, cur, done, err, got, reader>>

Frame == [type : {"TData"}, data : Seq(Nat)] \cup [type : {"TDataEnd", "TErr"}]
Cuts == {"between", "header", "bare", "payload"}

TypeOK ==
  /\ packs \in 1..MaxPacks
  /\ plan \in Seq(Nat \ {0}) /\ \E p \in Packs : IsSuffix(plan, p)
  /\ sent \in Seq(Nat) /\ buf \in Seq(Nat) /\ Len(buf) < ChunkSize
  /\ sender \in {"add", "finish", "idle", "readerr", "failed"}
  /\ stream \in Seq(Frame)
  /\ \A i \in DOMAIN stream : stream[i].type = "TData" => Len(stream[i].data) \in 1..ChunkSize
  /\ cut \in {"no"} \cup Cuts
  /\ cur \in Seq(Nat) /\ Len(cur) <= ChunkSize /\ done \in BOOLEAN
  /\ err \in {"none", "eof", "unexpected", "short eof", "short unexpected", "remote"}
  /\ got \in Seq(Nat)
  /\ reader \in {"decode", "drain", "ok", "failed"}

Init ==
  /\ packs = 1 /\ plan \in Packs
  /\ sent = <<>> /\ buf = <<>> /\ sender = "add" /\ stream = <<>> /\ cut = "no"
  /\ cur = <<>> /\ done = FALSE /\ err = "none" /\ got = <<>> /\ reader = "decode"

-----------------------------------------------------------------------------
(* The sender                                                                *)

Data(bytes) == [type |-> "TData", data |-> bytes]
DataEnd == [type |-> "TDataEnd"]
Err == [type |-> "TErr"]

\* The TData frames that leave when bytes are in the buffer, and what stays.
Chunks(bytes) ==
  [i \in 1..(Len(bytes) \div ChunkSize) |->
     Data(SubSeq(bytes, (i - 1) * ChunkSize + 1, i * ChunkSize))]
RestKeepsLast(bytes) ==
  IF Len(bytes) >= ChunkSize
  THEN SubSeq(bytes, (Len(bytes) \div ChunkSize) * ChunkSize, Len(bytes))
  ELSE bytes
Rest(bytes) == SubSeq(bytes, (Len(bytes) \div ChunkSize) * ChunkSize + 1, Len(bytes))

\* Frames written to a connection that was cut are lost.
Write(frames) == stream' = IF cut = "no" THEN stream \o frames ELSE stream

ChunkWhole(bytes) ==
  LET all == buf \o bytes IN
    /\ Write(IF Len(all) < ChunkSize THEN <<>> ELSE <<Data(all)>>)
    /\ buf' = IF Len(all) < ChunkSize THEN all ELSE <<>>
\* chunkWriter.Write
Chunk(bytes) == Write(Chunks(buf \o bytes)) /\ buf' = Rest(buf \o bytes)

\* A frame cannot be written: Send gives up, its TErr fails as well.
WriteFails == cut # "no" /\ sender' = "failed" /\ UNCHANGED <<plan, sent, buf, stream>>

Record == [i \in 1..Head(plan) |-> Len(sent) + i]

\* A record is added to the pack.
AddRecord ==
  /\ sender = "add" /\ plan # <<>>
  /\ \/ Chunk(Record) /\ sent' = sent \o Record /\ plan' = Tail(plan) /\ UNCHANGED sender
     \/ Chunks(buf \o Record) # <<>> /\ WriteFails
  /\ UNCHANGED <<packs, cut, cur, done, err, got, reader>>

\* The writer closes the pack with its end marker.
ClosePack ==
  /\ sender = "add" /\ plan = <<>>
  /\ \/ Chunk(<<End>>) /\ sent' = Append(sent, End) /\ sender' = "finish" /\ UNCHANGED plan
     \/ Chunks(Append(buf, End)) # <<>> /\ WriteFails
  /\ UNCHANGED <<packs, cut, cur, done, err, got, reader>>

\* finish: what is left in the buffer, then TDataEnd.
Finish ==
  /\ sender = "finish"
  /\ \/ /\ Write((IF buf = <<>> THEN <<>> ELSE <<Data(buf)>>) \o <<DataEnd>>)
        /\ buf' = <<>> /\ sender' = "idle" /\ UNCHANGED <<plan, sent>>
     \/ WriteFails
  /\ UNCHANGED <<packs, cut, cur, done, err, got, reader>>

ReadFailsSilently ==
  /\ sender = "add" /\ plan # <<>>
  /\ sender' = "readerr"
  /\ UNCHANGED <<packs, plan, sent, buf, stream, cut, cur, done, err, got, reader>>

\* Send cannot read an object: the pack is dropped where it is, with what the
\* buffer holds, and TErr takes the place of its end.
ReadFails ==
  /\ sender = "add" /\ plan # <<>>
  /\ sender' = "readerr"
  /\ Write(<<Err>>)
  /\ UNCHANGED <<packs, plan, sent, buf, cut, cur, done, err, got, reader>>

-----------------------------------------------------------------------------
(* The connection                                                            *)

\* What is under way or being written is lost from some byte on.
Cut ==
  /\ cut = "no"
  /\ \E n \in 0..Len(stream) :
       /\ stream' = SubSeq(stream, 1, n)
       /\ cut' \in IF n < Len(stream) \/ sender \in {"add", "finish"} THEN Cuts ELSE {"between"}
  /\ UNCHANGED <<packs, plan, sent, buf, sender, cur, done, err, got, reader>>

-----------------------------------------------------------------------------
(* The receiver                                                              *)

\* ReadMsg at the end of what a cut connection delivers.  ReadFull reports EOF
\* when not a byte was read, also of the payload of a frame.
CutError ==
  CASE cut = "between" -> "eof"
    [] cut = "header"  -> "unexpected"
    [] cut = "bare"    -> "short eof"
    [] cut = "payload" -> "short unexpected"

Reading == reader \in {"decode", "drain"} /\ cur = <<>> /\ ~done /\ err = "none"

FetchErrAsEnd ==
  /\ Reading /\ stream # <<>>
  /\ LET m == Head(stream) IN
       /\ cur' = IF m.type = "TData" THEN m.data ELSE cur
       /\ done' = (m.type # "TData")
       /\ err' = err
  /\ stream' = Tail(stream)
  /\ UNCHANGED <<packs, plan, sent, buf, sender, cut, got, reader>>

\* packReader.Read takes the next frame.
Fetch ==
  /\ Reading /\ stream # <<>>
  /\ LET m == Head(stream) IN
       /\ cur' = IF m.type = "TData" THEN m.data ELSE cur
       /\ done' = (m.type = "TDataEnd")
       /\ err' = IF m.type = "TErr" THEN "remote" ELSE err
  /\ stream' = Tail(stream)
  /\ UNCHANGED <<packs, plan, sent, buf, sender, cut, got, reader>>

FetchFails ==
  /\ Reading /\ stream = <<>> /\ cut # "no"
  /\ err' = CutError
  /\ UNCHANGED <<packs, plan, sent, buf, sender, stream, cut, cur, done, got, reader>>

\* packReader.Read copies into the caller's buffer; the decoder stops when it
\* has read the end marker.
Copy(n) ==
  /\ reader = "decode" /\ cur # <<>>
  /\ LET m == IF n < Len(cur) THEN n ELSE Len(cur) IN
       /\ got' = got \o SubSeq(cur, 1, m)
       /\ cur' = SubSeq(cur, m + 1, Len(cur))
  /\ reader' = IF Last(got') = End THEN "drain" ELSE "decode"
  /\ UNCHANGED <<packs, plan, sent, buf, sender, stream, cut, done, err>>

\* The pack ends, in whatever way, before its end marker.
Truncated ==
  /\ reader = "decode" /\ cur = <<>> /\ (done \/ err # "none")
  /\ reader' = "failed"
  /\ UNCHANGED <<packs, plan, sent, buf, sender, stream, cut, cur, done, err, got>>

DrainSkipped ==
  /\ reader = "drain"
  /\ reader' = "ok"
  /\ UNCHANGED <<packs, plan, sent, buf, sender, stream, cut, cur, done, err, got>>

\* io.Copy ends at EOF, TDataEnd's or a connection's that ended between frames.
Drain ==
  /\ reader = "drain" /\ (done \/ err # "none")
  /\ reader' = IF done \/ err = "eof" THEN "ok" ELSE "failed"
  /\ UNCHANGED <<packs, plan, sent, buf, sender, stream, cut, cur, done, err, got>>

\* The next round of the channel: TWants, a new pack and a new packReader.  A
\* lost connection refuses the frame, or swallows it for the reader to notice.
NextPack ==
  /\ reader = "ok" /\ packs < MaxPacks
  /\ packs' = packs + 1
  /\ \/ /\ sender = "idle"
        /\ plan' \in Packs /\ sent' = <<>> /\ sender' = IF cut = "no" THEN "add" ELSE "failed"
     \/ sender # "idle" /\ UNCHANGED <<plan, sent, sender>>
  /\ cur' = <<>> /\ done' = FALSE /\ err' = "none" /\ got' = <<>>
  /\ \/ reader' = "decode"
     \/ cut # "no" /\ reader' = "failed"
  /\ UNCHANGED <<buf, stream, cut>>

Over ==
  /\ reader = "failed" \/ (reader = "ok" /\ packs = MaxPacks)
  /\ UNCHANGED vars

Next ==
  \/ AddRecord \/ ClosePack \/ Finish \/ ReadFails \/ Cut
  \/ Fetch \/ FetchFails \/ Truncated \/ Drain \/ NextPack \/ Over
  \/ \E n \in ReadSizes : Copy(n)

Spec == Init /\ [][Next]_vars

\* Both goroutines run on; a connection need not be cut, nor a read fail.
FairSpec ==
  /\ Spec
  /\ WF_vars(AddRecord \/ ClosePack \/ Finish)
  /\ WF_vars(Fetch \/ FetchFails \/ Truncated \/ Drain \/ \E n \in ReadSizes : Copy(n))

-----------------------------------------------------------------------------
(* Properties                                                                *)

Payload(frames) ==
  FlattenSeq([i \in DOMAIN frames |-> IF frames[i].type = "TData" THEN frames[i].data ELSE <<>>])

\* The bytes of a pack arrive once, in order and none is missing: what was read,
\* what is under way and what is still buffered make up what was written; a cut
\* takes only an end of it.
InOrder ==
  /\ IsPrefix(got \o cur \o Payload(stream), sent)
  /\ cut = "no" => got \o cur \o Payload(stream) \o buf = sent

\* A frame that ends a pack is the last one under way, and its sender is done
\* with the pack; the packReader's done and err mean that nothing is under way.
EndsLast ==
  /\ \A i \in DOMAIN stream : stream[i].type # "TData" =>
       i = Len(stream) /\ sender = IF stream[i].type = "TDataEnd" THEN "idle" ELSE "readerr"
  /\ done => stream = <<>> /\ sender = "idle"
  /\ err # "none" => stream = <<>>
  /\ err = "remote" => sender = "readerr"
  /\ err \notin {"none", "remote"} => cut # "no"

\* The end marker closes what is written, and nothing else does; a sender that
\* gave up lost its connection.
Closed ==
  /\ \A i \in DOMAIN sent : sent[i] = End => i = Len(sent) /\ sender \notin {"add", "readerr"}
  /\ sender \in {"finish", "idle"} => sent # <<>> /\ Last(sent) = End
  /\ sender = "idle" => buf = <<>>
  /\ sender = "failed" => cut # "no"

\* How far the decoder is: at the end marker it has read all that was written.
ReadSoFar ==
  /\ reader = "decode" => got = <<>> \/ Last(got) # End
  /\ reader \in {"drain", "ok"} => got = sent /\ sent # <<>> /\ Last(sent) = End
  /\ reader = "ok" => done \/ err = "eof"
  /\ (reader = "failed" /\ cut = "no") => err = "remote"

\* All of it, with the types: frames are never empty and carry at most ChunkSize
\* bytes, so that the memory a frame takes is bounded.
IInv == TypeOK /\ InOrder /\ EndsLast /\ Closed /\ ReadSoFar

\* A pack ends well only when all of it was read and the stream stands at the
\* next frame, with nothing left for the next packReader to trip over; and while
\* the connection holds it fails only with the error the sender reported.
EndTrue ==
  /\ reader = "ok" => got = sent /\ Last(got) = End
  /\ (reader = "ok" /\ cut = "no") => stream = <<>> /\ sender = "idle"
  /\ (reader = "failed" /\ cut = "no") => err = "remote" /\ sender = "readerr"

\* The reader ends, whatever the sender and the connection do.
ReaderEnds == [](reader \in {"decode", "drain"} => <>(reader \in {"ok", "failed"}))
=============================================================================
