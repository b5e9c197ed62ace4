------------------------------ MODULE LogStream ------------------------------
(***************************************************************************)
(* How the logs of a container are read: DockerApiAdapter::logs,           *)
(* crates/colui-adapters/src/runtime/docker_api.rs, and LogByteRing,       *)
(* crates/colui-app/src/containers.rs.                                     *)
(*                                                                         *)
(* Docker sends a raw stream, which is payload, or a multiplexed one, which *)
(* is a sequence of frames: a header that names an output stream and a     *)
(* length, then so many bytes of payload.  HTTP delivers either in chunks  *)
(* that know nothing of frames.  The reader carries what it is in the      *)
(* middle of from chunk to chunk and keeps the end of the payload.         *)
(*                                                                         *)
(* A byte of payload is its number in the payload, and would pass for a    *)
(* header; the bytes of a header all carry what the complete header says.  *)
(***************************************************************************)
EXTENDS Naturals, Sequences, SequencesExt

CONSTANTS HeaderSize,      \* 8
          Capacity,        \* LogByteRing::CAPACITY
          TransferLimit    \* 8 MiB: a stream this long is refused

ASSUME SizesAssumption == HeaderSize \in Nat \ {0} /\ Capacity \in Nat /\ TransferLimit \in Nat

Payload(n) == [kind |-> "payload", number |-> n, length |-> 1, known |-> TRUE]
\* `known`: the header names stdout or stderr and its padding is zero.
Header(length, known) == [kind |-> "header", length |-> length, known |-> known]

\* The reader between two chunks.
Reader(multiplexed) ==
    [multiplexed |-> multiplexed, headerLen |-> 0, remaining |-> 0, bad |-> FALSE,
     transferred |-> 0, ring |-> <<>>, truncated |-> FALSE]

(***************************************************************************)
(* Next to an operator stands, where a property is about it, a faulty      *)
(* variant of it that a slip in the code could produce; nothing uses it.   *)
(***************************************************************************)

\* LogByteRing::push, a byte at a time.
Push(r, byte) ==
    LET all == Append(r.ring, byte)
    IN IF Len(all) > Capacity
       THEN [r EXCEPT !.ring = Tail(all), !.truncated = TRUE]
       ELSE [r EXCEPT !.ring = all]

EndsHeader(r, byte) ==
    IF ~byte.known
    THEN [r EXCEPT !.bad = TRUE]
    ELSE [r EXCEPT !.remaining = byte.length, !.headerLen = 0]

\* One byte of a multiplexed stream.
Demultiplex(r, byte) ==
    CASE r.bad -> r
      [] ~r.bad /\ r.remaining # 0 -> [Push(r, byte) EXCEPT !.remaining = @ - 1]
      [] ~r.bad /\ r.remaining = 0 /\ r.headerLen + 1 = HeaderSize -> EndsHeader(r, byte)
      [] OTHER -> [r EXCEPT !.headerLen = @ + 1]

\* Faulty: a header that a chunk cuts is forgotten.
ReceiveWholeHeaders(r, chunk) ==
    LET counted == [r EXCEPT !.transferred = @ + Len(chunk), !.headerLen = 0]
    IN FoldLeft(LAMBDA s, b : IF s.multiplexed THEN Demultiplex(s, b) ELSE Push(s, b),
                counted, chunk)
\* A chunk arrives.
Receive(r, chunk) ==
    LET counted == [r EXCEPT !.transferred = @ + Len(chunk)]
    IN FoldLeft(LAMBDA s, b : IF s.multiplexed THEN Demultiplex(s, b) ELSE Push(s, b),
                counted, chunk)

Refused(r) == r.bad \/ r.transferred >= TransferLimit

\* The body has ended: not in the middle of a frame.
BetweenFrames(r) == r.headerLen = 0 /\ r.remaining = 0
=============================================================================
