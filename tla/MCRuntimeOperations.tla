------------------------- MODULE MCRuntimeOperations -------------------------
(***************************************************************************)
(* Small instances of RuntimeOperations for TLC.  A header has two bytes.  *)
(* Docker sends a raw stream, frames (one of them empty, the last one cut  *)
(* off by the transfer limit), or a frame of an unknown output stream.     *)
(***************************************************************************)
EXTENDS RuntimeOperations, TLC

CONSTANTS t1, t2, container, profile, nobody

RawBytes(n) == [i \in 1 .. n |-> Payload(i)]
\* A frame with payload from + 1 .. from + length.
Frame(from, length, known) ==
    [i \in 1 .. HeaderSize |-> Header(length, known)] \o [i \in 1 .. length |-> Payload(from + i)]

SomeWires ==
    { [multiplexed |-> FALSE, bytes |-> RawBytes(3)],
      [multiplexed |-> TRUE, bytes |-> Frame(0, 3, TRUE) \o Frame(3, 0, TRUE) \o << Header(1, TRUE) >>],
      [multiplexed |-> TRUE, bytes |-> Frame(0, 1, FALSE)] }

Interchangeable == Permutations(Tasks)
=============================================================================
