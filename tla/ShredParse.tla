--------------------------- MODULE ShredParse ---------------------------
(***************************************************************************)
(* What src/src/shred/parse.rs makes of a datagram, as far as its bounds   *)
(* go: which datagrams are data shreds, and which bytes of one are its     *)
(* payload.  A packet is its length, its kind (the variant byte) and the   *)
(* size that its header declares, a u16.                                   *)
(***************************************************************************)
EXTENDS Naturals

MaxDatagramSize == 1232
SizeOfDataHeaders == 88

MaxU16 == 2^16 - 1
Packets == [len : 0..MaxDatagramSize, kind : {"data", "coding", "unknown"}, declared : 0..MaxU16]

\* merkle_proof_bytes
ProofBytes(body) == IF body > 600 THEN 80 ELSE IF body > 400 THEN 40 ELSE 0

\* merkle_payload_end, with its saturating subtraction
PayloadEnd(declared) ==
    LET body == declared - SizeOfDataHeaders
    IN  IF body <= 20 THEN declared
        ELSE IF ProofBytes(body) <= declared THEN declared - ProofBytes(body) ELSE 0

\* parse_data_shred returns Some
IsDataShred(packet) ==
    /\ packet.len >= SizeOfDataHeaders
    /\ packet.kind = "data"
    /\ packet.declared <= packet.len
    /\ packet.declared > SizeOfDataHeaders

\* run_udp_loop: recv_from fills a buffer of MaxDatagramSize bytes, and skip
\* leading bytes are cut off, if there are as many.
\* (Mutant: the buffer has no end.)
Received_Whole(sent) == sent
Received(sent) == IF sent <= MaxDatagramSize THEN sent ELSE MaxDatagramSize
Stripped(size, skip) == IF skip <= size THEN size - skip ELSE 0
=============================================================================
