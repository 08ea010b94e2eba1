------------------------------ MODULE MCBuffer ------------------------------
(***************************************************************************)
(* An instance of Buffer.  Buffers of two maximum sizes are used for text: *)
(* every sequence of up to three bytes.  The others are filled with long   *)
(* runs of one byte, so that their memory grows and the doubling overflows.*)
(***************************************************************************)
EXTENDS Buffer

CONSTANTS TextSizes,                 \* the values of max_size used for text
          TextWritten, LongWritten   \* bounds: bytes written between two clears

MCChunks(m) == IF m \in TextSizes THEN UNION {[1..n -> Byte] : n \in 0..3}
               ELSE {[i \in 1..n |-> b] : n \in 1..BUFFER_LIMIT, b \in Byte \ {NL}}

MCMaxWritten(m) == IF m \in TextSizes THEN TextWritten ELSE LongWritten
=============================================================================
