----------------------------- MODULE MCSmtpRead -----------------------------
EXTENDS SmtpRead

CONSTANT MaxLen   \* bound: bytes a client sends

\* The longest streams have no carriage return, to keep their number down.
MCStreams ==
  UNION {[1 .. n -> Bytes] : n \in 0 .. MaxLen - 1} \cup [1 .. MaxLen -> Bytes \ {CR}]
=============================================================================
