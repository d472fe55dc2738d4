------------------------------- MODULE OutBuf -------------------------------
(***************************************************************************)
(* The output cursor of the decoder (struct out and out_vprintf of         *)
(* src/src/sysdecode.c): text is printed piece by piece into a buffer of   *)
(* cap characters, the last of which is a NUL.                             *)
(***************************************************************************)
EXTENDS Integers, Sequences

CONSTANT cap

ASSUME CapAssumption == cap \in Nat

VARIABLES
  buf,   \* the characters in the buffer, without the NUL
  len,   \* o->len
  text   \* history: everything that was printed

outVars == <<buf, len, text>>

\* Mutant: the room left is computed without comparing, and wraps.
avail_wraps == (cap - len) % 65536

\* Room left, the NUL included; none once the text has been cut.
avail == IF len < cap THEN cap - len ELSE 0

\* vsnprintf(dst, avail, ...) of a piece s, and o->len += n.
out_printf(s) ==
  /\ buf' = IF avail = 0 THEN buf
            ELSE buf \o (IF Len(s) < avail THEN s ELSE SubSeq(s, 1, avail - 1))
  /\ len' = len + Len(s)
  /\ text' = text \o s

OutInit == buf = <<>> /\ len = 0 /\ text = <<>>

\* The pieces together are like one snprintf of the whole text: the buffer holds
\* as much of its beginning as fits, and len is its complete length ("snprintf
\* semantics: return the complete length excluding NUL", syscall_parser.h).
SnprintfSemantics ==
  /\ len = Len(text)
  /\ Len(buf) = IF len < cap THEN len ELSE IF cap = 0 THEN 0 ELSE cap - 1
  /\ \A i \in 1 .. Len(buf) : buf[i] = text[i]
=============================================================================
