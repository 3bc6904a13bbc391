------------------------------- MODULE Encoding -------------------------------
(***************************************************************************)
(* Encoded metadata (uds/buffer.c): a buffer is a sequence of fields, each *)
(* with its width in bytes.  What was put in the buffer is got back only   *)
(* by reading fields of the same widths in the same order.  The byte order *)
(* within a field is left out: every field is read with the order it was   *)
(* written with.                                                           *)
(***************************************************************************)
EXTENDS Integers, Sequences, FiniteSets, SequencesExt

u64(v) == [width |-> 8, value |-> v]
u32(v) == [width |-> 4, value |-> v]
u16(v) == [width |-> 2, value |-> v]
u8(v) == [width |-> 1, value |-> v]

fieldsOfWidth(buffer, width) == Cardinality({i \in DOMAIN buffer : buffer[i].width = width})

contentLength(buffer) ==
  fieldsOfWidth(buffer, 1) + 2 * fieldsOfWidth(buffer, 2) + 4 * fieldsOfWidth(buffer, 4) + 8 * fieldsOfWidth(buffer, 8)
    + 32 * fieldsOfWidth(buffer, 32)

(* What reading fields of these widths gets.                               *)
values(buffer, widths) ==
  [i \in DOMAIN widths |->
    IF i \in DOMAIN buffer /\ buffer[i].width = widths[i] THEN buffer[i].value ELSE "garbage"]

skipForward(buffer, fields) == SubSeq(buffer, fields + 1, Len(buffer))
=============================================================================
