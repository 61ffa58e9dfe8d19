----------------------------- MODULE ByteFile -----------------------------
(***************************************************************************)
(* What a file promises to the program that has it open: an array of bytes *)
(* that a write changes at once and a read returns.                        *)
(***************************************************************************)
EXTENDS Integers, Sequences

CONSTANTS Files, BlockSize, MaxSize, MaxRequest, Data

VARIABLES
  bytes,   \* the contents of each file
  reply    \* what the last request returned

byteVars == <<bytes, reply>>

(* s with n bytes d from offset off on; a gap before off is filled with 0. *)
Overwrite(s, off, n, d) ==
  [i \in 1 .. (IF off + n > Len(s) THEN off + n ELSE Len(s)) |->
     IF i > off /\ i <= off + n THEN d
     ELSE IF i <= Len(s) THEN s[i] ELSE 0]

Resize(s, len) == [i \in 1 .. len |-> IF i <= Len(s) THEN s[i] ELSE 0]

(* A block's worth of bytes is lost.                                       *)
Without(s, b) ==
  [i \in 1 .. Len(s) |-> IF (i - 1) \div BlockSize = b THEN 0 ELSE s[i]]

(* What one request may make of the contents s: a write; what there was    *)
(* space for of it, the length as before; a truncation; the loss of the    *)
(* block written last, when the file is closed and there is no space.      *)
Outcome(s, t) ==
  \/ \E len \in 0 .. MaxSize : t = Resize(s, len)
  \/ \E off \in 0 .. MaxSize, d \in Data, n \in 1 .. MaxRequest :
       t \in {Overwrite(s, off, n, d), Resize(Overwrite(s, off, n, d), Len(s))}
  \/ \E b \in 0 .. (MaxSize \div BlockSize) : t = Without(s, b)

Change(f) ==
  /\ reply' = <<>>
  /\ \E s \in {bytes[f]}, t \in {bytes'[f]} :
       Outcome(s, t) /\ bytes' = [bytes EXCEPT ![f] = t]

Slice(s, off, n) == SubSeq(s, off + 1, IF off + n < Len(s) THEN off + n ELSE Len(s))

Read(f) ==
  /\ bytes' = bytes
  /\ \E s \in {bytes[f]}, off \in 0 .. MaxSize, n \in 0 .. MaxRequest :
       reply' = Slice(s, off, n)

ByteInit == bytes = [f \in Files |-> <<>>] /\ reply = <<>>

ByteNext == \E f \in Files : Read(f) \/ Change(f)

ByteSpec == ByteInit /\ [][ByteNext]_byteVars
=============================================================================
