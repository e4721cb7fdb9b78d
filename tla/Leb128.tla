-------------------------------- MODULE Leb128 --------------------------------
(***************************************************************************)
(* The number codecs of Candid (candid/src/utils/leb128.ts) over the       *)
(* reading side of PipeArrayBuffer (candid/src/utils/buffer.ts).           *)
(*                                                                         *)
(* A pipe is a record whose field bytes is the reading view: the sequence  *)
(* of bytes not read yet.  Other fields of the record belong to the        *)
(* decoder that reads from the pipe, and are left alone here.  Every       *)
(* reader returns an outcome: a value and the pipe after the read, or a    *)
(* throw, which keeps the pipe as it was when the code threw.              *)
(***************************************************************************)
EXTENDS Integers, Sequences, SequencesExt

Ok(v, p) == [ok |-> TRUE, v |-> v, p |-> p]
Throw(p) == [ok |-> FALSE, v |-> <<>>, p |-> p]

(* The rest of a function body, run on what its last call returned.        *)
Then(r, Rest(_, _)) == IF r.ok THEN Rest(r.v, r.p) ELSE r

-----------------------------------------------------------------------------
(* PipeArrayBuffer.read: short when fewer bytes are left, never an error.  *)
read(p, n) ==
  LET k == IF n > Len(p.bytes) THEN Len(p.bytes) ELSE n
  IN  Ok(SubSeq(p.bytes, 1, k), [p EXCEPT !.bytes = SubSeq(@, k + 1, Len(@))])

(* Mutant: the length is not checked.                                      *)
UnsafeRead(p, n) == read(p, n)

safeRead(p, n) == IF Len(p.bytes) < n THEN Throw(p) ELSE read(p, n)

safeReadUint8(p) ==
  IF p.bytes = <<>> THEN Throw(p)
  ELSE Ok(Head(p.bytes), [p EXCEPT !.bytes = Tail(@)])

save(p) == p.bytes
restore(p, checkpoint) == [p EXCEPT !.bytes = checkpoint]

-----------------------------------------------------------------------------
(* The number whose digits these are, the lowest first; high[k] is the     *)
(* number made of the k highest.                                           *)
LittleEndian(digits, base) ==
  LET n == Len(digits)
      high[k \in 0..n] ==
        IF k = 0 THEN 0 ELSE digits[n - k + 1] + base * high[k - 1]
  IN  high[n]

lebEncode[value \in Nat] ==
  IF value < 128 THEN <<value>>
  ELSE <<(value % 128) + 128>> \o lebEncode[value \div 128]

(* The bytes of a LEB128 number at the front of the pipe, 0 if it never    *)
(* ends.                                                                   *)
LebLength(bytes) == SelectInSeq(bytes, LAMBDA b : b < 128)

lebDecode(p) ==
  LET n == LebLength(p.bytes)
  IN  IF n = 0 THEN Throw([p EXCEPT !.bytes = <<>>])
      ELSE Ok(LittleEndian([i \in 1..n |-> p.bytes[i] % 128], 128),
              [p EXCEPT !.bytes = SubSeq(@, n + 1, Len(@))])

(* The low seven bits of a magnitude; those of a negative number are       *)
(* complemented.                                                           *)
getLowerBytes(value, isNeg) == IF isNeg THEN 127 - (value % 128) ELSE value % 128

(* Mutant: the number ends with its last seven bits, whatever its sign bit *)
(* says.                                                                   *)
SlebBytesAnySign(isNeg) ==
  LET bytes[value \in Nat] ==
        LET i == getLowerBytes(value, isNeg)
        IN  IF value < 128 THEN <<i>> ELSE <<i + 128>> \o bytes[value \div 128]
  IN  bytes

(* The bytes of the magnitude of a signed number; the last one must show   *)
(* the sign in bit 0x40.                                                   *)
SlebBytes(isNeg) ==
  LET bytes[value \in Nat] ==
        LET i    == getLowerBytes(value, isNeg)
            rest == value \div 128
        IN  IF rest = 0 /\ (i >= 64) = isNeg THEN <<i>>
            ELSE <<i + 128>> \o bytes[rest]
  IN  bytes

slebEncode(value) == IF value < 0 THEN SlebBytes(TRUE)[-value - 1] ELSE SlebBytes(FALSE)[value]

slebDecode(p) ==
  LET n == LebLength(p.bytes)
      complement == LittleEndian([i \in 1..n |-> 127 - (p.bytes[i] % 128)], 128)
  IN  IF n = 0 THEN Throw(p)
      ELSE IF p.bytes[n] < 64 THEN lebDecode(p)
      ELSE Ok(-complement - 1, [p EXCEPT !.bytes = SubSeq(@, n + 1, Len(@))])

-----------------------------------------------------------------------------
(* Division and remainder of BigInt round towards zero.                    *)
Quotient(a, b) == IF a < 0 THEN -((-a) \div b) ELSE a \div b
Remainder(a, b) == a - (b * Quotient(a, b))

(* The loop of writeIntLE: after the first byte that is not 0, a negative  *)
(* number borrows one from every higher byte.  quot is the number divided  *)
(* by mul, which is done 256 at a time.                                    *)
writeIntLE(value, byteLength) ==
  LET step[i \in 0..(byteLength - 1)] ==
        IF i = 0 THEN [quot |-> value, sub |-> 0, byte |-> Remainder(value, 256)]
        ELSE LET last == step[i - 1]
                 quot == Quotient(last.quot, 256)
                 sub  == IF value < 0 /\ last.sub = 0 /\ last.byte # 0 THEN 1 ELSE last.sub
             IN  [quot |-> quot, sub |-> sub, byte |-> Remainder(quot - sub, 256)]
  IN  [i \in 1..byteLength |-> step[i - 1].byte % 256]

(* It reads byte by byte, so that a short pipe is empty when it throws.    *)
readUIntLE(p, byteLength) ==
  IF Len(p.bytes) < byteLength THEN Throw([p EXCEPT !.bytes = <<>>])
  ELSE Then(read(p, byteLength), LAMBDA bytes, q : Ok(LittleEndian(bytes, 256), q))

(* Mutant: the sign is forgotten.                                          *)
ReadUnsigned(p, byteLength) == readUIntLE(p, byteLength)

(* 256 to the power of n.                                                  *)
Power256[n \in Nat] == IF n = 0 THEN 1 ELSE 256 * Power256[n - 1]

readIntLE(p, byteLength) ==
  LET mul == 128 * Power256[byteLength - 1]
  IN  Then(readUIntLE(p, byteLength),
           LAMBDA val, q : Ok(IF val >= mul THEN val - (2 * mul) ELSE val, q))
=============================================================================
