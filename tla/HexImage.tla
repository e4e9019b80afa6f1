------------------------------ MODULE HexImage ------------------------------
(***************************************************************************)
(* SimMemory::load_hex_data, src/src/mem/simmem.cpp: from the text of a    *)
(* program to the bytes of a memory.                                       *)
(*                                                                         *)
(* A text is a sequence of tokens: an address (@ and a number), or a group *)
(* of hexadecimal digits.  NoDigit is any character that is not a digit in *)
(* upper case.  Texts stay inside the memory: the code writes past its end *)
(* unchecked.                                                              *)
(***************************************************************************)
EXTENDS Isa, Sequences

NoDigit == 16
Token == [at: Nat \cup {-1}, digits: Seq(0 .. NoDigit)]

IsAddress(token) == token.at # -1
IsByte(token)    == ~IsAddress(token) /\ Len(token.digits) \in {1, 2}

\* to_byte: a single digit is a byte with a leading zero.
ByteOf(digits) == IF Len(digits) = 1 THEN digits[1] ELSE 16 * digits[1] + digits[2]

NoImage == [a \in MemAddr |-> 0]

\* Mutant of ReadToken: a group that is not a byte takes the place of one.
ReadTokenShifts(s, token) ==
  IF s.failed THEN s
  ELSE IF IsAddress(token)
  THEN IF token.at < MemSize THEN [s EXCEPT !.mempos = token.at] ELSE [s EXCEPT !.failed = TRUE]
  ELSE IF ~IsByte(token) THEN [s EXCEPT !.mempos = @ + 1]
  ELSE IF \E k \in DOMAIN token.digits : token.digits[k] = NoDigit THEN [s EXCEPT !.failed = TRUE]
  ELSE [s EXCEPT !.mem[s.mempos] = ByteOf(token.digits), !.mempos = @ + 1]

\* Metadata, groups of other than one or two digits, is passed over.
ReadToken(s, token) ==
  IF s.failed THEN s
  ELSE IF IsAddress(token)
  THEN IF token.at < MemSize THEN [s EXCEPT !.mempos = token.at] ELSE [s EXCEPT !.failed = TRUE]
  ELSE IF ~IsByte(token) THEN s
  ELSE IF \E k \in DOMAIN token.digits : token.digits[k] = NoDigit THEN [s EXCEPT !.failed = TRUE]
  ELSE [s EXCEPT !.mem[s.mempos] = ByteOf(token.digits), !.mempos = @ + 1]

\* failed: an assertion ended the process.
LoadHexData(text) ==
  LET after[k \in 0 .. Len(text)] ==
        IF k = 0 THEN [mem |-> NoImage, mempos |-> 0, failed |-> FALSE]
        ELSE ReadToken(after[k - 1], text[k])
  IN  after[Len(text)]
============================================================================
