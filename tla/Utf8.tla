-------------------------------- MODULE Utf8 --------------------------------
(***************************************************************************)
(* s_font_utf8_to_unicode of font.c, on bytes 0 .. 255, and the encoding   *)
(* that it is meant to undo.                                               *)
(***************************************************************************)
EXTENDS Integers, Sequences

Plane == 65536                 \* the characters of two bytes, and of an unsigned short

UShort(n) == n % Plane

Tail6(byte) == byte % 64                                   \* & 0x3F

\* The first byte alone says how many there are; the others are not looked at for
\* what they are, nor for a terminator.
Decode(at) ==
  CASE at[1] >= 240 -> [len |-> 4, code |-> UShort(((at[1] % 8) * 64 + Tail6(at[2])) * 4096
                                                     + Tail6(at[3]) * 64 + Tail6(at[4]))]
    [] at[1] \in 224 .. 239 -> [len |-> 3, code |-> UShort((at[1] % 16) * 4096
                                                     + Tail6(at[2]) * 64 + Tail6(at[3]))]
    [] at[1] \in 192 .. 223 -> [len |-> 2, code |-> (at[1] % 32) * 64 + Tail6(at[2])]
    [] OTHER -> [len |-> 1, code |-> at[1]]

\* The bytes of a character: UTF-8 as RFC 3629 has it.
Encode(char) ==
  LET Follow(n) == 128 + (n % 64)
  IN CASE char < 128 -> <<char>>
       [] char >= 128 /\ char < 2048 -> <<192 + char \div 64, Follow(char)>>
       [] char >= 2048 /\ char < Plane -> <<224 + char \div 4096, Follow(char \div 64), Follow(char)>>
       [] OTHER -> <<240 + (char \div 4096) \div 64, Follow(char \div 4096),
                     Follow(char \div 64), Follow(char)>>
=============================================================================
