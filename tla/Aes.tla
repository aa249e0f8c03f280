-------------------------------- MODULE Aes --------------------------------
(* AES-128 as WifiDriver/security.c computes it: the tables, the key        *)
(* schedule, and the two ciphers with the shortcuts of the code, where       *)
(* MixColumns is done with one doubling per byte and its inverse is the      *)
(* same MixColumns after a correction of the columns ("barreto").            *)
(*                                                                           *)
(* A block, a round key and a key are sequences of 16 bytes: element i + 1   *)
(* is state[i] of the code. Every operator builds its result as a tuple, so  *)
(* that TLC computes it once.                                                *)
EXTENDS Integers, Sequences

----------------------------------------------------------------------------
(* The ^ of the code on two bytes, a nibble at a time. *)

Differ(a, b, n) == IF ((a \div n) + (b \div n)) % 2 = 1 THEN n ELSE 0

Nibbles ==
  [a \in 0..15 |-> [b \in 0..15 |->
     Differ(a, b, 1) + Differ(a, b, 2) + Differ(a, b, 4) + Differ(a, b, 8)]]

Xor(x, y) == 16 * Nibbles[x \div 16][y \div 16] + Nibbles[x % 16][y % 16]

Xor3(x, y, z) == Xor(Xor(x, y), z)

(* The 16 bytes F(1), ..., F(16). *)
Block(F(_)) ==
  << F(1), F(2), F(3), F(4), F(5), F(6), F(7), F(8),
     F(9), F(10), F(11), F(12), F(13), F(14), F(15), F(16) >>

----------------------------------------------------------------------------
(* The tables. *)

sboxTable ==
  << 99, 124, 119, 123, 242, 107, 111, 197, 48, 1, 103, 43, 254, 215, 171, 118,
     202, 130, 201, 125, 250, 89, 71, 240, 173, 212, 162, 175, 156, 164, 114, 192,
     183, 253, 147, 38, 54, 63, 247, 204, 52, 165, 229, 241, 113, 216, 49, 21,
     4, 199, 35, 195, 24, 150, 5, 154, 7, 18, 128, 226, 235, 39, 178, 117,
     9, 131, 44, 26, 27, 110, 90, 160, 82, 59, 214, 179, 41, 227, 47, 132,
     83, 209, 0, 237, 32, 252, 177, 91, 106, 203, 190, 57, 74, 76, 88, 207,
     208, 239, 170, 251, 67, 77, 51, 133, 69, 249, 2, 127, 80, 60, 159, 168,
     81, 163, 64, 143, 146, 157, 56, 245, 188, 182, 218, 33, 16, 255, 243, 210,
     205, 12, 19, 236, 95, 151, 68, 23, 196, 167, 126, 61, 100, 93, 25, 115,
     96, 129, 79, 220, 34, 42, 144, 136, 70, 238, 184, 20, 222, 94, 11, 219,
     224, 50, 58, 10, 73, 6, 36, 92, 194, 211, 172, 98, 145, 149, 228, 121,
     231, 200, 55, 109, 141, 213, 78, 169, 108, 86, 244, 234, 101, 122, 174, 8,
     186, 120, 37, 46, 28, 166, 180, 198, 232, 221, 116, 31, 75, 189, 139, 138,
     112, 62, 181, 102, 72, 3, 246, 14, 97, 53, 87, 185, 134, 193, 29, 158,
     225, 248, 152, 17, 105, 217, 142, 148, 155, 30, 135, 233, 206, 85, 40, 223,
     140, 161, 137, 13, 191, 230, 66, 104, 65, 153, 45, 15, 176, 84, 187, 22 >>

rsboxTable ==
  << 82, 9, 106, 213, 48, 54, 165, 56, 191, 64, 163, 158, 129, 243, 215, 251,
     124, 227, 57, 130, 155, 47, 255, 135, 52, 142, 67, 68, 196, 222, 233, 203,
     84, 123, 148, 50, 166, 194, 35, 61, 238, 76, 149, 11, 66, 250, 195, 78,
     8, 46, 161, 102, 40, 217, 36, 178, 118, 91, 162, 73, 109, 139, 209, 37,
     114, 248, 246, 100, 134, 104, 152, 22, 212, 164, 92, 204, 93, 101, 182, 146,
     108, 112, 72, 80, 253, 237, 185, 218, 94, 21, 70, 87, 167, 141, 157, 132,
     144, 216, 171, 0, 140, 188, 211, 10, 247, 228, 88, 5, 184, 179, 69, 6,
     208, 44, 30, 143, 202, 63, 15, 2, 193, 175, 189, 3, 1, 19, 138, 107,
     58, 145, 17, 65, 79, 103, 220, 234, 151, 242, 207, 206, 240, 180, 230, 115,
     150, 172, 116, 34, 231, 173, 53, 133, 226, 249, 55, 232, 28, 117, 223, 110,
     71, 241, 26, 113, 29, 41, 197, 137, 111, 183, 98, 14, 170, 24, 190, 27,
     252, 86, 62, 75, 198, 210, 121, 32, 154, 219, 192, 254, 120, 205, 90, 244,
     31, 221, 168, 51, 136, 7, 199, 49, 177, 18, 16, 89, 39, 128, 236, 95,
     96, 81, 127, 169, 25, 181, 74, 13, 45, 229, 122, 159, 147, 201, 156, 239,
     160, 224, 59, 77, 174, 42, 245, 176, 200, 235, 187, 60, 131, 83, 153, 97,
     23, 43, 4, 126, 186, 119, 214, 38, 225, 105, 20, 99, 85, 33, 12, 125 >>

sbox(x) == sboxTable[x + 1]

rsbox(x) == rsboxTable[x + 1]

Rcon == << 1, 2, 4, 8, 16, 32, 64, 128, 27, 54 >>

(* Where the byte at i comes from when the rows are shifted, each row r of   *)
(* the column-major state by r places: the moves through buf1 and buf2.      *)
Shifted == << 1, 6, 11, 16, 5, 10, 15, 4, 9, 14, 3, 8, 13, 2, 7, 12 >>

ShiftedBack == << 1, 14, 11, 8, 5, 2, 15, 12, 9, 6, 3, 16, 13, 10, 7, 4 >>

----------------------------------------------------------------------------
(* The key schedule: expandedKey[ii * 16 ..] from the 16 bytes before it.    *)

NextRoundKey(k, ii) ==
  LET first == << Xor3(sbox(k[14]), k[1], Rcon[ii]), Xor(sbox(k[15]), k[2]),
                  Xor(sbox(k[16]), k[3]), Xor(sbox(k[13]), k[4]) >>
      Next4(w, j) == << Xor(k[j], w[1]), Xor(k[j + 1], w[2]),
                        Xor(k[j + 2], w[3]), Xor(k[j + 3], w[4]) >>
      second == Next4(first, 5)
      third  == Next4(second, 9)
      fourth == Next4(third, 13)
  IN  first \o second \o third \o fourth

(* expandedKey as the sequence of its eleven round keys. *)
expandKey(key) ==
  LET Grown[ks \in Seq(Seq(0..255))] ==
        IF Len(ks) = 11 THEN ks
        ELSE Grown[Append(ks, NextRoundKey(ks[Len(ks)], Len(ks)))]
  IN  Grown[<< key >>]

----------------------------------------------------------------------------
(* One round and its parts. *)

AddRoundKey(s, k) == Block(LAMBDA i : Xor(s[i], k[i]))

\* Mutant: the bit that is shifted out is not folded back.
galois_mul2_unreduced(value) == (2 * value) % 256

(* value is an unsigned char: the shift drops its highest bit. *)
galois_mul2(value) ==
  IF value \div 128 > 0 THEN Xor((2 * value) % 256, 27) ELSE 2 * value

(* buf1 is the sum of the column before any byte of it is replaced, buf2 its *)
(* first byte, which the last line needs after state[c] was overwritten.     *)
MixColumn(a, b, c, d) ==
  LET buf1 == Xor3(a, b, Xor(c, d))
      Mixed(x, y) == Xor3(x, galois_mul2(Xor(x, y)), buf1)
  IN  << Mixed(a, b), Mixed(b, c), Mixed(c, d), Mixed(d, a) >>

MixColumns(s) ==
  MixColumn(s[1], s[2], s[3], s[4]) \o MixColumn(s[5], s[6], s[7], s[8])
    \o MixColumn(s[9], s[10], s[11], s[12])
    \o MixColumn(s[13], s[14], s[15], s[16])

SubShift(s, k) ==
  Block(LAMBDA i : sbox(Xor(s[Shifted[i]], k[Shifted[i]])))

ShiftSub(s, k) ==
  Block(LAMBDA i : Xor(rsbox(s[ShiftedBack[i]]), k[i]))

(* buf1 of the bytes 0 and 2 of a column, buf2 of its bytes 1 and 3. *)
Barreto(s) ==
  LET Twice(x, y) == galois_mul2(galois_mul2(Xor(x, y)))
      Other(i) == IF (i - 1) % 4 < 2 THEN i + 2 ELSE i - 2
  IN  Block(LAMBDA i : Xor(s[i], Twice(s[i], s[Other(i)])))

----------------------------------------------------------------------------
(* The ciphers. ks[r] is the round key at expandedKey[(r - 1) * 16]; Round   *)
(* does the rounds from r on. Its block is an argument, which TLC computes   *)
(* before it goes on to the next round.                                      *)

aes_encr(state, ks) ==
  LET Round[r \in 1..10, s \in Seq(0..255)] ==
        IF r = 10 THEN AddRoundKey(SubShift(s, ks[10]), ks[11])
        ELSE Round[r + 1, MixColumns(SubShift(s, ks[r]))]
  IN  Round[1, state]

aes_decr(state, ks) ==
  LET Round[r \in 0..9, s \in Seq(0..255)] ==
        IF r = 0 THEN s
        ELSE Round[r - 1, ShiftSub(MixColumns(Barreto(s)), ks[r])]
  IN  Round[9, ShiftSub(AddRoundKey(state, ks[11]), ks[10])]

aes_encrypt(state, key) == aes_encr(state, expandKey(key))

aes_decrypt(state, key) == aes_decr(state, expandKey(key))
=============================================================================
