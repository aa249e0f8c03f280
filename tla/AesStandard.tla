---------------------------- MODULE AesStandard ----------------------------
(* AES-128 as the standard defines it (FIPS 197), against which the code's   *)
(* version in Aes is compared: the S-box is computed in the field GF(2^8),   *)
(* MixColumns is the product with its matrix, the key schedule goes word by  *)
(* word. What it shares with Aes is the addition of bytes, Xor, and the      *)
(* table of the S-box, which TablesStandard compares with its definition.    *)
EXTENDS Aes

(* The product in GF(2^8) modulo x^8 + x^4 + x^3 + x + 1. *)
XTime(x) == IF x < 128 THEN 2 * x ELSE Xor(2 * x - 256, 27)

Product(x, y) ==
  LET x2 == XTime(x)  x4 == XTime(x2)  x8 == XTime(x4)  x16 == XTime(x8)
      x32 == XTime(x16)  x64 == XTime(x32)  x128 == XTime(x64)
      Term(n, v) == IF (y \div n) % 2 = 1 THEN v ELSE 0
  IN  Xor(Xor3(Xor(Term(1, x), Term(2, x2)), Term(4, x4), Term(8, x8)),
          Xor3(Xor(Term(16, x16), Term(32, x32)), Term(64, x64), Term(128, x128)))

RotateLeft(x, n) == ((x * 2^n) % 256) + ((x * 2^n) \div 256)

(* The S-box maps x to an affine function of the inverse of x, of 0 for 0: *)
(* so the inverse of that function takes sbox(x) back to x's inverse.      *)
Unmapped(y) ==
  Xor(Xor3(RotateLeft(y, 1), RotateLeft(y, 3), RotateLeft(y, 6)), 5)

(* The tables of the code are the standard's. *)
TablesStandard ==
  \A x \in 0..255 :
     /\ IF x = 0 THEN Unmapped(sbox(x)) = 0
        ELSE Product(x, Unmapped(sbox(x))) = 1
     /\ rsbox(sbox(x)) = x

SubBytes(w) == <<>> \o [i \in 1..Len(w) |-> sbox(w[i])]

XorWords(v, w) == << Xor(v[1], w[1]), Xor(v[2], w[2]), Xor(v[3], w[3]),
                     Xor(v[4], w[4]) >>

(* The four words of round key r from those of round key r - 1: the first   *)
(* adds the rotated, substituted last word before it and a constant, each   *)
(* other one the new word before it.                                        *)
NextWords(w, constant) ==
  LET RotWord(v) == << v[2], v[3], v[4], v[1] >>
      w1 == XorWords(XorWords(w[1], SubBytes(RotWord(w[4]))),
                     << constant, 0, 0, 0 >>)
      w2 == XorWords(w[2], w1)
      w3 == XorWords(w[3], w2)
  IN  << w1, w2, w3, XorWords(w[4], w3) >>

(* The three other transformations of a block. *)
ShiftRows(s) ==
  <<>> \o [i \in 1..16 |-> s[1 + ((i - 1 + 4 * ((i - 1) % 4)) % 16)]]

MatrixColumn(v) ==
  LET Row(a, b, c, d) == Xor3(XTime(a), Xor(XTime(b), b), Xor(c, d))
  IN  << Row(v[1], v[2], v[3], v[4]), Row(v[2], v[3], v[4], v[1]),
         Row(v[3], v[4], v[1], v[2]), Row(v[4], v[1], v[2], v[3]) >>

MatrixColumns(s) ==
  MatrixColumn(SubSeq(s, 1, 4)) \o MatrixColumn(SubSeq(s, 5, 8))
    \o MatrixColumn(SubSeq(s, 9, 12)) \o MatrixColumn(SubSeq(s, 13, 16))

AddWords(s, k) ==
  <<>> \o [i \in 1..16 |->
             Xor(s[i], k[1 + ((i - 1) \div 4)][1 + ((i - 1) % 4)])]

(* From round r on, with the words of the round key before it. The constant *)
(* of a round is x to the power r - 1.                                      *)
Cipher(block, key) ==
  LET Round[r \in 1..10, s \in Seq(0..255), before \in Seq(Seq(0..255)),
            constant \in 0..255] ==
        LET w == NextWords(before, constant)
            t == ShiftRows(SubBytes(s))
        IN  IF r = 10 THEN AddWords(t, w)
            ELSE Round[r + 1, AddWords(MatrixColumns(t), w), w, XTime(constant)]
      w0 == << SubSeq(key, 1, 4), SubSeq(key, 5, 8),
               SubSeq(key, 9, 12), SubSeq(key, 13, 16) >>
  IN  Round[1, AddWords(block, w0), w0, 1]
=============================================================================
