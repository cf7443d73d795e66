---------------------------- MODULE JtagMockProofs ----------------------------
(***************************************************************************)
(* Proofs about the simulated target: how the bits of the container and    *)
(* the fields the debug module sees relate, and what every command of the  *)
(* remote_bitbang protocol keeps.                                          *)
(***************************************************************************)
EXTENDS JtagMock, JtagDtmProofs, DebugModuleProofs

(***************************************************************************)
(* Numbers and their bits.                                                 *)
(***************************************************************************)

\* Four bits are a number below 16, and it has these bits.
LEMMA FourBits ==
    ASSUME NEW a \in Bit, NEW b \in Bit, NEW c \in Bit, NEW d \in Bit,
           NEW n, n = a + 2 * b + 4 * c + 8 * d
    PROVE  /\ n \in 0..15
           /\ BitOf(n, 0) = a /\ BitOf(n, 1) = b
           /\ BitOf(n, 2) = c /\ BitOf(n, 3) = d
  BY DEF Bit, BitOf

\* The last four bits of a number are those of its last hexadecimal digit, and
\* the ones before are those of the digits before it.
LEMMA BitsOfDigits ==
    ASSUME NEW n \in Nat
    PROVE  /\ BitOf(n, 0) = BitOf(n % 16, 0) /\ BitOf(n, 1) = BitOf(n % 16, 1)
           /\ BitOf(n, 2) = BitOf(n % 16, 2) /\ BitOf(n, 3) = BitOf(n % 16, 3)
           /\ BitOf(n, 4) = BitOf(n \div 16, 0)
           /\ BitOf(n, 5) = BitOf(n \div 16, 1)
           /\ BitOf(n, 6) = BitOf(n \div 16, 2)
           /\ BitOf(n, 7) = BitOf(n \div 16, 3)
           /\ BitOf(n, 8) = BitOf(n \div 16, 4)
           /\ BitOf(n, 9) = BitOf(n \div 16, 5)
           /\ BitOf(n, 10) = BitOf(n \div 16, 6)
           /\ BitOf(n, 11) = BitOf(n \div 16, 7)
           /\ BitOf(n, 12) = BitOf(n \div 16, 8)
           /\ BitOf(n, 13) = BitOf(n \div 16, 9)
           /\ BitOf(n, 14) = BitOf(n \div 16, 10)
           /\ BitOf(n, 15) = BitOf(n \div 16, 11)
  <1>1. PICK d \in 0..15, m \in Nat :
            n = 16 * m + d /\ n % 16 = d /\ n \div 16 = m
    <2>1. n % 16 \in 0..15 /\ n \div 16 \in Nat
          /\ n = 16 * (n \div 16) + (n % 16)
      OBVIOUS
    <2> QED
      BY <2>1
  <1>2. BitOf(n, 0) = BitOf(d, 0) BY <1>1 DEF BitOf
  <1>3. BitOf(n, 1) = BitOf(d, 1) BY <1>1 DEF BitOf
  <1>4. BitOf(n, 2) = BitOf(d, 2) BY <1>1 DEF BitOf
  <1>5. BitOf(n, 3) = BitOf(d, 3) BY <1>1 DEF BitOf
  <1>6. BitOf(n, 4) = BitOf(m, 0)
    <2>1. m \div 1 = m
      OBVIOUS
    <2> QED
      BY <1>1, <2>1 DEF BitOf
  <1>7. BitOf(n, 5) = BitOf(m, 1)
    <2>1. n \div 32 = m \div 2
      BY <1>1
    <2> QED
      BY <2>1 DEF BitOf
  <1>8. BitOf(n, 6) = BitOf(m, 2)
    <2>1. n \div 64 = m \div 4
      BY <1>1
    <2> QED
      BY <2>1 DEF BitOf
  <1>9. BitOf(n, 7) = BitOf(m, 3)
    <2>1. n \div 128 = m \div 8
      BY <1>1
    <2> QED
      BY <2>1 DEF BitOf
  <1>10. BitOf(n, 8) = BitOf(m, 4)
    <2>1. n \div 256 = m \div 16
      BY <1>1
    <2> QED
      BY <2>1 DEF BitOf
  <1>11. BitOf(n, 9) = BitOf(m, 5)
    <2>1. n \div 512 = m \div 32
      BY <1>1
    <2> QED
      BY <2>1 DEF BitOf
  <1>12. BitOf(n, 10) = BitOf(m, 6)
    <2>1. n \div 1024 = m \div 64
      BY <1>1
    <2> QED
      BY <2>1 DEF BitOf
  <1>13. BitOf(n, 11) = BitOf(m, 7)
    <2>1. n \div 2048 = m \div 128
      BY <1>1
    <2> QED
      BY <2>1 DEF BitOf
  <1>14. BitOf(n, 12) = BitOf(m, 8)
    <2>1. n \div 4096 = m \div 256
      BY <1>1
    <2> QED
      BY <2>1 DEF BitOf
  <1>15. BitOf(n, 13) = BitOf(m, 9)
    <2>1. n \div 8192 = m \div 512
      BY <1>1
    <2> QED
      BY <2>1 DEF BitOf
  <1>16. BitOf(n, 14) = BitOf(m, 10)
    <2>1. n \div 16384 = m \div 1024
      BY <1>1
    <2> QED
      BY <2>1 DEF BitOf
  <1>17. BitOf(n, 15) = BitOf(m, 11)
    <2>1. n \div 32768 = m \div 2048
      BY <1>1
    <2> QED
      BY <2>1 DEF BitOf
  <1> QED
    BY <1>1, <1>2, <1>3, <1>4, <1>5, <1>6, <1>7, <1>8, <1>9, <1>10, <1>11,
       <1>12, <1>13, <1>14, <1>15, <1>16, <1>17

\* Four places of a word.
LEMMA NibbleBits ==
    ASSUME NEW word, NEW f \in Nat,
           word[f] \in Bit, word[f + 1] \in Bit, word[f + 2] \in Bit,
           word[f + 3] \in Bit
    PROVE  /\ Nibble(word, f) \in 0..15
           /\ BitOf(Nibble(word, f), 0) = word[f]
           /\ BitOf(Nibble(word, f), 1) = word[f + 1]
           /\ BitOf(Nibble(word, f), 2) = word[f + 2]
           /\ BitOf(Nibble(word, f), 3) = word[f + 3]
  <1>1. PICK a \in Bit, b \in Bit, c \in Bit, d \in Bit :
            /\ a = word[f] /\ b = word[f + 1]
            /\ c = word[f + 2] /\ d = word[f + 3]
    OBVIOUS
  <1>2. Nibble(word, f) = a + 2 * b + 4 * c + 8 * d
    BY <1>1 DEF Nibble
  <1> QED
    BY <1>1, <1>2, FourBits

\* Every bit of a word is one.
LEMMA BitsOfWord ==
    ASSUME NEW word \in Word(41), NEW i \in Nat, 1 <= i, i <= 41
    PROVE  word[i] \in Bit
  BY DEF Word

\* Sixteen places of a word.
LEMMA HalfAtBits ==
    ASSUME NEW word \in Word(41), NEW f \in {3, 19}
    PROVE  LET n == HalfAt(word, f) IN
           /\ n \in Nat /\ n < 65536
           /\ BitOf(n, 0) = word[f]       /\ BitOf(n, 1) = word[f + 1]
           /\ BitOf(n, 2) = word[f + 2]   /\ BitOf(n, 3) = word[f + 3]
           /\ BitOf(n, 4) = word[f + 4]   /\ BitOf(n, 5) = word[f + 5]
           /\ BitOf(n, 6) = word[f + 6]   /\ BitOf(n, 7) = word[f + 7]
           /\ BitOf(n, 8) = word[f + 8]   /\ BitOf(n, 9) = word[f + 9]
           /\ BitOf(n, 10) = word[f + 10] /\ BitOf(n, 11) = word[f + 11]
           /\ BitOf(n, 12) = word[f + 12] /\ BitOf(n, 13) = word[f + 13]
           /\ BitOf(n, 14) = word[f + 14] /\ BitOf(n, 15) = word[f + 15]
  <1>1. ASSUME NEW g \in Nat, 1 <= g, g + 3 <= 41
        PROVE  /\ Nibble(word, g) \in 0..15
               /\ BitOf(Nibble(word, g), 0) = word[g]
               /\ BitOf(Nibble(word, g), 1) = word[g + 1]
               /\ BitOf(Nibble(word, g), 2) = word[g + 2]
               /\ BitOf(Nibble(word, g), 3) = word[g + 3]
    <2>1. /\ word[g] \in Bit /\ word[g + 1] \in Bit
          /\ word[g + 2] \in Bit /\ word[g + 3] \in Bit
      BY <1>1, BitsOfWord
    <2> QED
      BY <2>1, NibbleBits
  <1>2. PICK a \in 0..15 :
            /\ a = Nibble(word, f)
            /\ BitOf(a, 0) = word[f] /\ BitOf(a, 1) = word[f + 1]
            /\ BitOf(a, 2) = word[f + 2] /\ BitOf(a, 3) = word[f + 3]
    BY <1>1
  <1>3. PICK b \in 0..15 :
            /\ b = Nibble(word, f + 4)
            /\ BitOf(b, 0) = word[f + 4] /\ BitOf(b, 1) = word[f + 5]
            /\ BitOf(b, 2) = word[f + 6] /\ BitOf(b, 3) = word[f + 7]
    BY <1>1
  <1>4. PICK c \in 0..15 :
            /\ c = Nibble(word, f + 8)
            /\ BitOf(c, 0) = word[f + 8] /\ BitOf(c, 1) = word[f + 9]
            /\ BitOf(c, 2) = word[f + 10] /\ BitOf(c, 3) = word[f + 11]
    BY <1>1
  <1>5. PICK d \in 0..15 :
            /\ d = Nibble(word, f + 12)
            /\ BitOf(d, 0) = word[f + 12] /\ BitOf(d, 1) = word[f + 13]
            /\ BitOf(d, 2) = word[f + 14] /\ BitOf(d, 3) = word[f + 15]
    BY <1>1
  <1>6. HalfAt(word, f) = a + 16 * b + 256 * c + 4096 * d
    BY <1>2, <1>3, <1>4, <1>5 DEF HalfAt
  <1> DEFINE n == HalfAt(word, f)
  <1>7. n = a + 16 * b + 256 * c + 4096 * d
    BY <1>6
  <1> HIDE DEF n
  <1>8. n \in Nat /\ n < 65536
    BY <1>7
  <1>9. PICK m \in Nat : m = b + 16 * c + 256 * d
    OBVIOUS
  <1>10. PICK p \in Nat : p = c + 16 * d
    OBVIOUS
  <1>11. /\ n % 16 = a /\ n \div 16 = m
         /\ m % 16 = b /\ m \div 16 = p
         /\ p % 16 = c /\ p \div 16 = d
         /\ d % 16 = d
    BY <1>7, <1>9, <1>10
  <1>12. /\ BitOf(n, 0) = BitOf(a, 0) /\ BitOf(n, 1) = BitOf(a, 1)
         /\ BitOf(n, 2) = BitOf(a, 2) /\ BitOf(n, 3) = BitOf(a, 3)
         /\ BitOf(n, 4) = BitOf(m, 0) /\ BitOf(n, 5) = BitOf(m, 1)
         /\ BitOf(n, 6) = BitOf(m, 2) /\ BitOf(n, 7) = BitOf(m, 3)
         /\ BitOf(n, 8) = BitOf(m, 4) /\ BitOf(n, 9) = BitOf(m, 5)
         /\ BitOf(n, 10) = BitOf(m, 6) /\ BitOf(n, 11) = BitOf(m, 7)
         /\ BitOf(n, 12) = BitOf(m, 8) /\ BitOf(n, 13) = BitOf(m, 9)
         /\ BitOf(n, 14) = BitOf(m, 10) /\ BitOf(n, 15) = BitOf(m, 11)
    BY <1>8, <1>11, BitsOfDigits
  <1>13. /\ BitOf(m, 0) = BitOf(b, 0) /\ BitOf(m, 1) = BitOf(b, 1)
         /\ BitOf(m, 2) = BitOf(b, 2) /\ BitOf(m, 3) = BitOf(b, 3)
         /\ BitOf(m, 4) = BitOf(p, 0) /\ BitOf(m, 5) = BitOf(p, 1)
         /\ BitOf(m, 6) = BitOf(p, 2) /\ BitOf(m, 7) = BitOf(p, 3)
         /\ BitOf(m, 8) = BitOf(p, 4) /\ BitOf(m, 9) = BitOf(p, 5)
         /\ BitOf(m, 10) = BitOf(p, 6) /\ BitOf(m, 11) = BitOf(p, 7)
    BY <1>11, BitsOfDigits
  <1>14. /\ BitOf(p, 0) = BitOf(c, 0) /\ BitOf(p, 1) = BitOf(c, 1)
         /\ BitOf(p, 2) = BitOf(c, 2) /\ BitOf(p, 3) = BitOf(c, 3)
         /\ BitOf(p, 4) = BitOf(d, 0) /\ BitOf(p, 5) = BitOf(d, 1)
         /\ BitOf(p, 6) = BitOf(d, 2) /\ BitOf(p, 7) = BitOf(d, 3)
    BY <1>11, BitsOfDigits
  <1> QED
    BY <1>2, <1>3, <1>4, <1>5, <1>8, <1>12, <1>13, <1>14 DEF n

(***************************************************************************)
(* The container's bits and its fields.                                    *)
(***************************************************************************)

\* The fields of a word, and their bits.
LEMMA DecodeBits ==
    ASSUME NEW word \in Word(41)
    PROVE  /\ Decode(word) \in Requests
           /\ \A k \in 0..1 : BitOf(Decode(word).op, k) = word[k + 1]
           /\ \A k \in 0..15 : BitOf(Decode(word).data.lo, k) = word[k + 3]
           /\ \A k \in 0..15 : BitOf(Decode(word).data.hi, k) = word[k + 19]
           /\ \A k \in 0..6 : BitOf(Decode(word).address, k) = word[k + 35]
  <1>1. /\ word[1] \in Bit /\ word[2] \in Bit
        /\ word[35] \in Bit /\ word[36] \in Bit
        /\ word[37] \in Bit /\ word[38] \in Bit
        /\ word[39] \in Bit /\ word[40] \in Bit /\ word[41] \in Bit
    BY BitsOfWord
  <1>2. PICK op \in 0..3 : /\ op = Decode(word).op
                           /\ BitOf(op, 0) = word[1] /\ BitOf(op, 1) = word[2]
    <2>1. PICK a \in Bit, b \in Bit : a = word[1] /\ b = word[2]
      BY <1>1
    <2>2. a + 2 * b \in 0..3 /\ BitOf(a + 2 * b, 0) = a
          /\ BitOf(a + 2 * b, 1) = b
      BY DEF Bit, BitOf
    <2> QED
      BY <2>1, <2>2 DEF Decode
  <1>3. PICK address \in 0..127 :
            /\ address = Decode(word).address
            /\ BitOf(address, 0) = word[35] /\ BitOf(address, 1) = word[36]
            /\ BitOf(address, 2) = word[37] /\ BitOf(address, 3) = word[38]
            /\ BitOf(address, 4) = word[39] /\ BitOf(address, 5) = word[40]
            /\ BitOf(address, 6) = word[41]
    <2>1. PICK d \in 0..15 :
              /\ d = Nibble(word, 35)
              /\ BitOf(d, 0) = word[35] /\ BitOf(d, 1) = word[36]
              /\ BitOf(d, 2) = word[37] /\ BitOf(d, 3) = word[38]
      <3>1. /\ Nibble(word, 35) \in 0..15
            /\ BitOf(Nibble(word, 35), 0) = word[35]
            /\ BitOf(Nibble(word, 35), 1) = word[35 + 1]
            /\ BitOf(Nibble(word, 35), 2) = word[35 + 2]
            /\ BitOf(Nibble(word, 35), 3) = word[35 + 3]
        BY <1>1, NibbleBits
      <3> QED
        BY <3>1
    <2>2. PICK m \in 0..7 :
              /\ m = word[39] + 2 * word[40] + 4 * word[41]
              /\ BitOf(m, 0) = word[39] /\ BitOf(m, 1) = word[40]
              /\ BitOf(m, 2) = word[41]
      <3>1. PICK a \in Bit, b \in Bit, c \in Bit :
                a = word[39] /\ b = word[40] /\ c = word[41]
        BY <1>1
      <3>2. /\ a + 2 * b + 4 * c \in 0..7
            /\ BitOf(a + 2 * b + 4 * c, 0) = a
            /\ BitOf(a + 2 * b + 4 * c, 1) = b
            /\ BitOf(a + 2 * b + 4 * c, 2) = c
        BY DEF Bit, BitOf
      <3> QED
        BY <3>1, <3>2
    <2>3. PICK n \in Nat : n = d + 16 * m
      OBVIOUS
    <2>4. n % 16 = d /\ n \div 16 = m /\ n <= 127
      BY <2>3
    <2>5. /\ BitOf(n, 0) = BitOf(d, 0) /\ BitOf(n, 1) = BitOf(d, 1)
          /\ BitOf(n, 2) = BitOf(d, 2) /\ BitOf(n, 3) = BitOf(d, 3)
          /\ BitOf(n, 4) = BitOf(m, 0) /\ BitOf(n, 5) = BitOf(m, 1)
          /\ BitOf(n, 6) = BitOf(m, 2)
      BY <2>4, BitsOfDigits
    <2>6. n = Decode(word).address
      BY <2>1, <2>2, <2>3 DEF Decode
    <2>7. /\ BitOf(n, 0) = word[35] /\ BitOf(n, 1) = word[36]
          /\ BitOf(n, 2) = word[37] /\ BitOf(n, 3) = word[38]
          /\ BitOf(n, 4) = word[39] /\ BitOf(n, 5) = word[40]
          /\ BitOf(n, 6) = word[41]
      BY <2>1, <2>2, <2>5
    <2>8. n \in 0..127
      BY <2>4
    <2> QED
      BY <2>6, <2>7, <2>8, Zenon
  <1>4. PICK lo \in Nat :
            /\ lo < 65536 /\ lo = Decode(word).data.lo
            /\ \A k \in 0..15 : BitOf(lo, k) = word[k + 3]
    <2>1. PICK n : n = HalfAt(word, 3)
      OBVIOUS
    <2>2. /\ n \in Nat /\ n < 65536
          /\ BitOf(n, 0) = word[3]   /\ BitOf(n, 1) = word[4]
          /\ BitOf(n, 2) = word[5]   /\ BitOf(n, 3) = word[6]
          /\ BitOf(n, 4) = word[7]   /\ BitOf(n, 5) = word[8]
          /\ BitOf(n, 6) = word[9]   /\ BitOf(n, 7) = word[10]
          /\ BitOf(n, 8) = word[11]  /\ BitOf(n, 9) = word[12]
          /\ BitOf(n, 10) = word[13] /\ BitOf(n, 11) = word[14]
          /\ BitOf(n, 12) = word[15] /\ BitOf(n, 13) = word[16]
          /\ BitOf(n, 14) = word[17] /\ BitOf(n, 15) = word[18]
      BY <2>1, HalfAtBits
    <2> QED
      BY <2>1, <2>2 DEF Decode, W
  <1>5. PICK hi \in Nat :
            /\ hi < 65536 /\ hi = Decode(word).data.hi
            /\ \A k \in 0..15 : BitOf(hi, k) = word[k + 19]
    <2>1. PICK n : n = HalfAt(word, 19)
      OBVIOUS
    <2>2. /\ n \in Nat /\ n < 65536
          /\ BitOf(n, 0) = word[19]  /\ BitOf(n, 1) = word[20]
          /\ BitOf(n, 2) = word[21]  /\ BitOf(n, 3) = word[22]
          /\ BitOf(n, 4) = word[23]  /\ BitOf(n, 5) = word[24]
          /\ BitOf(n, 6) = word[25]  /\ BitOf(n, 7) = word[26]
          /\ BitOf(n, 8) = word[27]  /\ BitOf(n, 9) = word[28]
          /\ BitOf(n, 10) = word[29] /\ BitOf(n, 11) = word[30]
          /\ BitOf(n, 12) = word[31] /\ BitOf(n, 13) = word[32]
          /\ BitOf(n, 14) = word[33] /\ BitOf(n, 15) = word[34]
      BY <2>1, HalfAtBits
    <2> QED
      BY <2>1, <2>2 DEF Decode, W
  <1>6. Decode(word) = [op |-> op, data |-> W(hi, lo), address |-> address]
    BY <1>2, <1>3, <1>4, <1>5 DEF Decode, W
  <1>7. Decode(word) \in Requests
    <2>1. W(hi, lo) \in Words
      BY <1>4, <1>5, HalvesAreWord
    <2> QED
      BY <1>6, <2>1 DEF Requests
  <1>8. \A k \in 0..1 : BitOf(Decode(word).op, k) = word[k + 1]
    BY <1>2
  <1>9. \A k \in 0..6 : BitOf(Decode(word).address, k) = word[k + 35]
    BY <1>3
  <1> QED
    BY <1>4, <1>5, <1>7, <1>8, <1>9

\* A bit is a bit.
LEMMA BitType ==
    ASSUME NEW n \in Nat, NEW k \in 0..15
    PROVE  BitOf(n, k) \in Bit
  <1>1. BitOf(n, 0) \in {0, 1} BY DEF BitOf
  <1>2. BitOf(n, 1) \in {0, 1} BY DEF BitOf
  <1>3. BitOf(n, 2) \in {0, 1} BY DEF BitOf
  <1>4. BitOf(n, 3) \in {0, 1} BY DEF BitOf
  <1>5. BitOf(n, 4) \in {0, 1} BY DEF BitOf
  <1>6. BitOf(n, 5) \in {0, 1} BY DEF BitOf
  <1>7. BitOf(n, 6) \in {0, 1} BY DEF BitOf
  <1>8. BitOf(n, 7) \in {0, 1} BY DEF BitOf
  <1>9. BitOf(n, 8) \in {0, 1} BY DEF BitOf
  <1>10. BitOf(n, 9) \in {0, 1} BY DEF BitOf
  <1>11. BitOf(n, 10) \in {0, 1} BY DEF BitOf
  <1>12. BitOf(n, 11) \in {0, 1} BY DEF BitOf
  <1>13. BitOf(n, 12) \in {0, 1} BY DEF BitOf
  <1>14. BitOf(n, 13) \in {0, 1} BY DEF BitOf
  <1>15. BitOf(n, 14) \in {0, 1} BY DEF BitOf
  <1>16. BitOf(n, 15) \in {0, 1} BY DEF BitOf
  <1> QED
    BY <1>1, <1>2, <1>3, <1>4, <1>5, <1>6, <1>7, <1>8, <1>9, <1>10, <1>11,
       <1>12, <1>13, <1>14, <1>15, <1>16 DEF Bit

\* Words are compared bit by bit.
LEMMA SameWord ==
    ASSUME NEW f, NEW g,
           f = [i \in 1..41 |-> f[i]], g = [i \in 1..41 |-> g[i]],
           \A i \in Nat : 1 <= i /\ i <= 41 => f[i] = g[i]
    PROVE  f = g
  <1>1. \A i \in 1..41 : f[i] = g[i]
    OBVIOUS
  <1>2. [i \in 1..41 |-> f[i]] = [i \in 1..41 |-> g[i]]
    BY <1>1, Zenon
  <1> QED
    BY <1>2, Zenon

\* And consist of bits.
LEMMA IsWord ==
    ASSUME NEW f, f = [i \in 1..41 |-> f[i]],
           \A i \in Nat : 1 <= i /\ i <= 41 => f[i] \in Bit
    PROVE  f \in Word(41)
  <1>1. \A i \in 1..41 : f[i] \in Bit
    OBVIOUS
  <1>2. [i \in 1..41 |-> f[i]] \in [1..41 -> Bit]
    BY <1>1, Zenon
  <1> QED
    BY <1>2, Zenon DEF Word

\* A request has 41 bits.
LEMMA EncodeIsFunction ==
    ASSUME NEW q
    PROVE  Encode(q) = [i \in 1..41 |-> Encode(q)[i]]
  <1> DEFINE bit(i) == CASE i <= 2       -> BitOf(q.op, i - 1)
                         [] i \in 3..18  -> BitOf(q.data.lo, i - 3)
                         [] i \in 19..34 -> BitOf(q.data.hi, i - 19)
                         [] OTHER        -> BitOf(q.address, i - 35)
  <1>1. Encode(q) = [i \in 1..41 |-> bit(i)]
    BY Zenon DEF Encode
  <1> HIDE DEF bit
  <1> QED
    BY <1>1, Zenon

\* The bits of a request are a word.
LEMMA EncodeType ==
    ASSUME NEW q \in Requests
    PROVE  Encode(q) \in Word(41)
  <1>1. /\ q.op \in Nat /\ q.address \in Nat
        /\ q.data.lo \in Nat /\ q.data.hi \in Nat
    BY RequestFields, WordHalves
  <1>2. ASSUME NEW i \in Nat, 1 <= i, i <= 41
        PROVE  Encode(q)[i] \in Bit
    <2>1. i \in 1..41
      BY <1>2
    <2>2. CASE i <= 2
      BY <1>1, <1>2, <2>1, <2>2, BitType DEF Encode
    <2>3. CASE i \in 3..18
      BY <1>1, <1>2, <2>1, <2>3, BitType DEF Encode
    <2>4. CASE i \in 19..34
      BY <1>1, <1>2, <2>1, <2>4, BitType DEF Encode
    <2>5. CASE i \in 35..41
      BY <1>1, <1>2, <2>1, <2>5, BitType DEF Encode
    <2> QED
      BY <1>2, <2>2, <2>3, <2>4, <2>5
  <1> QED
    BY <1>2, EncodeIsFunction, IsWord

\* Encoding the fields of a word gives the word back: what the debug module
\* leaves of a request in the container is what was scanned in.
LEMMA EncodeDecode ==
    ASSUME NEW word \in Word(41)
    PROVE  Encode(Decode(word)) = word
  <1>1. ASSUME NEW i \in Nat, 1 <= i, i <= 41
        PROVE  Encode(Decode(word))[i] = word[i]
    <2>1. i \in 1..41
      BY <1>1
    <2>2. CASE i <= 2
      <3>1. PICK k \in 0..1 : k = i - 1 /\ i = k + 1
        BY <1>1, <2>2
      <3>2. Encode(Decode(word))[i] = BitOf(Decode(word).op, k)
        BY <2>1, <2>2, <3>1 DEF Encode
      <3> QED
        BY <3>1, <3>2, DecodeBits
    <2>3. CASE i \in 3..18
      <3>1. PICK k \in 0..15 : k = i - 3 /\ i = k + 3
        BY <1>1, <2>3
      <3>2. Encode(Decode(word))[i] = BitOf(Decode(word).data.lo, k)
        BY <1>1, <2>1, <2>3, <3>1 DEF Encode
      <3> QED
        BY <3>1, <3>2, DecodeBits
    <2>4. CASE i \in 19..34
      <3>1. PICK k \in 0..15 : k = i - 19 /\ i = k + 19
        BY <1>1, <2>4
      <3>2. Encode(Decode(word))[i] = BitOf(Decode(word).data.hi, k)
        BY <1>1, <2>1, <2>4, <3>1 DEF Encode
      <3> QED
        BY <3>1, <3>2, DecodeBits
    <2>5. CASE i \in 35..41
      <3>1. PICK k \in 0..6 : k = i - 35 /\ i = k + 35
        BY <1>1, <2>5
      <3>2. Encode(Decode(word))[i] = BitOf(Decode(word).address, k)
        BY <1>1, <2>1, <2>5, <3>1 DEF Encode
      <3> QED
        BY <3>1, <3>2, DecodeBits
    <2> QED
      BY <1>1, <2>2, <2>3, <2>4, <2>5
  <1>2. word = [i \in 1..41 |-> word[i]]
    BY Zenon DEF Word
  <1> QED
    BY <1>1, <1>2, EncodeIsFunction, SameWord, Zenon

\* Four bits of a number are its last hexadecimal digit.
LEMMA DigitOfBits ==
    ASSUME NEW n \in Nat
    PROVE  BitOf(n, 0) + 2 * BitOf(n, 1) + 4 * BitOf(n, 2) + 8 * BitOf(n, 3)
             = n % 16
  <1>1. PICK d \in 0..15 : d = n % 16
    OBVIOUS
  <1>2. BitOf(d, 0) + 2 * BitOf(d, 1) + 4 * BitOf(d, 2) + 8 * BitOf(d, 3) = d
    BY DEF BitOf
  <1> QED
    BY <1>1, <1>2, BitsOfDigits

\* Four places that hold the bits of a number hold its last digit.
LEMMA NibbleOfBits ==
    ASSUME NEW word, NEW f \in Nat, NEW n \in Nat,
           \A k \in 0..3 : word[f + k] = BitOf(n, k)
    PROVE  Nibble(word, f) = n % 16
  <1>1. /\ word[f] = BitOf(n, 0) /\ word[f + 1] = BitOf(n, 1)
        /\ word[f + 2] = BitOf(n, 2) /\ word[f + 3] = BitOf(n, 3)
    <2>1. 0 \in 0..3 /\ 1 \in 0..3 /\ 2 \in 0..3 /\ 3 \in 0..3 /\ f + 0 = f
      OBVIOUS
    <2> QED
      BY <2>1
  <1> QED
    BY <1>1, DigitOfBits DEF Nibble

\* Sixteen places that hold the bits of a half hold the half.
LEMMA HalfOfBits ==
    ASSUME NEW word, NEW f \in Nat, NEW n \in Nat, n < 65536,
           \A k \in 0..15 : word[f + k] = BitOf(n, k)
    PROVE  HalfAt(word, f) = n
  <1>1. PICK a \in Nat, b \in Nat, c \in Nat :
            a = n \div 16 /\ b = a \div 16 /\ c = b \div 16
    OBVIOUS
  <1>2. n = (n % 16) + 16 * (a % 16) + 256 * (b % 16) + 4096 * (c % 16)
    BY <1>1
  <1>3. Nibble(word, f) = n % 16
    BY NibbleOfBits
  <1>4. Nibble(word, f + 4) = a % 16
    <2>1. \A k \in 0..3 : word[(f + 4) + k] = BitOf(n, k + 4)
      OBVIOUS
    <2>2. \A k \in 0..3 : BitOf(n, k + 4) = BitOf(a, k)
      BY <1>1, BitsOfDigits
    <2> QED
      BY <2>1, <2>2, NibbleOfBits
  <1>5. Nibble(word, f + 8) = b % 16
    <2>1. \A k \in 0..3 : word[(f + 8) + k] = BitOf(n, k + 8)
      OBVIOUS
    <2>2. \A k \in 0..3 : /\ BitOf(n, k + 8) = BitOf(a, k + 4)
                          /\ BitOf(a, k + 4) = BitOf(b, k)
      BY <1>1, BitsOfDigits
    <2> QED
      BY <2>1, <2>2, NibbleOfBits
  <1>6. Nibble(word, f + 12) = c % 16
    <2>1. \A k \in 0..3 : word[(f + 12) + k] = BitOf(n, k + 12)
      OBVIOUS
    <2>2. \A k \in 0..3 : /\ BitOf(n, k + 12) = BitOf(a, k + 8)
                          /\ BitOf(a, k + 8) = BitOf(b, k + 4)
                          /\ BitOf(b, k + 4) = BitOf(c, k)
      BY <1>1, BitsOfDigits
    <2> QED
      BY <2>1, <2>2, NibbleOfBits
  <1> QED
    BY <1>2, <1>3, <1>4, <1>5, <1>6 DEF HalfAt

\* The places of a request's bits.
LEMMA EncodePlaces ==
    ASSUME NEW q
    PROVE  /\ \A k \in 0..1 : Encode(q)[1 + k] = BitOf(q.op, k)
           /\ \A k \in 0..15 : Encode(q)[3 + k] = BitOf(q.data.lo, k)
           /\ \A k \in 0..15 : Encode(q)[19 + k] = BitOf(q.data.hi, k)
           /\ \A k \in 0..6 : Encode(q)[35 + k] = BitOf(q.address, k)
  <1>1. ASSUME NEW k \in 0..1
        PROVE  Encode(q)[1 + k] = BitOf(q.op, k)
    <2>1. PICK i \in 1..41 : i = 1 + k /\ i <= 2 /\ i - 1 = k
      OBVIOUS
    <2> QED
      BY <2>1 DEF Encode
  <1>2. ASSUME NEW k \in 0..15
        PROVE  Encode(q)[3 + k] = BitOf(q.data.lo, k)
    <2>1. PICK i \in 1..41 : i = 3 + k /\ ~ (i <= 2) /\ i \in 3..18 /\ i - 3 = k
      OBVIOUS
    <2> QED
      BY <2>1 DEF Encode
  <1>3. ASSUME NEW k \in 0..15
        PROVE  Encode(q)[19 + k] = BitOf(q.data.hi, k)
    <2>1. PICK i \in 1..41 : /\ i = 19 + k /\ ~ (i <= 2) /\ i \notin 3..18
                             /\ i \in 19..34 /\ i - 19 = k
      OBVIOUS
    <2> QED
      BY <2>1 DEF Encode
  <1>4. ASSUME NEW k \in 0..6
        PROVE  Encode(q)[35 + k] = BitOf(q.address, k)
    <2>1. PICK i \in 1..41 : /\ i = 35 + k /\ ~ (i <= 2) /\ i \notin 3..18
                             /\ i \notin 19..34 /\ i - 35 = k
      OBVIOUS
    <2> QED
      BY <2>1 DEF Encode
  <1> QED
    BY <1>1, <1>2, <1>3, <1>4

\* Decoding the bits of a request gives the request back: what the client
\* reads of an answer is what the debug module left.
LEMMA DecodeEncode ==
    ASSUME NEW q \in Requests
    PROVE  Decode(Encode(q)) = q
  <1>1. /\ q.op \in 0..3 /\ q.address \in 0..127 /\ q.data \in Words
        /\ q = [op |-> q.op, data |-> q.data, address |-> q.address]
    BY DEF Requests
  <1>2. /\ q.data.lo \in Nat /\ q.data.lo < 65536
        /\ q.data.hi \in Nat /\ q.data.hi < 65536
        /\ q.data = W(q.data.hi, q.data.lo)
    BY <1>1, WordHalves
  <1> DEFINE word == Encode(q)
  <1> HIDE DEF word
  <1>3. /\ \A k \in 0..1 : word[1 + k] = BitOf(q.op, k)
        /\ \A k \in 0..15 : word[3 + k] = BitOf(q.data.lo, k)
        /\ \A k \in 0..15 : word[19 + k] = BitOf(q.data.hi, k)
        /\ \A k \in 0..6 : word[35 + k] = BitOf(q.address, k)
    BY EncodePlaces DEF word
  <1>4. HalfAt(word, 3) = q.data.lo /\ HalfAt(word, 19) = q.data.hi
    <2>1. HalfAt(word, 3) = q.data.lo
      BY <1>2, <1>3, HalfOfBits
    <2>2. HalfAt(word, 19) = q.data.hi
      <3>1. PICK f \in Nat : f = 19
        OBVIOUS
      <3>2. \A k \in 0..15 : word[f + k] = BitOf(q.data.hi, k)
        BY <1>3, <3>1
      <3>3. HalfAt(word, f) = q.data.hi
        BY <1>2, <3>2, HalfOfBits
      <3> QED
        BY <3>1, <3>3
    <2> QED
      BY <2>1, <2>2
  <1>5. word[1] + 2 * word[2] = q.op
    <2>1. word[1] = BitOf(q.op, 0) /\ word[2] = BitOf(q.op, 1)
      <3>1. 0 \in 0..1 /\ 1 \in 0..1 /\ 1 + 0 = 1 /\ 1 + 1 = 2
        OBVIOUS
      <3> QED
        BY <1>3, <3>1
    <2> QED
      BY <1>1, <2>1 DEF BitOf
  <1>6. Nibble(word, 35) + 16 * (word[39] + 2 * word[40] + 4 * word[41])
          = q.address
    <2>1. Nibble(word, 35) = q.address % 16
      <3>1. q.address \in Nat /\ \A k \in 0..3 : k \in 0..6
        BY <1>1
      <3> QED
        BY <1>3, <3>1, NibbleOfBits
    <2>2. /\ word[39] = BitOf(q.address, 4) /\ word[40] = BitOf(q.address, 5)
          /\ word[41] = BitOf(q.address, 6)
      <3>1. /\ 4 \in 0..6 /\ 5 \in 0..6 /\ 6 \in 0..6
            /\ 35 + 4 = 39 /\ 35 + 5 = 40 /\ 35 + 6 = 41
        OBVIOUS
      <3> QED
        BY <1>3, <3>1
    <2>3. PICK n \in Nat : n = q.address \div 16 /\ n < 8
      BY <1>1
    <2>4. /\ word[39] = BitOf(n, 0) /\ word[40] = BitOf(n, 1)
          /\ word[41] = BitOf(n, 2)
      BY <1>1, <2>2, <2>3, BitsOfDigits
    <2>5. BitOf(n, 0) + 2 * BitOf(n, 1) + 4 * BitOf(n, 2) = n
      BY <2>3 DEF BitOf
    <2> QED
      BY <1>1, <2>1, <2>3, <2>4, <2>5
  <1> QED
    BY <1>1, <1>2, <1>4, <1>5, <1>6 DEF Decode, word

\* The bits of nothing are zeros, and only they are.
LEMMA ZeroBits ==
    ASSUME NEW word \in Word(41)
    PROVE  Decode(word) = ZeroScan <=> word = Zeros(41)
  <1>1. \A k \in 0..15 : BitOf(0, k) = 0
    <2>1. BitOf(0, 0) = 0 BY DEF BitOf
    <2>2. BitOf(0, 1) = 0 BY DEF BitOf
    <2>3. BitOf(0, 2) = 0 BY DEF BitOf
    <2>4. BitOf(0, 3) = 0 BY DEF BitOf
    <2>5. BitOf(0, 4) = 0 BY DEF BitOf
    <2>6. BitOf(0, 5) = 0 BY DEF BitOf
    <2>7. BitOf(0, 6) = 0 BY DEF BitOf
    <2>8. BitOf(0, 7) = 0 BY DEF BitOf
    <2>9. BitOf(0, 8) = 0 BY DEF BitOf
    <2>10. BitOf(0, 9) = 0 BY DEF BitOf
    <2>11. BitOf(0, 10) = 0 BY DEF BitOf
    <2>12. BitOf(0, 11) = 0 BY DEF BitOf
    <2>13. BitOf(0, 12) = 0 BY DEF BitOf
    <2>14. BitOf(0, 13) = 0 BY DEF BitOf
    <2>15. BitOf(0, 14) = 0 BY DEF BitOf
    <2>16. BitOf(0, 15) = 0 BY DEF BitOf
    <2> QED
      BY <2>1, <2>2, <2>3, <2>4, <2>5, <2>6, <2>7, <2>8, <2>9, <2>10, <2>11,
         <2>12, <2>13, <2>14, <2>15, <2>16
  <1>2. Encode(ZeroScan) = Zeros(41)
    <2>1. ASSUME NEW i \in Nat, 1 <= i, i <= 41
          PROVE  Encode(ZeroScan)[i] = 0
      <3>1. i \in 1..41
        BY <2>1
      <3>2. /\ ZeroScan.op = 0 /\ ZeroScan.address = 0
            /\ ZeroScan.data.lo = 0 /\ ZeroScan.data.hi = 0
        BY DEF ZeroScan, W
      <3>3. CASE i <= 2
        BY <1>1, <2>1, <3>1, <3>2, <3>3 DEF Encode
      <3>4. CASE i \in 3..18
        BY <1>1, <2>1, <3>1, <3>2, <3>4 DEF Encode
      <3>5. CASE i \in 19..34
        BY <1>1, <2>1, <3>1, <3>2, <3>5 DEF Encode
      <3>6. CASE i \in 35..41
        BY <1>1, <2>1, <3>1, <3>2, <3>6 DEF Encode
      <3> QED
        BY <2>1, <3>3, <3>4, <3>5, <3>6
    <2>2. /\ Zeros(41) = [i \in 1..41 |-> Zeros(41)[i]]
          /\ \A i \in 1..41 : Zeros(41)[i] = 0
      BY Zenon DEF Zeros
    <2>3. \A i \in Nat : 1 <= i /\ i <= 41 => Zeros(41)[i] = 0
      BY <2>2
    <2>4. \A i \in Nat : 1 <= i /\ i <= 41
                             => Encode(ZeroScan)[i] = Zeros(41)[i]
      BY <2>1, <2>3
    <2>5. Zeros(41) = [i \in 1..41 |-> Zeros(41)[i]]
      BY <2>2, Zenon
    <2> QED
      BY <2>4, <2>5, EncodeIsFunction, SameWord, Zenon
  <1>3. Decode(Zeros(41)) = ZeroScan
    <2>1. \A i \in 1..41 : Zeros(41)[i] = 0
      BY DEF Zeros
    <2>2. \A i \in {3, 7, 11, 15, 19, 23, 27, 31, 35} :
              Nibble(Zeros(41), i) = 0
      BY <2>1 DEF Nibble
    <2>3. HalfAt(Zeros(41), 3) = 0 /\ HalfAt(Zeros(41), 19) = 0
      BY <2>2 DEF HalfAt
    <2> QED
      BY <2>1, <2>2, <2>3 DEF Decode, ZeroScan
  <1> QED
    BY <1>2, <1>3, EncodeDecode

-----------------------------------------------------------------------------
(***************************************************************************)
(* What an UPDATE_DR of the dmi register leaves in the container.          *)
(***************************************************************************)

\* The request the debug module decodes is the one the transport module hands
\* over, bit for bit: the scanned one, or the container's content once more.
LEMMA RequestHandedOver ==
    ASSUME DmTypeOK, OneContainer, NEW word \in Word(41)
    PROVE  /\ Request(Decode(word)) \in Requests
           /\ Encode(Request(Decode(word)))
                = DmiRequest(word, container["dmi"])
  <1>1. Width["dmi"] = 41
    BY ProgramConstants
  <1>2. CASE Decode(word) = ZeroScan
    <2>1. word = Zeros(Width["dmi"])
      BY <1>1, <1>2, ZeroBits
    <2> QED
      BY <1>2, <2>1 DEF Request, DmiRequest, OneContainer, DmTypeOK
  <1>3. CASE Decode(word) # ZeroScan
    <2>1. word # Zeros(Width["dmi"])
      BY <1>1, <1>3, ZeroBits
    <2> QED
      BY <1>3, <2>1, DecodeBits, EncodeDecode DEF Request, DmiRequest
  <1> QED
    BY <1>2, <1>3

\* So the container takes a word of the shape module JtagDtm allows.
LEMMA AnswerHasShape ==
    ASSUME DmTypeOK, OneContainer, NEW word \in Word(41),
           UpdateDmi(Decode(word)), dmi_container_register' \in Requests
    PROVE  Encode(dmi_container_register')
             \in DmiReplies(DmiRequest(word, container["dmi"]))
  <1> DEFINE q == Request(Decode(word))
             a == dmi_container_register'
  <1>1. q \in Requests /\ Encode(q) = DmiRequest(word, container["dmi"])
    BY RequestHandedOver
  <1>2. a = q \/ (a.op = 0 /\ a.address = q.address)
    BY <1>1, HandleAnswers DEF UpdateDmi
  <1>3. Encode(a) \in Word(Width["dmi"])
    BY EncodeType, ProgramConstants
  <1>4. CASE a = q
    BY <1>1, <1>3, <1>4 DEF DmiReplies
  <1>5. CASE a.op = 0 /\ a.address = q.address
    <2> HIDE DEF a, q
    <2>1. Encode(a)[1] = 0 /\ Encode(a)[2] = 0
      <3>1. BitOf(0, 0) = 0 /\ BitOf(0, 1) = 0
        BY DEF BitOf
      <3> QED
        BY <1>5, <3>1 DEF Encode
    <2>2. ASSUME NEW i \in 35..41
          PROVE  Encode(a)[i] = Encode(q)[i]
      <3>1. /\ Encode(a)[i] = BitOf(a.address, i - 35)
            /\ Encode(q)[i] = BitOf(q.address, i - 35)
        BY DEF Encode
      <3> QED
        BY <1>5, <3>1
    <2>3. SameAddress(Encode(a), Encode(q))
      <3>1. (Width["dmi"] - DmiAddressBits + 1)..Width["dmi"] = 35..41
        BY ProgramConstants
      <3> QED
        BY <2>2, <3>1 DEF SameAddress
    <2>4. Encode(a) \in DmiReplies(Encode(q))
      BY <1>3, <2>1, <2>3 DEF DmiReplies
    <2> QED
      BY <1>1, <2>4 DEF a, q
  <1> QED
    BY <1>2, <1>4, <1>5

(***************************************************************************)
(* The invariant.                                                          *)
(***************************************************************************)

\* The constructor's values have their types, and the two guises of the
\* container agree.
LEMMA MockInitType ==
    ASSUME MockInit
    PROVE  MockTypeOK
  <1>1. DtmTypeOK
    BY DtmInitType DEF MockInit
  <1>2. DmTypeOK
    BY DmInitType DEF MockInit
  <1>3. OneContainer
    <2>1. PowerOn["dmi"] = Encode(init_dmi)
      BY ProgramConstants
    <2>2. container["dmi"] = PowerOn["dmi"]
      BY DEF MockInit, DtmInit, DataRegisters
    <2> QED
      BY <2>1, <2>2 DEF OneContainer, MockInit, DmInit
  <1> QED
    BY <1>1, <1>2, <1>3 DEF MockTypeOK

\* The dmi container changes nowhere but in an UPDATE_DR of its register.
LEMMA DmiContainerKept ==
    ASSUME DtmTypeOK, NEW s, state_entered(s),
           ~ (s = "UPDATE_DR" /\ Selected = "dmi")
    PROVE  container'["dmi"] = container["dmi"]
  <1>1. CASE s = "UPDATE_DR" /\ UpdateDr
    <2>1. \/ container' = [container EXCEPT !["id_code"] = shift["id_code"]]
          \/ container' = container
      BY <1>1 DEF UpdateDr
    <2> QED
      BY <2>1 DEF DtmTypeOK, DataRegisters
  <1>2. CASE ~ (s = "UPDATE_DR" /\ UpdateDr)
    BY <1>2 DEF state_entered, ResetIr, CaptureDr, CaptureIr, UpdateIr,
                registers
  <1> QED
    BY <1>1, <1>2

\* An UPDATE_DR of the dmi register is a step the transport module allows,
\* and keeps the types.
LEMMA UpdateDmiIsRising ==
    ASSUME MockTypeOK, NEW ms \in Bit, NEW di \in Bit,
           EntersUpdateDmi(ms), UpdateDmiRegister(ms, di)
    PROVE  /\ set_pins_high(ms, di) /\ MockTypeOK'
           /\ container'["dmi"]
                \in DmiReplies(DmiRequest(shift["dmi"], container["dmi"]))
  <1> USE DEF MockTypeOK
  <1>1. shift["dmi"] \in Word(41)
    BY ProgramConstants DEF DtmTypeOK, DataRegisters
  <1>2. Request(Decode(shift["dmi"])) \in Requests
    BY <1>1, RequestHandedOver
  <1>3. DmTypeOK'
    BY <1>2, HandleType DEF UpdateDmiRegister, UpdateDmi
  <1>4. container' = [container EXCEPT !["dmi"]
                                         = Encode(dmi_container_register')]
    BY DEF UpdateDmiRegister
  <1>5. container'["dmi"] = Encode(dmi_container_register')
    BY <1>4 DEF DtmTypeOK, DataRegisters
  <1>6. Encode(dmi_container_register')
          \in DmiReplies(DmiRequest(shift["dmi"], container["dmi"]))
    BY <1>1, <1>3, AnswerHasShape DEF UpdateDmiRegister, DmTypeOK
  <1>7. set_pins_high(ms, di)
    <2>1. UpdateDr
      BY <1>4, <1>6 DEF EntersUpdateDmi, UpdateDmiRegister, UpdateDr
    <2> QED
      BY <2>1 DEF EntersUpdateDmi, UpdateDmiRegister, set_pins_high,
                  state_entered
  <1>8. DtmTypeOK'
    BY <1>7, RisingType
  <1> QED
    BY <1>3, <1>5, <1>6, <1>7, <1>8 DEF OneContainer

\* What one command does: the pins of one write, a reset, or nothing.
LEMMA DriveEffect ==
    ASSUME MockTypeOK, NEW command, Drive(command)
    PROVE  /\ MockTypeOK'
           /\ DtmNext \/ UNCHANGED dtmVars
           /\ container'["dmi"] # container["dmi"]
                => container'["dmi"] \in
                     DmiReplies(DmiRequest(shift["dmi"], container["dmi"]))
  <1>1. ASSUME NEW ck \in Bit, NEW ms \in Bit, NEW di \in Bit,
               set_pins(ck, ms, di)
        PROVE  /\ MockTypeOK'
               /\ DtmNext
               /\ container'["dmi"] # container["dmi"]
                    => container'["dmi"] \in
                         DmiReplies(DmiRequest(shift["dmi"],
                                               container["dmi"]))
    <2>1. <<ck, ms, di>> \in PinWrites
      BY ProgramConstants
    <2>2. CASE ck = 0 /\ set_pins_low(ms, di) /\ UNCHANGED dmVars
      <3>1. DtmTypeOK' /\ UNCHANGED container
        BY <2>2, FallingType DEF MockTypeOK
      <3>2. DmTypeOK' /\ UNCHANGED dmi_container_register
        BY <2>2, DmTypeKept DEF MockTypeOK, dmVars
      <3>3. DtmNext
        BY <2>1, <2>2 DEF DtmNext
      <3> QED
        BY <3>1, <3>2, <3>3 DEF MockTypeOK, OneContainer
    <2>3. CASE ck = 1 /\ EntersUpdateDmi(ms) /\ UpdateDmiRegister(ms, di)
      <3>1. DtmNext
        BY <2>1, <2>3, UpdateDmiIsRising DEF DtmNext
      <3> QED
        BY <2>3, <3>1, UpdateDmiIsRising
    <2>4. CASE /\ ck = 1 /\ ~ EntersUpdateDmi(ms)
               /\ set_pins_high(ms, di) /\ UNCHANGED dmVars
      <3>1. DtmTypeOK'
        BY <2>4, RisingType DEF MockTypeOK
      <3>2. DmTypeOK' /\ UNCHANGED dmi_container_register
        BY <2>4, DmTypeKept DEF MockTypeOK, dmVars
      <3>3. container'["dmi"] = container["dmi"]
        BY <2>4, DmiContainerKept DEF EntersUpdateDmi, set_pins_high, MockTypeOK
      <3>4. DtmNext
        BY <2>1, <2>4 DEF DtmNext
      <3> QED
        BY <3>1, <3>2, <3>3, <3>4 DEF MockTypeOK, OneContainer
    <2> QED
      BY <1>1, <2>2, <2>3, <2>4 DEF set_pins
  <1>2. CASE reset /\ UNCHANGED dmVars
    <2>1. DtmTypeOK'
      BY <1>2, ResetType DEF MockTypeOK
    <2>2. DmTypeOK' /\ UNCHANGED dmi_container_register
      BY <1>2, DmTypeKept DEF MockTypeOK, dmVars
    <2>3. container'["dmi"] = container["dmi"]
      BY <1>2, DmiContainerKept DEF reset, MockTypeOK
    <2>4. DtmNext
      BY <1>2 DEF DtmNext
    <2> QED
      BY <2>1, <2>2, <2>3, <2>4 DEF MockTypeOK, OneContainer
  <1>3. CASE UNCHANGED mockVars
    <2>1. UNCHANGED dtmVars /\ UNCHANGED dmVars
      BY <1>3 DEF mockVars
    <2>2. DtmTypeOK' /\ UNCHANGED container
      BY <2>1 DEF MockTypeOK, DtmTypeOK, dtmVars, pins, registers
    <2>3. DmTypeOK' /\ UNCHANGED dmi_container_register
      BY <2>1, DmTypeKept DEF MockTypeOK, dmVars
    <2> QED
      BY <2>1, <2>2, <2>3 DEF MockTypeOK, OneContainer
  <1> QED
    BY <1>1, <1>2, <1>3 DEF Drive

\* Nothing happening keeps them, too.
LEMMA MockStutters ==
    ASSUME MockTypeOK, UNCHANGED mockVars
    PROVE  MockTypeOK'
  <1>1. Drive("R")
    BY DEF Drive
  <1> QED
    BY <1>1, DriveEffect

(***************************************************************************)
(* The results.                                                            *)
(***************************************************************************)

\* Whatever commands arrive, in whatever order, every register of the target
\* keeps its width and type, and the bits a scan reads of the dmi container
\* are the fields the debug module left in it.
THEOREM MockTypeCorrect == MockSpec => []MockTypeOK
  <1>1. MockInit => MockTypeOK
    BY MockInitType
  <1>2. MockTypeOK /\ [MockNext]_mockVars => MockTypeOK'
    BY DriveEffect, MockStutters DEF MockNext
  <1> QED
    BY <1>1, <1>2, PTL DEF MockSpec

\* Every command only ever replaces the dmi container by the request it was
\* handed or by an answer to the same address with op 00.
THEOREM MockAnswersHaveShape == MockSpec => DmiAnswersHaveShape
  <1>1. /\ MockTypeOK /\ [MockNext]_mockVars
        => [container'["dmi"] # container["dmi"] =>
              container'["dmi"] \in DmiReplies(DmiRequest(shift["dmi"],
                                                          container["dmi"]))]_mockVars
    BY DriveEffect DEF MockNext
  <1> QED
    BY <1>1, MockTypeCorrect, PTL DEF MockSpec, DmiAnswersHaveShape

\* The target with its debug module implements the transport module, which
\* leaves any answer of that shape: what ScanHistoryProofs proves of every
\* scan of module JtagDtm holds of the scans of the whole target.
THEOREM MockImplementsDtm == MockSpec => DtmSpec
  <1>1. MockInit => DtmInit
    BY DEF MockInit
  <1>2. MockTypeOK /\ [MockNext]_mockVars => [DtmNext]_dtmVars
    BY DriveEffect DEF MockNext, mockVars
  <1> QED
    BY <1>1, <1>2, MockTypeCorrect, PTL DEF MockSpec, DtmSpec

=============================================================================
