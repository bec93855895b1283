---------------------------- MODULE StorageProofs ----------------------------
(***************************************************************************)
(* A digest is that of the message the context was given, for blocks, a    *)
(* length field and words of any size.  So the attic copies that           *)
(* Resource::Update leaves are named after their digest, for any documents *)
(* and number of requests, any cutting into writes and deaths of the       *)
(* process at any call.  And the references of Json and the descriptors of *)
(* File: what is counted is what is owned, for any memory, any set of      *)
(* variables and objects, and any order of calls.  And the metadata that   *)
(* LoadMeta reads: what SaveMeta stored whole, or nothing of it.           *)
(***************************************************************************)
EXTENDS Storage, SequenceTheorems, FiniteSetTheorems, WellFoundedInduction, TLAPS

BlockCell == [octet : Octet] \cup [length : Nat]
Block == [Cell -> BlockCell]
Context ==
  [block : Block, index : 0 .. BlockSize, low : 0 .. Word - 1, high : 0 .. Word - 1,
   hash : Seq(Block), computed : BOOLEAN,
   corrupted : {shaSuccess, shaNull, shaStateError}]

DigestTypeOK ==
  /\ ctx \in Context /\ ctx.index \in Cell
  /\ rest \in Seq(Octet)
  /\ msg \in Seq(Octet)

(* The compressed blocks and the part of a block behind them are the       *)
(* message, and the two length words count its bits.                       *)
Collected(c, m) ==
  /\ Len(m) = Len(c.hash) * BlockSize + c.index
  /\ c.high * Word + c.low = OctetBits * Len(m)
  /\ \A j \in 1 .. Len(c.hash), i \in Cell :
       c.hash[j][i] = Plain(m[(j - 1) * BlockSize + i + 1])
  /\ \A i \in 0 .. c.index - 1 : c.block[i] = Plain(m[Len(c.hash) * BlockSize + i + 1])

DigestInv ==
  /\ DigestTypeOK
  /\ rest # <<>> => ~ctx.computed
  /\ ~ctx.computed /\ ctx.corrupted = shaSuccess => Collected(ctx, msg)
  /\ Digested

------------------------------------------------------------------------------
LEMMA Small == ASSUME NEW x \in Nat, NEW w \in Nat \ {0}, x < w PROVE x % w = x
  BY SMT

LEMMA Wrapped ==
  ASSUME NEW x \in Nat, NEW w \in Nat \ {0}, w <= x, x < 2 * w
  PROVE  x % w = x - w
  BY SMT

LEMMA Residue == ASSUME NEW x \in Nat, NEW w \in Nat \ {0} PROVE x % w \in 0 .. w - 1
  BY SMT

LEMMA OneMore == ASSUME NEW j \in Nat, NEW b \in Nat PROVE (j + 1) * b = j * b + b
  BY SMT

(* A word's bits are whole octets, so an octet's bits either fit into the  *)
(* low word or fill it up exactly.                                         *)
LEMMA NoPartialCarry ==
  ASSUME NEW high \in Nat, NEW low \in 0 .. Word - 1, NEW n \in Nat,
         high * Word + low = OctetBits * n
  PROVE  low + OctetBits <= Word
  <1>1. PICK k \in Nat : Word = k * OctetBits
    BY DigestAssumption
  <1>2. OctetBits \in Nat \ {0} /\ Word \in Nat
    BY DigestAssumption
  <1> DEFINE a == n - high * k
  <1>3. high * Word = high * k * OctetBits
    BY <1>1, <1>2
  <1>4. a \in Int /\ low = a * OctetBits
    BY <1>1, <1>2, <1>3
  <1> HIDE DEF a
  <1>5. a * OctetBits < k * OctetBits
    BY <1>1, <1>2, <1>4
  <1>6. a < k
    BY <1>2, <1>4, <1>5, <1>1
  <1>7. (a + 1) * OctetBits <= k * OctetBits
    BY <1>2, <1>4, <1>6, <1>1
  <1>8. (a + 1) * OctetBits = low + OctetBits
    BY <1>2, <1>4
  <1> QED BY <1>1, <1>2, <1>7, <1>8
LEMMA Sizes ==
  /\ BlockSize \in Nat \ {0, 1} /\ LengthAt \in 1 .. BlockSize - 1
  /\ OctetBits \in Nat \ {0} /\ Word \in Nat \ {0} /\ OctetBits < Word
  /\ 0 \in Octet /\ One \in Octet
  BY DigestAssumption

LEMMA PlainIsContent == ASSUME NEW o \in Octet PROVE Plain(o) \in BlockCell
  BY DEF Plain, BlockCell
LEMMA LengthIsContent == ASSUME NEW n \in Nat PROVE LengthCell(n) \in BlockCell
  BY DEF LengthCell, BlockCell

(* A compressed block joins the hash and leaves the rest as it is. *)
LEMMA Compressed ==
  ASSUME NEW c \in Context
  PROVE  LET d == ProcessMessageBlock(c)
         IN /\ d \in Context /\ d.index = 0 /\ d.block = c.block
            /\ d.hash = Append(c.hash, c.block) /\ d.low = c.low /\ d.high = c.high
            /\ d.computed = c.computed /\ d.corrupted = c.corrupted
  <1>1. c.hash \in Seq(Block) /\ c.block \in Block /\ 0 \in 0 .. BlockSize
    BY Sizes DEF Context
  <1>2. Append(c.hash, c.block) \in Seq(Block)
    BY <1>1
  <1> QED BY <1>1, <1>2 DEF ProcessMessageBlock, Context

(* The octets of the first k blocks are among the first k * BlockSize. *)
LEMMA InBlocks ==
  ASSUME NEW k \in Nat, NEW j \in 1 .. k, NEW i \in Cell
  PROVE  /\ (j - 1) * BlockSize + i + 1 \in 1 .. k * BlockSize
         /\ (j - 1) * BlockSize \in Nat /\ k * BlockSize \in Nat
  <1>1. i \in 0 .. BlockSize - 1 /\ BlockSize \in Nat /\ j - 1 \in Nat /\ k - j \in Nat
    BY Sizes DEF Cell
  <1>2. k * BlockSize = (j - 1) * BlockSize + BlockSize + (k - j) * BlockSize
    BY <1>1
  <1>3. (j - 1) * BlockSize \in Nat /\ (k - j) * BlockSize \in Nat
    BY <1>1
  <1> QED BY <1>1, <1>2, <1>3

(* A full block of the message, once compressed, is one of its blocks. *)
LEMMA FullBlock ==
  ASSUME NEW d \in Context, NEW e \in Context, NEW n, Collected(d, n), d.index = BlockSize,
         e.index = 0, e.hash = Append(d.hash, d.block), e.low = d.low, e.high = d.high
  PROVE  Collected(e, n)
  <1>1. /\ d.hash \in Seq(Block) /\ Len(d.hash) \in Nat /\ BlockSize \in Nat
        /\ Len(e.hash) = Len(d.hash) + 1 /\ e.hash[Len(d.hash) + 1] = d.block
        /\ \A j \in 1 .. Len(d.hash) : e.hash[j] = d.hash[j]
    BY Sizes DEF Context
  <1>2. (Len(d.hash) + 1) * BlockSize = Len(d.hash) * BlockSize + BlockSize
    BY <1>1, OneMore
  <1>3. Len(n) = Len(e.hash) * BlockSize + e.index
    <2>1. Len(d.hash) * BlockSize + BlockSize \in Nat
      BY <1>1
    <2> QED BY <1>1, <1>2, <2>1 DEF Collected
  <1>4. \A j \in 1 .. Len(e.hash), i \in Cell :
           e.hash[j][i] = Plain(n[(j - 1) * BlockSize + i + 1])
    <2> SUFFICES ASSUME NEW j \in 1 .. Len(d.hash) + 1, NEW i \in Cell
                 PROVE  e.hash[j][i] = Plain(n[(j - 1) * BlockSize + i + 1])
      BY <1>1
    <2>1. CASE j \in 1 .. Len(d.hash)
      BY <1>1, <2>1 DEF Collected
    <2>2. CASE j = Len(d.hash) + 1
      <3>1. j - 1 = Len(d.hash) /\ i \in 0 .. d.index - 1
        BY <2>2, <1>1 DEF Cell
      <3> QED BY <3>1, <1>1, <2>2 DEF Collected
    <2> QED BY <2>1, <2>2, <1>1
  <1>5. \A i \in 0 .. e.index - 1 : e.block[i] = Plain(n[Len(e.hash) * BlockSize + i + 1])
    OBVIOUS
  <1> QED BY <1>3, <1>4, <1>5 DEF Collected

(* An octet is counted, collected and, with the last of a block, compressed. *)
LEMMA PutOctetCollects ==
  ASSUME NEW c \in Context, NEW m \in Seq(Octet), NEW o \in Octet,
         c.index \in Cell, Collected(c, m)
  PROVE  LET e == PutOctet(c, o)
         IN /\ e \in Context /\ e.index \in Cell /\ e.computed = c.computed
            /\ e.corrupted = shaSuccess => Collected(e, Append(m, o))
  <1> DEFINE low == (c.low + OctetBits) % Word
             high == IF low = 0 THEN (c.high + 1) % Word ELSE c.high
             d == [c EXCEPT !.block[c.index] = Plain(o), !.index = @ + 1,
                     !.low = low, !.high = high,
                     !.corrupted = IF low = 0 /\ high = 0 THEN shaNull ELSE @]
             n == Append(m, o)
  <1>1. /\ c.index \in 0 .. BlockSize - 1 /\ c.low \in 0 .. Word - 1 /\ c.high \in 0 .. Word - 1
        /\ c.block \in Block /\ c.hash \in Seq(Block)
    BY DEF Context, Cell
  <1> HIDE DEF d
  <1> DEFINE more == c.low + OctetBits
             carry == c.high + 1
  <1>a. /\ more \in Nat /\ carry \in Nat /\ Word \in Nat \ {0} /\ OctetBits \in Nat \ {0}
        /\ c.low \in Nat /\ c.high \in Nat /\ more < 2 * Word
    BY <1>1, Sizes
  <1>b. low = more % Word /\ high = IF low = 0 THEN carry % Word ELSE c.high
    OBVIOUS
  <1> HIDE DEF more, carry, low, high
  <1>c. more % Word \in 0 .. Word - 1 /\ carry % Word \in 0 .. Word - 1
    BY <1>a, Residue
  <1>2. low \in 0 .. Word - 1 /\ high \in 0 .. Word - 1
    BY <1>1, <1>b, <1>c
  <1>3. (low # 0 \/ high # 0) => high * Word + low = c.high * Word + c.low + OctetBits
    <2>1. more <= Word
      <3>1. c.high * Word + c.low = OctetBits * Len(m) /\ Len(m) \in Nat
        BY DEF Collected
      <3> QED BY <1>1, <1>a, <3>1, NoPartialCarry DEF more
    <2>2. CASE more < Word
      <3>1. low = more
        BY <1>a, <1>b, <2>2, Small
      <3>2. high = c.high
        BY <3>1, <1>a, <1>b DEF more
      <3>3. c.high * Word \in Nat
        BY <1>a
      <3> QED BY <3>1, <3>2, <3>3, <1>a, SMTT(30) DEF more
    <2>3. CASE more = Word
      <3>1. low = 0
        <4>1. more % Word = more - Word
          BY <1>a, <2>3, Wrapped
        <4> QED BY <4>1, <1>a, <1>b, <2>3
      <3>2. CASE carry < Word
        <4>1. high = carry
          BY <3>1, <3>2, <1>a, <1>b, Small
        <4>2. (c.high + 1) * Word = c.high * Word + Word /\ c.high * Word \in Nat
          BY <1>a, OneMore
        <4>3. high * Word = c.high * Word + Word
          BY <4>1, <4>2 DEF carry
        <4> QED BY <4>2, <4>3, <3>1, <2>3, <1>a DEF more
      <3>3. CASE carry = Word
        <4>1. carry % Word = carry - Word
          BY <1>a, <3>3, Wrapped
        <4>2. high = 0
          BY <4>1, <3>1, <3>3, <1>a, <1>b
        <4> QED BY <4>2, <3>1
      <3>4. carry <= Word
        BY <1>1, <1>a DEF carry
      <3> QED BY <3>2, <3>3, <3>4, <1>a
    <2> QED BY <2>1, <2>2, <2>3, <1>a
  <1>4. /\ d.block = [c.block EXCEPT ![c.index] = Plain(o)] /\ d.index = c.index + 1
        /\ d.low = low /\ d.high = high /\ d.hash = c.hash /\ d.computed = c.computed
        /\ d.corrupted = IF low = 0 /\ high = 0 THEN shaNull ELSE c.corrupted
    BY DEF Context, d
  <1>5. d.block \in Block
    BY <1>1, <1>4, PlainIsContent DEF Block, Cell
  <1>6. d \in Context
    <2>1. c.index + 1 \in 0 .. BlockSize
      BY <1>1, Sizes
    <2>2. [c.block EXCEPT ![c.index] = Plain(o)] \in Block
      BY <1>4, <1>5
    <2> QED BY <1>2, <2>1, <2>2 DEF Context, d
  <1>7. /\ n \in Seq(Octet) /\ Len(n) = Len(m) + 1 /\ n[Len(m) + 1] = o
        /\ \A k \in 1 .. Len(m) : n[k] = m[k]
    OBVIOUS
  <1> HIDE DEF n
  <1>8. /\ Len(m) = Len(c.hash) * BlockSize + c.index /\ Len(c.hash) \in Nat /\ Len(m) \in Nat
        /\ Len(c.hash) * BlockSize \in Nat
    <2>1. Len(c.hash) \in Nat /\ Len(m) \in Nat /\ BlockSize \in Nat
      BY <1>1, Sizes
    <2>2. Len(c.hash) * BlockSize \in Nat
      BY <2>1
    <2> QED BY <2>1, <2>2 DEF Collected
  <1>9. d.corrupted = shaSuccess => Collected(d, n)
    <2> SUFFICES ASSUME d.corrupted = shaSuccess PROVE Collected(d, n)
      OBVIOUS
    <2>1. Len(n) = Len(d.hash) * BlockSize + d.index
      BY <1>1, <1>4, <1>7, <1>8
    <2>2. d.high * Word + d.low = OctetBits * Len(n)
      <3>1. low # 0 \/ high # 0
        BY <1>4 DEF shaNull, shaSuccess
      <3>2. OctetBits * (Len(m) + 1) = OctetBits * Len(m) + OctetBits
        BY <1>8, Sizes
      <3> QED BY <3>1, <3>2, <1>3, <1>4, <1>7 DEF Collected
    <2>3. \A j \in 1 .. Len(d.hash), i \in Cell :
             d.hash[j][i] = Plain(n[(j - 1) * BlockSize + i + 1])
      <3> SUFFICES ASSUME NEW j \in 1 .. Len(c.hash), NEW i \in Cell
                   PROVE  c.hash[j][i] = Plain(n[(j - 1) * BlockSize + i + 1])
        BY <1>4
      <3>1. c.hash[j][i] = Plain(m[(j - 1) * BlockSize + i + 1])
        BY DEF Collected
      <3>2. (j - 1) * BlockSize + i + 1 \in 1 .. Len(m)
        <4>1. (j - 1) * BlockSize + i + 1 \in 1 .. Len(c.hash) * BlockSize
          BY <1>8, InBlocks
        <4> QED BY <4>1, <1>1, <1>8
      <3> QED BY <3>1, <3>2, <1>7
    <2>4. \A i \in 0 .. d.index - 1 : d.block[i] = Plain(n[Len(d.hash) * BlockSize + i + 1])
      <3> SUFFICES ASSUME NEW i \in 0 .. c.index
                   PROVE  d.block[i] = Plain(n[Len(c.hash) * BlockSize + i + 1])
        BY <1>4, <1>1
      <3>1. CASE i = c.index
        BY <3>1, <1>1, <1>4, <1>7, <1>8 DEF Block, Cell
      <3>2. CASE i # c.index
        <4>1. i \in 0 .. c.index - 1
          BY <3>2, <1>1
        <4>2. d.block[i] = c.block[i]
          BY <3>2, <1>1, <1>4, <4>1 DEF Block, Cell
        <4>3. Len(c.hash) * BlockSize + i + 1 \in 1 .. Len(m)
          BY <4>1, <1>1, <1>8
        <4> QED BY <4>1, <4>2, <4>3, <1>7 DEF Collected
      <3> QED BY <3>1, <3>2
    <2> QED BY <2>1, <2>2, <2>3, <2>4 DEF Collected
  <1>10. PutOctet(c, o) = IF d.index = BlockSize THEN ProcessMessageBlock(d) ELSE d
    BY DEF PutOctet, d, low, high
  <1>11. CASE d.index # BlockSize
    BY <1>4, <1>6, <1>9, <1>10, <1>11, <1>1, Sizes DEF Cell, n
  <1>12. CASE d.index = BlockSize
    <2> DEFINE e == ProcessMessageBlock(d)
    <2>1. /\ e \in Context /\ e.index = 0 /\ e.hash = Append(d.hash, d.block)
          /\ e.low = d.low /\ e.high = d.high
          /\ e.computed = d.computed /\ e.corrupted = d.corrupted
      BY <1>6, Compressed
    <2> HIDE DEF e
    <2>2. e.corrupted = shaSuccess => Collected(e, n)
      <3> SUFFICES ASSUME Collected(d, n) PROVE Collected(e, n)
        BY <1>9, <2>1
      <3> QED BY <2>1, <1>12, <1>6, <1>4, <1>1, FullBlock
    <2> QED BY <2>1, <2>2, <1>10, <1>12, <1>4, Sizes DEF Cell, e, n
  <1> QED BY <1>11, <1>12
------------------------------------------------------------------------------
LEMMA Zeroed ==
  ASSUME NEW c \in Context, NEW to \in 0 .. BlockSize
  PROVE  LET d == ZeroUpTo(c, to)
         IN /\ d \in Context /\ d.index = to
            /\ \A i \in Cell : d.block[i] = IF i \in c.index .. to - 1 THEN Plain(0) ELSE c.block[i]
            /\ d.hash = c.hash /\ d.low = c.low /\ d.high = c.high
            /\ d.computed = c.computed /\ d.corrupted = c.corrupted
  <1> DEFINE b == [i \in Cell |-> IF i \in c.index .. to - 1 THEN Plain(0) ELSE c.block[i]]
  <1>1. b \in Block
    BY Sizes, PlainIsContent DEF Context, Block
  <1>2. ZeroUpTo(c, to) = [c EXCEPT !.block = b, !.index = to]
    BY DEF ZeroUpTo, Context
  <1> HIDE DEF b
  <1>3. [c EXCEPT !.block = b, !.index = to] \in Context
    BY <1>1 DEF Context
  <1>4. \A i \in Cell : b[i] = IF i \in c.index .. to - 1 THEN Plain(0) ELSE c.block[i]
    BY DEF b
  <1> QED BY <1>2, <1>3, <1>4 DEF Context

(* The last block of a padded message, or the last two where the length    *)
(* does not fit behind One.                                                *)
LEMMA PadMessagePads ==
  ASSUME NEW c \in Context, NEW m \in Seq(Octet), c.index \in Cell, Collected(c, m)
  PROVE  LET e == PadMessage(c)
         IN /\ e \in Context /\ e.index = 0 /\ e.corrupted = c.corrupted
            /\ IsPadding(e.hash, m)
  <1> DEFINE ended == [c EXCEPT !.block[c.index] = Plain(One), !.index = @ + 1]
             zeroed == IF c.index > LengthAt - 1
                       THEN ZeroUpTo(ProcessMessageBlock(ZeroUpTo(ended, BlockSize)), LengthAt)
                       ELSE ZeroUpTo(ended, LengthAt)
             full == [zeroed EXCEPT
                        !.block = [i \in Cell |-> IF i < LengthAt THEN @[i]
                                                  ELSE LengthCell(c.high * Word + c.low)]]
             e == ProcessMessageBlock(full)
             k == c.index
             old == c.block
             len == Len(m)
             L == Len(c.hash)
             bits == c.high * Word + c.low
             before == L * BlockSize
             Want(at, j, i, n) ==
               IF at <= len THEN Plain(m[at])
               ELSE IF at = len + 1 THEN Plain(One)
               ELSE IF j = n /\ i >= LengthAt THEN LengthCell(OctetBits * len)
               ELSE Plain(0)
  <1> HIDE DEF Want
  <1>1. /\ k \in 0 .. BlockSize - 1 /\ c.low \in Nat /\ c.high \in Nat
        /\ old \in Block /\ c.hash \in Seq(Block) /\ L \in Nat /\ BlockSize \in Nat
        /\ LengthAt \in 1 .. BlockSize - 1 /\ LengthAt \in 0 .. BlockSize /\ LengthAt \in Nat
        /\ BlockSize \in 0 .. BlockSize /\ len \in Nat /\ before \in Nat
    BY Sizes DEF Context, Cell
  <1>2. /\ bits \in Nat /\ bits = OctetBits * len /\ len = before + k
        /\ \A j \in 1 .. L, i \in Cell : c.hash[j][i] = Plain(m[(j - 1) * BlockSize + i + 1])
        /\ \A i \in 0 .. k - 1 : old[i] = Plain(m[before + i + 1])
    BY <1>1, Sizes DEF Collected, Context
  <1>3. /\ ended \in Context /\ ended.index = k + 1 /\ ended.hash = c.hash
        /\ ended.block = [old EXCEPT ![k] = Plain(One)]
        /\ ended.corrupted = c.corrupted
    <2>1. [old EXCEPT ![k] = Plain(One)] \in Block
      BY <1>1, Sizes, PlainIsContent DEF Block, Cell
    <2>2. k + 1 \in 0 .. BlockSize
      BY <1>1
    <2> QED BY <2>1, <2>2 DEF Context
  <1>4. \A i \in Cell : ended.block[i] = IF i = k THEN Plain(One) ELSE old[i]
    BY <1>1, <1>3 DEF Block
  <1>5. PadMessage(c) = e
    BY DEF PadMessage, ended, zeroed, full, e
  <1> HIDE DEF ended, bits, L, k, old, len
  <1>6. ASSUME zeroed \in Context
        PROVE  /\ e \in Context /\ e.index = 0 /\ e.corrupted = zeroed.corrupted
               /\ e.hash = Append(zeroed.hash, full.block)
               /\ full.block = [i \in Cell |-> IF i < LengthAt THEN zeroed.block[i]
                                               ELSE LengthCell(bits)]
    <2> HIDE DEF zeroed
    <2> DEFINE b == [i \in Cell |-> IF i < LengthAt THEN zeroed.block[i] ELSE LengthCell(bits)]
    <2>1. b \in Block
      BY <1>6, <1>2, LengthIsContent DEF Context, Block
    <2>2. full = [zeroed EXCEPT !.block = b]
      BY <1>6 DEF Context, bits
    <2> HIDE DEF b, full
    <2>3. full \in Context /\ full.block = b /\ full.hash = zeroed.hash
          /\ full.corrupted = zeroed.corrupted
      BY <2>1, <2>2, <1>6 DEF Context
    <2> QED BY <2>3, Compressed DEF b
  <1>7. \A j \in 1 .. L, i \in Cell : (j - 1) * BlockSize + i + 1 \in 1 .. before
    BY <1>1, InBlocks
  <1>8. (L + 1) * BlockSize = before + BlockSize
        /\ (L + 2) * BlockSize = before + BlockSize + BlockSize
    <2>1. (L + 1) * BlockSize = before + BlockSize
      BY <1>1, OneMore
    <2>2. (L + 1 + 1) * BlockSize = (L + 1) * BlockSize + BlockSize
      BY <1>1, OneMore
    <2>3. L + 1 + 1 = L + 2
      BY <1>1
    <2> QED BY <2>1, <2>2, <2>3
  <1> HIDE DEF before
  <1>9. CASE k <= LengthAt - 1
    <2>1. zeroed = ZeroUpTo(ended, LengthAt)
      BY <1>9, <1>1 DEF k
    <2> HIDE DEF zeroed
    <2>2. /\ zeroed \in Context /\ zeroed.hash = c.hash /\ zeroed.corrupted = c.corrupted
          /\ \A i \in Cell : zeroed.block[i] = IF i \in k + 1 .. LengthAt - 1 THEN Plain(0)
                                               ELSE ended.block[i]
      <3>1. /\ zeroed \in Context /\ zeroed.hash = ended.hash /\ zeroed.corrupted = ended.corrupted
            /\ \A i \in Cell : zeroed.block[i] = IF i \in ended.index .. LengthAt - 1 THEN Plain(0)
                                                 ELSE ended.block[i]
        <4>1. ended \in Context /\ LengthAt \in 0 .. BlockSize
          BY <1>1, <1>3
        <4> QED BY <4>1, <2>1, Zeroed
      <3> QED BY <3>1, <1>3
    <2>3. /\ e \in Context /\ e.index = 0 /\ e.corrupted = c.corrupted
          /\ e.hash = Append(c.hash, full.block)
          /\ full.block = [i \in Cell |-> IF i < LengthAt THEN zeroed.block[i]
                                               ELSE LengthCell(bits)]
      BY <1>6, <2>2
    <2> HIDE DEF e, full
    <2>4. /\ Len(e.hash) = L + 1 /\ e.hash[L + 1] = full.block
          /\ \A j \in 1 .. L : e.hash[j] = c.hash[j]
      BY <2>3, <1>1 DEF L
    <2>5. \A i \in Cell : full.block[i] = IF i < k THEN Plain(m[before + i + 1])
                                          ELSE IF i = k THEN Plain(One)
                                          ELSE IF i < LengthAt THEN Plain(0)
                                          ELSE LengthCell(bits)
      <3> SUFFICES ASSUME NEW i \in Cell
                   PROVE  full.block[i] = IF i < k THEN Plain(m[before + i + 1])
                                          ELSE IF i = k THEN Plain(One)
                                          ELSE IF i < LengthAt THEN Plain(0)
                                          ELSE LengthCell(bits)
        OBVIOUS
      <3>1. full.block[i] = IF i < LengthAt THEN zeroed.block[i] ELSE LengthCell(bits)
        BY <2>3
      <3>2. zeroed.block[i] = IF i \in k + 1 .. LengthAt - 1 THEN Plain(0)
                              ELSE IF i = k THEN Plain(One) ELSE old[i]
        BY <2>2, <1>4
      <3>3. i \in 0 .. BlockSize - 1 /\ (i < k => old[i] = Plain(m[before + i + 1]))
        BY <1>1, <1>2 DEF Cell
      <3> QED BY <3>1, <3>2, <3>3, <1>1, <1>9
    <2>6. IsPadding(e.hash, m)
      <3>1. len + 1 + (BlockSize - LengthAt) <= Len(e.hash) * BlockSize
            /\ Len(e.hash) * BlockSize < len + 1 + (BlockSize - LengthAt) + BlockSize
        <4>1. Len(e.hash) * BlockSize = before + BlockSize
          BY <1>8, <2>4
        <4>2. /\ len + 1 + (BlockSize - LengthAt) <= before + BlockSize
              /\ before + BlockSize < len + 1 + (BlockSize - LengthAt) + BlockSize
          <5> HIDE DEF L
          <5> QED BY <1>1, <1>2, <1>9
        <4> HIDE DEF e
        <4> QED BY <4>1, <4>2
      <3>2. ASSUME NEW j \in 1 .. L + 1, NEW i \in Cell
            PROVE  e.hash[j][i] = Want((j - 1) * BlockSize + i + 1, j, i, Len(e.hash))
        <4> DEFINE at == (j - 1) * BlockSize + i + 1
        <4>1. CASE j \in 1 .. L
          <5>1. at \in 1 .. len
            <6>1. at \in 1 .. before
              BY <1>7, <4>1
            <6> QED BY <6>1, <1>1, <1>2
          <5>2. e.hash[j][i] = Plain(m[at])
            BY <1>2, <2>4, <4>1
          <5> HIDE DEF at
          <5> QED BY <5>1, <5>2 DEF at, Want
        <4>2. CASE j = L + 1
          <5>1. i \in 0 .. BlockSize - 1 /\ j - 1 = L /\ j = Len(e.hash) /\ at = before + i + 1
            BY <4>2, <1>1, <2>4 DEF Cell, before
          <5>2. e.hash[j][i] = full.block[i]
            BY <2>4, <4>2
          <5> HIDE DEF at
          <5>3. full.block[i] = Want(at, j, i, Len(e.hash))
            <6>1. /\ i \in Nat /\ k \in Nat /\ before \in Nat /\ at = before + i + 1
                  /\ len = before + k /\ k <= LengthAt - 1
              BY <5>1, <1>1, <1>2, <1>9
            <6>2. full.block[i] = IF i < k THEN Plain(m[before + i + 1])
                                  ELSE IF i = k THEN Plain(One)
                                  ELSE IF i < LengthAt THEN Plain(0)
                                  ELSE LengthCell(bits)
              BY <2>5
            <6>3. Want(at, j, i, Len(e.hash)) =
                    IF at <= len THEN Plain(m[at])
                    ELSE IF at = len + 1 THEN Plain(One)
                    ELSE IF i >= LengthAt THEN LengthCell(OctetBits * len)
                    ELSE Plain(0)
              BY <5>1 DEF Want
            <6>4. LengthAt \in Nat /\ LengthCell(bits) = LengthCell(OctetBits * len)
              BY <1>1, <1>2
            <6>5. CASE i < k
              BY <6>1, <6>2, <6>3, <6>5
            <6>6. CASE i = k
              BY <6>1, <6>2, <6>3, <6>6
            <6>7. CASE i > k
              BY <6>1, <6>2, <6>3, <6>4, <6>7
            <6> QED BY <6>1, <6>5, <6>6, <6>7
          <5> QED BY <5>2, <5>3 DEF at
        <4> QED BY <4>1, <4>2, <1>1
      <3> QED BY <3>1, <3>2, <2>4 DEF IsPadding, Want, len
    <2> QED BY <2>3, <2>6, <1>5
  <1>10. CASE k > LengthAt - 1
    <2> DEFINE first == ZeroUpTo(ended, BlockSize)
               between == ProcessMessageBlock(first)
    <2>1. zeroed = ZeroUpTo(between, LengthAt)
      BY <1>10 DEF k
    <2> HIDE DEF zeroed
    <2>2. /\ first \in Context /\ first.hash = c.hash /\ first.corrupted = c.corrupted
          /\ \A i \in Cell : first.block[i] = IF i \in k + 1 .. BlockSize - 1 THEN Plain(0)
                                              ELSE ended.block[i]
      <3>1. /\ first \in Context /\ first.hash = ended.hash /\ first.corrupted = ended.corrupted
            /\ \A i \in Cell : first.block[i] = IF i \in ended.index .. BlockSize - 1 THEN Plain(0)
                                                ELSE ended.block[i]
        <4>1. ended \in Context /\ BlockSize \in 0 .. BlockSize
          BY <1>1, <1>3
        <4> QED BY <4>1, Zeroed
      <3> QED BY <3>1, <1>3
    <2> HIDE DEF first
    <2>3. /\ between \in Context /\ between.hash = Append(c.hash, first.block)
          /\ between.corrupted = c.corrupted /\ between.index = 0
      BY <2>2, Compressed
    <2> HIDE DEF between
    <2>4. /\ zeroed \in Context /\ zeroed.hash = Append(c.hash, first.block)
          /\ zeroed.corrupted = c.corrupted
          /\ \A i \in Cell : zeroed.block[i] = IF i \in 0 .. LengthAt - 1 THEN Plain(0)
                                               ELSE between.block[i]
      <3>1. /\ zeroed \in Context /\ zeroed.hash = between.hash
            /\ zeroed.corrupted = between.corrupted
            /\ \A i \in Cell : zeroed.block[i] = IF i \in between.index .. LengthAt - 1 THEN Plain(0)
                                                 ELSE between.block[i]
        <4>1. between \in Context /\ LengthAt \in 0 .. BlockSize
          BY <1>1, <2>3
        <4> QED BY <4>1, <2>1, Zeroed
      <3> QED BY <3>1, <2>3
    <2>5. /\ e \in Context /\ e.index = 0 /\ e.corrupted = c.corrupted
          /\ e.hash = Append(zeroed.hash, full.block)
          /\ full.block = [i \in Cell |-> IF i < LengthAt THEN zeroed.block[i]
                                               ELSE LengthCell(bits)]
      BY <1>6, <2>4
    <2> HIDE DEF e, full
    <2>6. /\ Len(e.hash) = L + 2 /\ e.hash[L + 1] = first.block /\ e.hash[L + 2] = full.block
          /\ \A j \in 1 .. L : e.hash[j] = c.hash[j]
      <3> DEFINE hash == c.hash
                 one == Append(hash, first.block)
      <3>1. hash \in Seq(Block) /\ first.block \in Block /\ full.block \in Block
        BY <2>2, <2>5, <1>1, SMTT(30) DEF Context
      <3> HIDE DEF hash
      <3>2. /\ one \in Seq(Block) /\ Len(one) = Len(hash) + 1 /\ one[Len(hash) + 1] = first.block
            /\ \A j \in 1 .. Len(hash) : one[j] = hash[j]
        BY <3>1
      <3>3. L = Len(hash) /\ L \in Nat /\ e.hash = Append(one, full.block)
        BY <2>4, <2>5, <1>1 DEF L, hash
      <3> HIDE DEF one
      <3>4. /\ Len(e.hash) = Len(one) + 1 /\ e.hash[Len(one) + 1] = full.block
            /\ \A j \in 1 .. Len(one) : e.hash[j] = one[j]
        BY <3>1, <3>2, <3>3
      <3>5. L + 1 \in 1 .. Len(one) /\ Len(one) + 1 = L + 2 /\ \A j \in 1 .. L : j \in 1 .. Len(one)
        BY <3>2, <3>3
      <3> QED BY <3>2, <3>3, <3>4, <3>5 DEF hash
    <2>7. \A i \in Cell : first.block[i] = IF i < k THEN Plain(m[before + i + 1])
                                           ELSE IF i = k THEN Plain(One) ELSE Plain(0)
      BY <2>2, <1>4, <1>1, <1>2 DEF Cell
    <2>8. \A i \in Cell : full.block[i] = IF i < LengthAt THEN Plain(0) ELSE LengthCell(bits)
      BY <2>4, <2>5, <1>1 DEF Cell
    <2>9. IsPadding(e.hash, m)
      <3>1. len + 1 + (BlockSize - LengthAt) <= Len(e.hash) * BlockSize
            /\ Len(e.hash) * BlockSize < len + 1 + (BlockSize - LengthAt) + BlockSize
        <4>1. Len(e.hash) * BlockSize = before + BlockSize + BlockSize
          BY <1>8, <2>6
        <4>2. /\ len + 1 + (BlockSize - LengthAt) <= before + BlockSize + BlockSize
              /\ before + BlockSize + BlockSize < len + 1 + (BlockSize - LengthAt) + BlockSize
          <5>1. /\ k \in 0 .. BlockSize - 1 /\ k > LengthAt - 1 /\ len = before + k /\ before \in Nat
                /\ LengthAt \in 1 .. BlockSize - 1 /\ BlockSize \in Nat
            BY <1>1, <1>2, <1>10
          <5> QED BY <5>1
        <4> HIDE DEF e
        <4> QED BY <4>1, <4>2
      <3>2. ASSUME NEW j \in 1 .. L + 2, NEW i \in Cell
            PROVE  e.hash[j][i] = Want((j - 1) * BlockSize + i + 1, j, i, Len(e.hash))
        <4> DEFINE at == (j - 1) * BlockSize + i + 1
        <4>1. CASE j \in 1 .. L
          <5>1. at \in 1 .. len
            <6>1. at \in 1 .. before
              BY <1>7, <4>1
            <6> QED BY <6>1, <1>1, <1>2
          <5>2. e.hash[j][i] = Plain(m[at])
            BY <1>2, <2>6, <4>1
          <5> HIDE DEF at
          <5> QED BY <5>1, <5>2 DEF at, Want
        <4>2. CASE j = L + 1
          <5>1. i \in 0 .. BlockSize - 1 /\ j - 1 = L /\ j # Len(e.hash) /\ at = before + i + 1
            BY <4>2, <1>1, <2>6 DEF Cell, before
          <5>2. e.hash[j][i] = first.block[i]
            BY <2>6, <4>2
          <5> HIDE DEF at
          <5>3. first.block[i] = Want(at, j, i, Len(e.hash))
            BY <5>1, <1>1, <1>2, <1>10, <2>7 DEF Want
          <5> QED BY <5>2, <5>3 DEF at
        <4>3. CASE j = L + 2
          <5>1. i \in 0 .. BlockSize - 1 /\ j = Len(e.hash) /\ at = before + BlockSize + i + 1
            BY <4>3, <1>1, <1>8, <2>6 DEF Cell
          <5>2. e.hash[j][i] = full.block[i]
            BY <2>6, <4>3
          <5> HIDE DEF at
          <5>3. full.block[i] = Want(at, j, i, Len(e.hash))
            BY <5>1, <1>1, <1>2, <2>8 DEF Want
          <5> QED BY <5>2, <5>3 DEF at
        <4> QED BY <4>1, <4>2, <4>3, <1>1
      <3> QED BY <3>1, <3>2, <2>6 DEF IsPadding, Want, len
    <2> QED BY <2>5, <2>9, <1>5
  <1> QED BY <1>9, <1>10, <1>1
------------------------------------------------------------------------------
LEMMA Started ==
  ASSUME NEW c \in Context
  PROVE  /\ ResetContext(c) \in Context /\ ResetContext(c).index \in Cell
         /\ ~ResetContext(c).computed /\ Collected(ResetContext(c), <<>>)
  <1> DEFINE d == ResetContext(c)
  <1>1. /\ BlockSize \in Nat \ {0} /\ Word \in Nat \ {0} /\ OctetBits \in Nat
        /\ 0 \in Cell /\ 0 \in 0 .. BlockSize /\ 0 \in 0 .. Word - 1
    BY Sizes DEF Cell
  <1>2. d \in Context /\ d.index = 0 /\ d.low = 0 /\ d.high = 0 /\ d.hash = <<>> /\ ~d.computed
    <2>1. d.index = 0 /\ d.low = 0 /\ d.high = 0 /\ d.hash = <<>> /\ d.computed = FALSE
      BY DEF ResetContext, Context
    <2>2. <<>> \in Seq(Block) /\ shaSuccess \in {shaSuccess, shaNull, shaStateError}
          /\ FALSE \in BOOLEAN
      OBVIOUS
    <2>3. d \in Context
      BY <1>1, <2>2 DEF ResetContext, Context
    <2> QED BY <2>1, <2>3
  <1> HIDE DEF d
  <1>3. Collected(d, <<>>)
    BY <1>1, <1>2 DEF Collected
  <1> QED BY <1>1, <1>2, <1>3 DEF d

LEMMA Finished ==
  ASSUME NEW c \in Context, NEW m \in Seq(Octet), c.index \in Cell, Collected(c, m)
  PROVE  LET e == Blank(PadMessage(c))
         IN e \in Context /\ e.index \in Cell /\ e.computed /\ IsPadding(e.hash, m)
  <1> DEFINE p == PadMessage(c)
             b == [i \in Cell |-> Plain(0)]
             e == [p EXCEPT !.block = b, !.low = 0, !.high = 0, !.computed = TRUE]
  <1>1. p \in Context /\ p.index = 0 /\ IsPadding(p.hash, m)
    BY PadMessagePads
  <1> HIDE DEF p
  <1>2. b \in Block /\ 0 \in 0 .. Word - 1 /\ 0 \in Cell
    BY Sizes, PlainIsContent DEF Block, Cell
  <1>3. Blank(p) = e
    BY DEF Blank
  <1> HIDE DEF b
  <1>4. e \in Context /\ e.index = p.index /\ e.hash = p.hash /\ e.computed
    BY <1>1, <1>2 DEF Context
  <1> QED BY <1>1, <1>2, <1>3, <1>4 DEF p

LEMMA InitDigests == DigestInit => DigestInv
  <1> SUFFICES ASSUME DigestInit PROVE DigestInv
    OBVIOUS
  <1>1. ctx \in Context /\ ctx.index \in Cell /\ ~ctx.computed
    <2>1. [i \in Cell |-> Plain(0)] \in Block
      BY Sizes, PlainIsContent DEF Block
    <2>2. 0 \in 0 .. BlockSize /\ 0 \in 0 .. Word - 1 /\ 0 \in Cell
      BY Sizes DEF Cell
    <2> QED BY <2>1, <2>2 DEF DigestInit, Context
  <1>2. ctx.index = 0 /\ ctx.low = 0 /\ ctx.high = 0 /\ ctx.hash = <<>>
    BY DEF DigestInit
  <1>3. Collected(ctx, <<>>)
    BY <1>2, Sizes DEF Collected
  <1>4. rest = <<>> /\ msg = <<>> /\ <<>> \in Seq(Octet)
    BY DEF DigestInit
  <1> QED BY <1>1, <1>3, <1>4 DEF DigestInv, DigestTypeOK, Digested

LEMMA StepDigests == DigestInv /\ [DigestNext(Seq(Octet))]_digestVars => DigestInv'
  <1> SUFFICES ASSUME DigestInv, [DigestNext(Seq(Octet))]_digestVars PROVE DigestInv'
    OBVIOUS
  <1>1. /\ ctx \in Context /\ ctx.index \in Cell /\ rest \in Seq(Octet) /\ msg \in Seq(Octet)
        /\ rest # <<>> => ~ctx.computed
        /\ ~ctx.computed /\ ctx.corrupted = shaSuccess => Collected(ctx, msg)
        /\ Digested
    BY DEF DigestInv, DigestTypeOK
  <1>2. CASE Reset
    <2>1. ctx' = ResetContext(ctx) /\ msg' = <<>> /\ rest' = <<>> /\ <<>> \in Seq(Octet)
      BY <1>2 DEF Reset
    <2>2. /\ ResetContext(ctx) \in Context /\ ResetContext(ctx).index \in Cell
          /\ ~ResetContext(ctx).computed /\ Collected(ResetContext(ctx), <<>>)
      BY <1>1, Started
    <2> QED BY <2>1, <2>2 DEF DigestInv, DigestTypeOK, Digested
  <1>3. CASE \E data \in Seq(Octet) : Input(data)
    <2> PICK data \in Seq(Octet) : Input(data)
      BY <1>3
    <2>1. CASE ctx.computed
      <3>1. rest' = <<>> /\ msg' = msg /\ ctx' = [ctx EXCEPT !.corrupted = shaStateError]
        BY <2>1 DEF Input, Refuses
      <3>2. /\ ctx' \in Context /\ ctx'.index = ctx.index /\ ctx'.computed
            /\ ctx'.corrupted = shaStateError
        BY <1>1, <2>1, <3>1 DEF Context
      <3> QED BY <1>1, <3>1, <3>2
            DEF DigestInv, DigestTypeOK, Digested, shaStateError, shaSuccess
    <2>2. CASE ~ctx.computed
      <3>1. rest' \in Seq(Octet) /\ msg' = msg /\ ctx' = ctx
        BY <2>2 DEF Input
      <3> QED BY <1>1, <2>2, <3>1 DEF DigestInv, DigestTypeOK, Digested
    <2> QED BY <2>1, <2>2
  <1>4. CASE NextOctet
    <2>1. /\ rest # <<>> /\ ctx.corrupted = shaSuccess /\ ctx' = PutOctet(ctx, Head(rest))
          /\ msg' = Append(msg, Head(rest)) /\ rest' = Tail(rest)
      BY <1>4 DEF NextOctet
    <2>2. Head(rest) \in Octet /\ Tail(rest) \in Seq(Octet)
      BY <1>1, <2>1
    <2>3. ~ctx.computed /\ Collected(ctx, msg)
      BY <1>1, <2>1
    <2>4. /\ ctx' \in Context /\ ctx'.index \in Cell /\ ctx'.computed = ctx.computed
          /\ ctx'.corrupted = shaSuccess => Collected(ctx', msg')
      BY <1>1, <2>1, <2>2, <2>3, PutOctetCollects
    <2>5. msg' \in Seq(Octet)
      BY <1>1, <2>1, <2>2
    <2> QED BY <2>1, <2>2, <2>3, <2>4, <2>5 DEF DigestInv, DigestTypeOK, Digested
  <1>5. CASE TooLong
    BY <1>1, <1>5 DEF TooLong, DigestInv, DigestTypeOK, Digested
  <1>6. CASE Result
    <2>1. rest = <<>> /\ rest' = rest /\ msg' = msg
      BY <1>6 DEF Result
    <2>2. CASE ctx.corrupted # shaSuccess \/ ctx.computed
      <3>1. ctx' = ctx
        BY <1>6, <2>2 DEF Result
      <3> QED BY <1>1, <2>1, <3>1 DEF DigestInv, DigestTypeOK, Digested
    <2>3. CASE ctx.corrupted = shaSuccess /\ ~ctx.computed
      <3>1. ctx' = Blank(PadMessage(ctx))
        BY <1>6, <2>3 DEF Result
      <3>2. ctx' \in Context /\ ctx'.index \in Cell /\ ctx'.computed /\ IsPadding(ctx'.hash, msg')
        BY <1>1, <2>1, <2>3, <3>1, Finished
      <3> QED BY <1>1, <2>1, <3>2 DEF DigestInv, DigestTypeOK, Digested
    <2> QED BY <2>2, <2>3, <1>1
  <1>7. CASE UNCHANGED digestVars
    BY <1>1, <1>7 DEF digestVars, DigestInv, DigestTypeOK, Digested
  <1> QED BY <1>2, <1>3, <1>4, <1>5, <1>6, <1>7 DEF DigestNext

(* Whatever pieces a message comes in and however often Result is asked    *)
(* for, a digest that is given without an error is that of exactly the     *)
(* octets taken since Reset, padded as the standard asks (SHA1Input,       *)
(* SHA1PadMessage, SHA1Result).                                            *)
THEOREM DigestIsOfMessage == DigestSpec => []Digested
  <1>1. DigestInv => Digested
    BY DEF DigestInv
  <1> QED BY <1>1, InitDigests, StepDigests, PTL DEF DigestSpec

------------------------------------------------------------------------------
(* A message that the length field of SHA-1 cannot count.                  *)
TooMany(m) == OctetBits * Len(m) >= Word * Word
Named ==
  \A path \in DOMAIN disk :
    path[1] = "sha" => IsPadding(path[2], disk[path]) \/ TooMany(disk[path])

(* The file of the attic copy at path p holds what was hashed and what is  *)
(* about to be, and is written at its end.                                 *)
CopyAt(p) ==
  /\ p \in TmpPath /\ p \in DOMAIN disk
  /\ m_fd["rand"] \in DOMAIN kernel
  /\ kernel[m_fd["rand"]] = [path |-> p, offset |-> Len(disk[p])]
  /\ disk[p] \in Seq(Octet)
  /\ ctx.corrupted = shaSuccess => disk[p] = msg \o rest
  /\ ctx.corrupted # shaSuccess => TooMany(disk[p])
CopyInv ==
  pc \in {"dump", "result", "rename"} =>
    /\ left \in Seq(Octet)
    /\ \E p \in TmpPath : CopyAt(p)
    /\ pc # "rename" => ~ctx.computed
    /\ pc = "rename" => rest = <<>> /\ (ctx.corrupted = shaSuccess => ctx.computed)

(* Metadata are written to no other file, and a program that only calls    *)
(* File never names one after a digest.                                    *)
OutInv == pc = "write" => PathOf("out") = MetaPath
FreeInv == pc = "file" => \A path \in DOMAIN disk : path[1] # "sha"

StorageInv ==
  /\ DigestInv
  /\ DOMAIN m_fd = Handle
  /\ Named /\ CopyInv /\ OutInv /\ FreeInv

Copying == {"dump", "result", "rename"}

------------------------------------------------------------------------------
LEMMA StorageSizes ==
  /\ "rand" \in Handle /\ "in" \in Handle /\ "out" \in Handle
  /\ FreeHandles \subseteq Handle
  /\ Pages \subseteq Seq(Octet) /\ FreeChunks \subseteq Seq(Octet)
  BY StorageAssumption

LEMMA Opens ==
  ASSUME NEW f \in Handle, NEW path, DOMAIN m_fd = Handle, Open(f, path)
  PROVE  /\ DOMAIN m_fd' = Handle /\ m_fd'[f] \in DOMAIN kernel'
         /\ kernel'[m_fd'[f]] = [path |-> path, offset |-> 0]
  <1> DEFINE others == Closed(f)
             d == Descriptor(DOMAIN others)
  <1>1. /\ kernel' = With(others, d, [path |-> path, offset |-> 0])
        /\ m_fd' = [m_fd EXCEPT ![f] = d]
    BY DEF Open
  <1> HIDE DEF others, d
  <1> QED BY <1>1 DEF With

LEMMA Closes ==
  ASSUME NEW f \in Handle, DOMAIN m_fd = Handle, Close(f)
  PROVE  DOMAIN m_fd' = Handle /\ disk' = disk
  BY DEF Close

(* A write at the end of a file is an append. *)
LEMMA Appended ==
  ASSUME NEW old \in Seq(Octet), NEW data \in Seq(Octet), NEW count \in 0 .. Len(data)
  PROVE  LET end == Len(old) + count
             new == [i \in 1 .. (IF end < Len(old) THEN Len(old) ELSE end) |->
                       IF i > Len(old) /\ i <= end THEN data[i - Len(old)]
                       ELSE IF i <= Len(old) THEN old[i] ELSE 0]
         IN new = old \o SubSeq(data, 1, count)
  <1> DEFINE n == Len(old)
             end == n + count
             new == [i \in 1 .. (IF end < n THEN n ELSE end) |->
                       IF i > n /\ i <= end THEN data[i - n]
                       ELSE IF i <= n THEN old[i] ELSE 0]
             piece == SubSeq(data, 1, count)
             joined == old \o piece
  <1>1. n \in Nat /\ count \in Nat /\ count <= Len(data) /\ end \in Nat /\ ~(end < n)
    OBVIOUS
  <1>2. piece \in Seq(Octet) /\ Len(piece) = count /\ \A i \in 1 .. count : piece[i] = data[i]
    BY SubSeqProperties
  <1> HIDE DEF piece
  <1>3. joined \in Seq(Octet) /\ Len(joined) = end
        /\ \A i \in 1 .. end : joined[i] = IF i <= n THEN old[i] ELSE piece[i - n]
    BY <1>2
  <1> HIDE DEF n
  <1>4. new = [i \in 1 .. end |-> IF i <= n THEN old[i] ELSE data[i - n]]
    BY <1>1
  <1>5. \A i \in 1 .. end : ~(i <= n) => i - n \in 1 .. count
    BY <1>1
  <1>6. joined = [i \in 1 .. end |-> joined[i]]
    <2>1. joined \in [1 .. Len(joined) -> Octet]
      BY <1>3, LenProperties
    <2> QED BY <1>3, <2>1
  <1>7. \A i \in 1 .. end : joined[i] = IF i <= n THEN old[i] ELSE data[i - n]
    BY <1>2, <1>3, <1>5
  <1>8. new = joined
    BY <1>4, <1>6, <1>7
  <1> HIDE DEF new, joined
  <1> QED BY <1>8 DEF new, joined, piece, n

LEMMA MoreOctets ==
  ASSUME NEW m, NEW n, TooMany(m), Len(m) \in Nat, Len(n) \in Nat, Len(m) <= Len(n)
  PROVE  TooMany(n)
  <1>1. OctetBits \in Nat /\ Word \in Nat
    BY Sizes
  <1>2. OctetBits * Len(n) = OctetBits * Len(m) + OctetBits * (Len(n) - Len(m))
    BY <1>1
  <1>3. OctetBits * (Len(n) - Len(m)) \in Nat /\ OctetBits * Len(m) \in Nat /\ Word * Word \in Nat
    BY <1>1
  <1> QED BY <1>2, <1>3 DEF TooMany

(* The context refuses an octet only when its bits fill both words.        *)
LEMMA FullContext ==
  ASSUME NEW c \in Context, NEW m \in Seq(Octet), NEW o \in Octet, c.index \in Cell,
         Collected(c, m), c.corrupted = shaSuccess, PutOctet(c, o).corrupted # shaSuccess
  PROVE  TooMany(Append(m, o))
  <1> DEFINE low == (c.low + OctetBits) % Word
             high == IF low = 0 THEN (c.high + 1) % Word ELSE c.high
             d == [c EXCEPT !.block[c.index] = Plain(o), !.index = @ + 1,
                     !.low = low, !.high = high,
                     !.corrupted = IF low = 0 /\ high = 0 THEN shaNull ELSE @]
  <1>1. /\ c.low \in 0 .. Word - 1 /\ c.high \in 0 .. Word - 1 /\ Len(m) \in Nat
        /\ Word \in Nat \ {0} /\ OctetBits \in Nat \ {0}
        /\ c.high * Word + c.low = OctetBits * Len(m)
    BY Sizes DEF Context, Collected
  <1>2. low = 0 /\ high = 0
    <2>1. d.corrupted = IF low = 0 /\ high = 0 THEN shaNull ELSE c.corrupted
      BY DEF Context
    <2>2. PutOctet(c, o) = IF d.index = BlockSize THEN [d EXCEPT !.hash = Append(@, d.block), !.index = 0] ELSE d
      BY DEF PutOctet, ProcessMessageBlock
    <2> HIDE DEF d, low, high
    <2>3. PutOctet(c, o).corrupted = d.corrupted
      BY <2>2
    <2> QED BY <2>1, <2>3
  <1>3. c.low + OctetBits <= Word
    <2>1. /\ c.high \in Nat /\ c.low \in 0 .. Word - 1 /\ Len(m) \in Nat
          /\ c.high * Word + c.low = OctetBits * Len(m)
      BY <1>1
    <2> DEFINE h == c.high   l == c.low   n == Len(m)
    <2>2. h \in Nat /\ l \in 0 .. Word - 1 /\ n \in Nat /\ h * Word + l = OctetBits * n
      BY <2>1
    <2> HIDE DEF h, l, n
    <2>3. l + OctetBits <= Word
      BY <2>2, NoPartialCarry
    <2> QED BY <2>3 DEF l
  <1>4. c.low + OctetBits = Word
    <2>1. c.low + OctetBits \in Nat /\ c.low + OctetBits # 0
      BY <1>1
    <2>2. CASE c.low + OctetBits < Word
      BY <1>1, <1>2, <2>1, <2>2, Small
    <2> QED BY <1>1, <1>3, <2>1, <2>2
  <1>5. c.high + 1 = Word
    <2>1. c.high + 1 \in Nat /\ c.high + 1 # 0 /\ c.high + 1 <= Word
      BY <1>1
    <2>2. CASE c.high + 1 < Word
      BY <1>1, <1>2, <2>1, <2>2, Small
    <2> QED BY <1>1, <2>1, <2>2
  <1>6. OctetBits * (Len(m) + 1) = OctetBits * Len(m) + OctetBits
    BY <1>1
  <1>7. (c.high + 1) * Word = c.high * Word + Word
    BY <1>1, OneMore
  <1>8. OctetBits * (Len(m) + 1) = Word * Word
    <2>1. (c.high + 1) * Word = Word * Word
      BY <1>5
    <2> DEFINE hw == c.high * Word
               ol == OctetBits * Len(m)
               ww == Word * Word
    <2>2. hw \in Nat /\ ol \in Nat /\ ww \in Nat
      BY <1>1
    <2>3. ww = hw + Word /\ hw + c.low = ol
      BY <1>1, <1>7, <2>1
    <2>4. OctetBits * (Len(m) + 1) = ol + OctetBits
      BY <1>6
    <2> HIDE DEF hw, ol, ww
    <2>5. ol + OctetBits = ww
      BY <1>1, <1>4, <2>2, <2>3
    <2> QED BY <2>4, <2>5 DEF ww
  <1>9. Len(Append(m, o)) = Len(m) + 1
    OBVIOUS
  <1>10. Word * Word \in Nat
    BY <1>1
  <1> QED BY <1>8, <1>9, <1>10 DEF TooMany
------------------------------------------------------------------------------
LEMMA StorageInits == Init => StorageInv
  <1> SUFFICES ASSUME Init PROVE StorageInv
    OBVIOUS
  <1>1. DigestInv
    BY InitDigests DEF Init
  <1>2. DOMAIN m_fd = Handle /\ \A path \in DOMAIN disk : path = MetaPath
    BY DEF Init, FileInit
  <1>3. MetaPath[1] # "sha"
    BY DEF MetaPath
  <1>4. pc \in {"idle", "json", "sha", "file"}
    BY DEF Init
  <1> QED BY <1>1, <1>2, <1>3, <1>4 DEF StorageInv, Named, CopyInv, OutInv, FreeInv

(* A step that is not about the copy, nor at the metadata's write, leaves  *)
(* the invariant alone when it leaves the disk alone.                      *)
LEMMA Elsewhere ==
  ASSUME StorageInv, DigestInv', disk' = disk, DOMAIN m_fd' = Handle,
         pc' \notin Copying \cup {"write"}, pc' = "file" => pc = "file"
  PROVE  StorageInv'
  BY DEF StorageInv, Named, CopyInv, OutInv, FreeInv, Copying

LEMMA NoDigestStep ==
  ASSUME DigestInv, UNCHANGED digestVars
  PROVE  DigestInv'
  BY StepDigests

(* Calls on Json only, or on variables of the handler.                     *)
LEMMA NothingMoves ==
  ASSUME StorageInv, UNCHANGED <<digestVars, fileVars, pc, left>>
  PROVE  StorageInv'
  <1>1. DigestInv'
    BY NoDigestStep DEF StorageInv
  <1>2. /\ disk' = disk /\ kernel' = kernel /\ m_fd' = m_fd /\ pc' = pc /\ left' = left
        /\ ctx' = ctx /\ rest' = rest /\ msg' = msg
    BY DEF fileVars, digestVars
  <1> QED BY <1>1, <1>2
          DEF StorageInv, Named, CopyInv, CopyAt, OutInv, FreeInv, PathOf

LEMMA UpdateKeeps == ASSUME StorageInv, Update PROVE StorageInv'
  <1>1. PICK path \in TmpPath \ DOMAIN disk : OpenForWrite("rand", path)
    BY DEF Update, OpenRandom
  <1>2. /\ Open("rand", path) /\ disk' = With(disk, path, <<>>)
        /\ Reset /\ pc' = "dump" /\ left' \in Seq(Octet)
    BY <1>1, StorageSizes DEF Update, OpenForWrite, Goto
  <1>3. /\ DOMAIN m_fd' = Handle /\ m_fd'["rand"] \in DOMAIN kernel'
        /\ kernel'[m_fd'["rand"]] = [path |-> path, offset |-> 0]
    BY <1>2, StorageSizes, Opens DEF StorageInv
  <1>4. DigestInv'
    BY <1>2, StepDigests DEF StorageInv, DigestNext
  <1>5. /\ ctx' = ResetContext(ctx) /\ msg' = <<>> /\ rest' = <<>> /\ ctx \in Context
    BY <1>2 DEF Reset, StorageInv, DigestInv, DigestTypeOK
  <1>6. ~ctx'.computed /\ ctx'.corrupted = shaSuccess
    BY <1>5 DEF ResetContext, Context
  <1>7. /\ disk'[path] = <<>> /\ path \in DOMAIN disk'
        /\ \A other \in DOMAIN disk' : other # path => other \in DOMAIN disk /\ disk'[other] = disk[other]
    BY <1>2 DEF With
  <1>8. path[1] # "sha"
    BY DEF TmpPath
  <1>9. Named'
    BY <1>7, <1>8 DEF Named, StorageInv
  <1>10. CopyAt(path)'
    BY <1>3, <1>5, <1>6, <1>7 DEF CopyAt
  <1>11. CopyInv'
    BY <1>2, <1>6, <1>10 DEF CopyInv
  <1> QED BY <1>2, <1>3, <1>4, <1>9, <1>11 DEF StorageInv, OutInv, FreeInv

(* One write of the copy: the file grows by what the context is given.     *)
LEMMA Grows ==
  ASSUME StorageInv, pc \in {"dump", "result"}, rest = <<>>,
         NEW data \in Seq(Octet), NEW count \in 0 .. Len(data), WriteHashed(data, count)
  PROVE  /\ Named' /\ DOMAIN m_fd' = Handle /\ DigestInv' /\ ~ctx'.computed
         /\ left' \in Seq(Octet)
         /\ ~Refuses \/ count = 0 => \E p \in TmpPath : CopyAt(p)'
  <1>1. PICK p \in TmpPath : CopyAt(p)
    BY DEF StorageInv, CopyInv
  <1> DEFINE piece == SubSeq(data, 1, count)
             old == disk[p]
             end == Len(old) + count
             new == [i \in 1 .. (IF end < Len(old) THEN Len(old) ELSE end) |->
                       IF i > Len(old) /\ i <= end THEN data[i - Len(old)]
                       ELSE IF i <= Len(old) THEN old[i] ELSE 0]
  <1>2. /\ p \in DOMAIN disk /\ old \in Seq(Octet) /\ m_fd["rand"] \in DOMAIN kernel
        /\ kernel[m_fd["rand"]] = [path |-> p, offset |-> Len(old)]
    BY <1>1 DEF CopyAt
  <1>3. PathOf("rand") = p /\ Offset("rand") = Len(old) /\ Content("rand") = old
    BY <1>2 DEF PathOf, Offset, Content
  <1>4. /\ disk' = [disk EXCEPT ![p] = new] /\ m_fd' = m_fd
        /\ kernel' = [kernel EXCEPT ![m_fd["rand"]].offset = end]
    BY <1>3 DEF WriteHashed, Write, MoveTo
  <1>5. new = old \o piece
    BY <1>2, Appended
  <1>6. piece \in Seq(Octet) /\ Len(piece) = count
    BY SubSeqProperties
  <1> HIDE DEF piece, new, old
  <1>7. disk' = [disk EXCEPT ![p] = old \o piece] /\ Len(old \o piece) = end
        /\ old \o piece \in Seq(Octet)
    BY <1>2, <1>4, <1>5, <1>6 DEF old
  <1>8. kernel'[m_fd["rand"]] = [path |-> p, offset |-> end] /\ m_fd["rand"] \in DOMAIN kernel'
    BY <1>2, <1>4
  <1>9. p[1] # "sha"
    BY DEF TmpPath
  <1>10. Named'
    BY <1>7, <1>9 DEF StorageInv, Named
  <1>11. left' \in Seq(Octet)
    <2>1. left \in Seq(Octet) /\ left' = SubSeq(left, count + 1, Len(left))
      BY DEF StorageInv, CopyInv, WriteHashed
    <2> QED BY <2>1
  <1>12. DigestInv' /\ ctx' = ctx /\ msg' = msg /\ ~ctx.computed
        /\ rest' = IF Refuses THEN <<>> ELSE piece
    <2>1. DigestInv /\ ~ctx.computed
      BY DEF StorageInv, CopyInv
    <2>2. CASE count = 0
      <3>1. UNCHANGED digestVars
        BY <2>2 DEF WriteHashed
      <3>2. piece = <<>>
        BY <1>6, <2>2, EmptySeq
      <3> QED BY <2>1, <3>1, <3>2, NoDigestStep DEF digestVars
    <2>3. CASE count > 0
      <3>1. Input(piece)
        BY <2>3 DEF WriteHashed, piece
      <3>2. DigestInv'
        BY <1>6, <2>1, <3>1, StepDigests DEF DigestNext
      <3> QED BY <2>1, <3>1, <3>2 DEF Input
    <2> QED BY <2>2, <2>3
  <1>13. ASSUME ~Refuses \/ count = 0 PROVE CopyAt(p)'
    <2>1. p \in DOMAIN disk' /\ disk'[p] = old \o piece
      BY <1>2, <1>7
    <2>2. CASE ctx.corrupted = shaSuccess
      <3>1. ~Refuses
        BY <1>12, <2>2 DEF Refuses
      <3>2. old = msg \o rest /\ msg \in Seq(Octet)
        BY <1>1, <2>2 DEF CopyAt, old, StorageInv, DigestInv, DigestTypeOK
      <3>3. old \o piece = msg \o rest'
        BY <1>12, <3>1, <3>2
      <3> QED BY <1>4, <1>7, <1>8, <1>12, <2>1, <2>2, <3>3 DEF CopyAt
    <2>3. CASE ctx.corrupted # shaSuccess
      <3>1. TooMany(old)
        BY <1>1, <2>3 DEF CopyAt, old
      <3>2. TooMany(old \o piece)
        <4>1. /\ Len(old) \in Nat /\ Len(old \o piece) \in Nat
              /\ Len(old) <= Len(old \o piece)
          BY <1>2, <1>6
        <4> QED BY <3>1, <4>1, MoreOctets
      <3> QED BY <1>4, <1>7, <1>8, <1>12, <2>1, <2>3, <3>2 DEF CopyAt
    <2> QED BY <2>2, <2>3
  <1> QED BY <1>4, <1>10, <1>11, <1>12, <1>13 DEF StorageInv

LEMMA DumpKeeps == ASSUME StorageInv, Dump PROVE StorageInv'
  <1>1. /\ pc = "dump" /\ rest = <<>> /\ left \in Seq(Octet)
        /\ pc' = IF Refuses THEN "throw" ELSE "dump"
    BY DEF Dump, Goto, StorageInv, CopyInv
  <1>2. PICK n \in 1 .. Len(left) : \E count \in Counts(SubSeq(left, 1, n)) :
          WriteHashed(SubSeq(left, 1, n), count)
    BY DEF Dump
  <1> DEFINE data == SubSeq(left, 1, n)
  <1>3. data \in Seq(Octet) /\ Len(data) \in Nat
    BY <1>1, <1>2
  <1> HIDE DEF data
  <1>4. PICK count \in Counts(data) : WriteHashed(data, count)
    BY <1>2 DEF data
  <1>5. count \in 0 .. Len(data)
    BY <1>3, <1>4 DEF Counts
  <1> QED BY <1>1, <1>3, <1>4, <1>5, Grows DEF StorageInv, CopyInv, OutInv, FreeInv

LEMMA FlushKeeps == ASSUME StorageInv, Flush PROVE StorageInv'
  <1>1. pc = "dump" /\ rest = <<>> /\ left \in Seq(Octet) /\ Len(left) \in Nat
    BY DEF Flush, StorageInv, CopyInv
  <1>2. PICK count \in Counts(left) :
          /\ WriteHashed(left, count)
          /\ pc' = IF Refuses /\ count > 0 THEN "throw" ELSE "result"
    BY DEF Flush, Goto
  <1>3. count \in 0 .. Len(left)
    BY <1>1, <1>2 DEF Counts
  <1>4. count > 0 \/ count = 0
    BY <1>1, <1>3
  <1> QED BY <1>1, <1>2, <1>3, <1>4, Grows DEF StorageInv, CopyInv, OutInv, FreeInv

(* Moving the head of what is left to the end of what is taken.            *)
LEMMA HeadMoves ==
  ASSUME NEW S, NEW a \in Seq(S), NEW b \in Seq(S), b # <<>>
  PROVE  a \o b = Append(a, Head(b)) \o Tail(b)
  <1>1. b = <<Head(b)>> \o Tail(b) /\ Head(b) \in S /\ Tail(b) \in Seq(S)
    OBVIOUS
  <1> QED BY <1>1

LEMMA HashKeeps == ASSUME StorageInv, Hash PROVE StorageInv'
  <1>1. /\ NextOctet \/ TooLong
        /\ disk' = disk /\ kernel' = kernel /\ m_fd' = m_fd /\ pc' = pc /\ left' = left
        /\ pc \in {"dump", "result", "throw"} /\ rest # <<>>
    BY DEF Hash, fileVars, handlerVars, NextOctet, TooLong
  <1>2. DigestInv'
    BY <1>1, StepDigests DEF StorageInv, DigestNext
  <1>3. /\ ctx \in Context /\ ctx.index \in Cell /\ rest \in Seq(Octet) /\ msg \in Seq(Octet)
        /\ ~ctx.computed /\ ctx.corrupted = shaSuccess => Collected(ctx, msg)
    BY DEF StorageInv, DigestInv, DigestTypeOK
  <1>4. ASSUME NEW p \in TmpPath, CopyAt(p), ~ctx.computed
        PROVE  CopyAt(p)' /\ ~ctx'.computed
    <2>1. CASE NextOctet
      <3>1. /\ ctx.corrupted = shaSuccess /\ ctx' = PutOctet(ctx, Head(rest))
            /\ msg' = Append(msg, Head(rest)) /\ rest' = Tail(rest)
        BY <2>1 DEF NextOctet
      <3>2. Head(rest) \in Octet /\ Tail(rest) \in Seq(Octet) /\ Collected(ctx, msg)
        BY <1>1, <1>3, <1>4, <3>1
      <3>3. disk[p] = msg \o rest /\ msg \o rest = msg' \o rest'
        <4>1. disk[p] = msg \o rest
          BY <1>3, <1>4, <3>1 DEF CopyAt
        <4> QED BY <1>1, <1>3, <3>1, <4>1, HeadMoves
      <3>4. ~ctx'.computed
        BY <1>3, <1>4, <3>1, <3>2, PutOctetCollects
      <3>5. ASSUME ctx'.corrupted # shaSuccess PROVE TooMany(disk[p])
        <4>1. TooMany(msg') /\ msg' \in Seq(Octet)
          BY <1>3, <3>1, <3>2, <3>5, FullContext
        <4>2. Len(msg') \in Nat /\ Len(disk[p]) \in Nat /\ Len(msg') <= Len(disk[p])
          BY <3>1, <3>2, <3>3, <4>1
        <4> QED BY <4>1, <4>2, MoreOctets
      <3> QED BY <1>1, <1>4, <3>3, <3>4, <3>5 DEF CopyAt
    <2>2. CASE TooLong
      BY <1>1, <1>4, <2>2 DEF CopyAt, TooLong
    <2> QED BY <1>1, <2>1, <2>2
  <1>5. CopyInv'
    BY <1>1, <1>4 DEF StorageInv, CopyInv
  <1> QED BY <1>1, <1>2, <1>5 DEF StorageInv, Named, OutInv, FreeInv, PathOf

LEMMA TakeResultKeeps == ASSUME StorageInv, TakeResult PROVE StorageInv'
  <1>1. Result /\ rest = <<>> /\ rest' = <<>> /\ msg' = msg /\ left' = left
    BY DEF TakeResult, Result, Stay
  <1>2. DigestInv'
    BY <1>1, StepDigests DEF StorageInv, DigestNext
  <1>3. CASE pc = "log"
    <2>1. pc' = "idle" /\ Close("rand")
      BY <1>3 DEF TakeResult, Goto
    <2> QED BY <1>2, <2>1, StorageSizes, Closes, Elsewhere DEF StorageInv, Copying
  <1>4. CASE pc = "result"
    <2>1. pc' = "rename" /\ disk' = disk /\ kernel' = kernel /\ m_fd' = m_fd
      BY <1>4 DEF TakeResult, Goto, fileVars
    <2>2. ~ctx.computed /\ left \in Seq(Octet)
      BY <1>4 DEF StorageInv, CopyInv
    <2>3. PICK p \in TmpPath : CopyAt(p)
      BY <1>4 DEF StorageInv, CopyInv
    <2>4. /\ ctx \in Context /\ ctx.index \in Cell /\ msg \in Seq(Octet)
          /\ ctx.corrupted = shaSuccess => Collected(ctx, msg)
      BY <2>2 DEF StorageInv, DigestInv, DigestTypeOK
    <2>5. ctx'.corrupted = ctx.corrupted /\ (ctx.corrupted = shaSuccess => ctx'.computed)
      <3>1. CASE ctx.corrupted # shaSuccess
        BY <1>1, <3>1 DEF Result
      <3>2. CASE ctx.corrupted = shaSuccess
        <4> DEFINE e == PadMessage(ctx)
        <4>1. ctx' = Blank(e)
          BY <1>1, <2>2, <3>2 DEF Result
        <4>2. e \in Context /\ e.corrupted = ctx.corrupted
          BY <2>4, <3>2, PadMessagePads
        <4> HIDE DEF e
        <4> QED BY <4>1, <4>2 DEF Blank, Context
      <3> QED BY <3>1, <3>2
    <2>6. CopyAt(p)'
      BY <1>1, <2>1, <2>3, <2>5 DEF CopyAt
    <2> QED BY <1>1, <1>2, <2>1, <2>2, <2>5, <2>6
            DEF StorageInv, Named, CopyInv, OutInv, FreeInv
  <1> QED BY <1>3, <1>4 DEF TakeResult

LEMMA ToAtticKeeps == ASSUME StorageInv, ToAttic PROVE StorageInv'
  <1> DEFINE to == ShaPath(IF ctx.corrupted # shaSuccess THEN <<>> ELSE ctx.hash)
  <1>1. /\ pc = "rename" /\ pc' = "log" /\ rest = <<>> /\ UNCHANGED digestVars
        /\ Rename(PathOf("rand"), to) /\ (ctx.corrupted = shaSuccess => ctx.computed)
    BY DEF ToAttic, Goto, StorageInv, CopyInv
  <1>2. PICK p \in TmpPath : CopyAt(p)
    BY <1>1 DEF StorageInv, CopyInv
  <1>3. PathOf("rand") = p
    BY <1>2 DEF PathOf, CopyAt
  <1>4. DOMAIN m_fd' = Handle /\ disk' = With(Restrict(disk, DOMAIN disk \ {p}), to, disk[p])
    BY <1>1, <1>3 DEF Rename, StorageInv
  <1>5. IsPadding(to[2], disk[p]) \/ TooMany(disk[p])
    <2>1. CASE ctx.corrupted = shaSuccess
      <3>1. disk[p] = msg \o rest /\ msg \in Seq(Octet) /\ Digested
        BY <1>2, <2>1 DEF CopyAt, StorageInv, DigestInv, DigestTypeOK
      <3>2. disk[p] = msg
        BY <1>1, <3>1
      <3>3. to[2] = ctx.hash
        BY <2>1 DEF ShaPath
      <3>4. IsPadding(ctx.hash, msg)
        BY <1>1, <2>1, <3>1 DEF Digested
      <3> QED BY <3>2, <3>3, <3>4
    <2>2. CASE ctx.corrupted # shaSuccess
      BY <1>2, <2>2 DEF CopyAt
    <2> QED BY <2>1, <2>2
  <1> HIDE DEF to
  <1>6. \A path \in DOMAIN disk' : \/ path = to /\ disk'[path] = disk[p]
                                   \/ path # to /\ path \in DOMAIN disk /\ disk'[path] = disk[path]
    BY <1>4 DEF With, Restrict
  <1>7. Named'
    BY <1>5, <1>6 DEF StorageInv, Named
  <1>8. DigestInv'
    BY <1>1, NoDigestStep DEF StorageInv
  <1> QED BY <1>1, <1>4, <1>7, <1>8 DEF StorageInv, CopyInv, OutInv, FreeInv

LEMMA CreateMetaKeeps == ASSUME StorageInv, CreateMeta PROVE StorageInv'
  <1>1. /\ Open("out", MetaPath) /\ disk' = With(disk, MetaPath, <<>>)
        /\ pc' = "write" /\ UNCHANGED digestVars
    BY DEF CreateMeta, OpenForWrite, Goto
  <1>2. DOMAIN m_fd' = Handle /\ PathOf("out")' = MetaPath
    <2>1. DOMAIN m_fd' = Handle /\ kernel'[m_fd'["out"]] = [path |-> MetaPath, offset |-> 0]
      BY <1>1, StorageSizes, Opens DEF StorageInv
    <2> QED BY <2>1 DEF PathOf, MetaPath
  <1>3. MetaPath[1] # "sha"
    BY DEF MetaPath
  <1>4. Named'
    BY <1>1, <1>3 DEF StorageInv, Named, With
  <1>5. DigestInv'
    BY <1>1, NoDigestStep DEF StorageInv
  <1> QED BY <1>1, <1>2, <1>4, <1>5 DEF StorageInv, CopyInv, OutInv, FreeInv

LEMMA WriteMetaKeeps == ASSUME StorageInv, WriteMeta PROVE StorageInv'
  <1>1. /\ pc = "write" /\ pc' = "close" /\ UNCHANGED digestVars /\ m_fd' = m_fd
        /\ PathOf("out") = MetaPath
    BY DEF WriteMeta, Write, Goto, StorageInv, OutInv
  <1>2. /\ DOMAIN disk' = DOMAIN disk
        /\ \A path \in DOMAIN disk : path # MetaPath => disk'[path] = disk[path]
    BY <1>1 DEF WriteMeta, Write
  <1>3. MetaPath[1] # "sha"
    BY DEF MetaPath
  <1>4. Named'
    BY <1>2, <1>3 DEF StorageInv, Named
  <1>5. DigestInv'
    BY <1>1, NoDigestStep DEF StorageInv
  <1> QED BY <1>1, <1>4, <1>5 DEF StorageInv, CopyInv, OutInv, FreeInv

LEMMA DieKeeps == ASSUME StorageInv, Die PROVE StorageInv'
  <1>1. /\ disk' = disk /\ m_fd' = [f \in Handle |-> NotOpen] /\ pc' = "idle"
        /\ ctx' = ResetContext(ctx) /\ rest' = <<>> /\ msg' = <<>> /\ ctx \in Context
    BY DEF Die, CloseAll, Goto, StorageInv, DigestInv, DigestTypeOK
  <1>2. DigestInv'
    BY <1>1, Started DEF DigestInv, DigestTypeOK, Digested
  <1> QED BY <1>1, <1>2, Elsewhere DEF Copying

LEMMA AnyShaKeeps == ASSUME StorageInv, AnySha PROVE StorageInv'
  <1>1. /\ DigestNext(FreeChunks) /\ pc = "sha" /\ pc' = pc /\ disk' = disk /\ m_fd' = m_fd
    BY DEF AnySha, fileVars, handlerVars
  <1>2. DigestNext(Seq(Octet))
    BY <1>1, StorageSizes DEF DigestNext
  <1>3. DigestInv'
    BY <1>2, StepDigests DEF StorageInv
  <1> QED BY <1>1, <1>3, Elsewhere DEF StorageInv, Copying

LEMMA AnyFileKeeps == ASSUME StorageInv, AnyFile PROVE StorageInv'
  <1>1. pc = "file" /\ pc' = pc /\ UNCHANGED digestVars
    BY DEF AnyFile, handlerVars
  <1>2. DOMAIN m_fd = Handle /\ \A path \in DOMAIN disk : path[1] # "sha"
    BY <1>1 DEF StorageInv, FreeInv
  <1>3. MetaPath[1] # "sha" /\ \A path \in TmpPath : path[1] # "sha"
    BY DEF MetaPath, TmpPath
  <1>4. PICK f \in FreeHandles :
          \/ OpenForRead(f, MetaPath) \/ OpenForWrite(f, MetaPath)
          \/ OpenRandom(f, TmpPath) \/ OpenFails(f) \/ Close(f)
          \/ Read(f, 1) \/ \E count \in Counts(<<1, 1>>) : Write(f, <<1, 1>>, count, 0)
          \/ Seek(f, 0) \/ Seek(f, 3)
    BY DEF AnyFile
  <1>5. f \in Handle
    BY StorageSizes
  <1>6. DOMAIN m_fd' = Handle /\ \A path \in DOMAIN disk' : path[1] # "sha"
    <2>1. CASE OpenForRead(f, MetaPath)
      BY <1>2, <1>5, <2>1, Opens DEF OpenForRead
    <2>2. ASSUME NEW path, path[1] # "sha", OpenForWrite(f, path)
          PROVE  DOMAIN m_fd' = Handle /\ \A other \in DOMAIN disk' : other[1] # "sha"
      BY <1>2, <1>5, <2>2, Opens DEF OpenForWrite, With
    <2>3. CASE OpenForWrite(f, MetaPath)
      BY <1>3, <2>2, <2>3
    <2>4. CASE OpenRandom(f, TmpPath)
      BY <1>3, <2>2, <2>4 DEF OpenRandom
    <2>5. CASE OpenFails(f) \/ Close(f)
      BY <1>2, <1>5, <2>5, Closes DEF OpenFails
    <2>6. CASE Read(f, 1)
      BY <1>2, <2>6 DEF Read
    <2>7. CASE \E count \in Counts(<<1, 1>>) : Write(f, <<1, 1>>, count, 0)
      <3>1. m_fd' = m_fd /\ DOMAIN disk' = DOMAIN disk
        BY <2>7 DEF Write
      <3> QED BY <1>2, <3>1
    <2>8. CASE Seek(f, 0) \/ Seek(f, 3)
      BY <1>2, <2>8 DEF Seek
    <2> QED BY <1>4, <2>1, <2>3, <2>4, <2>5, <2>6, <2>7, <2>8
  <1>7. DigestInv'
    BY <1>1, NoDigestStep DEF StorageInv
  <1> QED BY <1>1, <1>6, <1>7 DEF StorageInv, Named, CopyInv, OutInv, FreeInv
------------------------------------------------------------------------------
(* The calls that LoadMeta and SaveMeta make on files other than the copy. *)
LEMMA MetaKeeps ==
  ASSUME StorageInv,
         \/ LoadMeta("load") \/ LoadMeta("save") \/ Parse \/ Parsed \/ Take \/ Taken
         \/ Caught \/ Deduce \/ Loaded \/ Make \/ Add \/ Added \/ CloseMeta
  PROVE  StorageInv'
  <1>1. DOMAIN m_fd = Handle /\ DigestInv
    BY DEF StorageInv
  <1>2. ASSUME NEW for, LoadMeta(for) PROVE StorageInv'
    <2>1. /\ pc' \in {"parse", "deduce"} /\ UNCHANGED digestVars
          /\ OpenForRead("in", MetaPath) \/ OpenFails("in")
      BY <1>2 DEF LoadMeta, Goto
    <2>2. disk' = disk /\ DOMAIN m_fd' = Handle
      BY <1>1, <2>1, StorageSizes, Opens, Closes DEF OpenForRead, OpenFails
    <2> QED BY <1>1, <2>1, <2>2, NoDigestStep, Elsewhere DEF Copying
  <1>3. CASE Parse
    <2>1. /\ pc' \in {"parse", "parsed"} /\ UNCHANGED digestVars
          /\ disk' = disk /\ m_fd' = m_fd
      BY <1>3 DEF Parse, Goto, Read
    <2> QED BY <1>1, <2>1, NoDigestStep, Elsewhere DEF Copying
  <1>4. CASE Parsed
    <2>1. /\ pc' \in {"take", "caught"} /\ UNCHANGED digestVars
          /\ disk' = disk /\ m_fd' = m_fd
      BY <1>4 DEF Parsed, Goto, fileVars
    <2> QED BY <1>1, <2>1, NoDigestStep, Elsewhere DEF Copying
  <1>5. CASE Take \/ Taken \/ Deduce \/ Loaded \/ Make \/ Add \/ Added
    <2>1. /\ pc' \in {"taken", "caught", "take", "loaded", "idle", "value", "add", "added"}
          /\ UNCHANGED digestVars /\ disk' = disk /\ m_fd' = m_fd
      BY <1>5 DEF Take, Taken, Deduce, Loaded, Make, Add, Added, Goto, fileVars
    <2> QED BY <1>1, <2>1, NoDigestStep, Elsewhere DEF Copying
  <1>6. CASE Caught \/ CloseMeta
    <2>1. /\ pc' \in {"deduce", "idle"} /\ UNCHANGED digestVars
          /\ Close("in") \/ Close("out")
      BY <1>6 DEF Caught, CloseMeta, Goto
    <2>2. disk' = disk /\ DOMAIN m_fd' = Handle
      BY <1>1, <2>1, StorageSizes, Closes
    <2> QED BY <1>1, <2>1, <2>2, NoDigestStep, Elsewhere DEF Copying
  <1> QED BY <1>2, <1>3, <1>4, <1>5, <1>6

LEMMA StorageSteps == StorageInv /\ [Next]_vars => StorageInv'
  <1> SUFFICES ASSUME StorageInv, [Next]_vars PROVE StorageInv'
    OBVIOUS
  <1>1. CASE Release /\ UNCHANGED <<digestVars, fileVars, handlerVars>>
    BY <1>1, NothingMoves DEF handlerVars
  <1>2. CASE Handler
    <2>1. CASE Update \/ Dump \/ Flush \/ Hash
      BY <2>1, UpdateKeeps, DumpKeeps, FlushKeeps, HashKeeps
    <2>2. CASE TakeResult \/ ToAttic
      BY <2>2, TakeResultKeeps, ToAtticKeeps
    <2>3. CASE CreateMeta \/ WriteMeta
      BY <2>3, CreateMetaKeeps, WriteMetaKeeps
    <2>4. CASE \/ LoadMeta("load") \/ LoadMeta("save") \/ Parse \/ Parsed \/ Take \/ Taken
               \/ Caught \/ Deduce \/ Loaded \/ Make \/ Add \/ Added \/ CloseMeta
      BY <2>4, MetaKeeps
    <2> QED BY <1>2, <2>1, <2>2, <2>3, <2>4 DEF Handler
  <1>3. CASE Die
    BY <1>3, DieKeeps
  <1>4. CASE AnyJson
    BY <1>4, NothingMoves DEF AnyJson, handlerVars
  <1>5. CASE AnySha
    BY <1>5, AnyShaKeeps
  <1>6. CASE AnyFile
    BY <1>6, AnyFileKeeps
  <1>7. CASE UNCHANGED vars
    BY <1>7, NothingMoves DEF vars, handlerVars
  <1> QED BY <1>1, <1>2, <1>3, <1>4, <1>5, <1>6, <1>7 DEF Next

(* Every file that Resource::Update leaves in the attic is named after the *)
(* digest of its own content, whatever page is saved in whatever pieces,   *)
(* whichever writes are short and wherever the process dies.               *)
THEOREM AtticIsNamed == Spec => []ArchiveNamed
  <1>1. StorageInv => ArchiveNamed
    BY DEF StorageInv, Named, TooMany, DigestInv, ArchiveNamed
  <1> QED BY <1>1, StorageInits, StorageSteps, PTL DEF Spec

------------------------------------------------------------------------------
(* References.  Every call of Json adds to the counts of some values what  *)
(* it adds to the variables, containers, calls to come and members that    *)
(* hold them.  So the lemmas are about how often a value occurs among      *)
(* those of a function or sequence, and how that changes.                  *)
LEMMA TimesIsNat ==
  ASSUME NEW f, IsFiniteSet(DOMAIN f), NEW x
  PROVE  Times(x, f) \in Nat /\ IsFiniteSet({i \in DOMAIN f : f[i] = x})
  <1>1. {i \in DOMAIN f : f[i] = x} \in SUBSET DOMAIN f
    OBVIOUS
  <1>2. IsFiniteSet({i \in DOMAIN f : f[i] = x})
    BY <1>1, FS_Subset
  <1> QED BY <1>2, FS_CardinalityType DEF Times

LEMMA TimesNone ==
  ASSUME NEW f, NEW x, \A i \in DOMAIN f : f[i] # x
  PROVE  Times(x, f) = 0
  <1>1. {i \in DOMAIN f : f[i] = x} = {}
    OBVIOUS
  <1> QED BY <1>1, FS_EmptySet DEF Times

LEMMA TimesSome ==
  ASSUME NEW f, IsFiniteSet(DOMAIN f), NEW i \in DOMAIN f
  PROVE  Times(f[i], f) >= 1
  <1> DEFINE x == f[i]
             S == {j \in DOMAIN f : f[j] = x}
  <1>1. Times(x, f) \in Nat /\ IsFiniteSet(S)
    BY TimesIsNat
  <1>2. S # {} /\ Times(x, f) = Cardinality(S)
    BY DEF Times
  <1> HIDE DEF x, S
  <1>3. Cardinality(S) # 0
    BY <1>1, <1>2, FS_EmptySet
  <1> QED BY <1>1, <1>2, <1>3 DEF x

(* The same values at other places.                                        *)
LEMMA TimesSame ==
  ASSUME NEW f, NEW g, IsFiniteSet(DOMAIN f), NEW b \in [DOMAIN f -> DOMAIN g],
         \A i, j \in DOMAIN f : b[i] = b[j] => i = j,
         \A k \in DOMAIN g : \E i \in DOMAIN f : b[i] = k,
         \A i \in DOMAIN f : g[b[i]] = f[i], NEW x
  PROVE  Times(x, g) = Times(x, f)
  <1> DEFINE S == {i \in DOMAIN f : f[i] = x}
             T == {k \in DOMAIN g : g[k] = x}
             c == [i \in S |-> b[i]]
  <1>1. c \in Bijection(S, T)
    <2>1. c \in [S -> T]
      OBVIOUS
    <2>2. \A i, j \in S : c[i] = c[j] => i = j
      OBVIOUS
    <2>3. \A k \in T : \E i \in S : c[i] = k
      OBVIOUS
    <2> QED BY <2>1, <2>2, <2>3 DEF Bijection, Injection, Surjection, IsInjective
  <1>2. ExistsBijection(S, T)
    BY <1>1 DEF ExistsBijection
  <1>3. IsFiniteSet(S)
    <2>1. Times(x, f) \in Nat /\ IsFiniteSet({i \in DOMAIN f : f[i] = x})
      BY TimesIsNat, SMTT(30)
    <2> QED BY <2>1
  <1> HIDE DEF S, T, c
  <1>4. Cardinality(T) = Cardinality(S)
    BY <1>2, <1>3, FS_Bijection
  <1> QED BY <1>4 DEF Times, S, T

Hit(x, y) == IF x = y THEN 1 ELSE 0

(* One value more, or another one in its place.                            *)
LEMMA TimesPut ==
  ASSUME NEW f, IsFiniteSet(DOMAIN f), NEW k, NEW g, NEW x,
         DOMAIN g = DOMAIN f \cup {k},
         \A j \in DOMAIN f : j # k => g[j] = f[j]
  PROVE  /\ IsFiniteSet(DOMAIN g)
         /\ k \notin DOMAIN f => Times(x, g) = Times(x, f) + Hit(x, g[k])
         /\ k \in DOMAIN f => Times(x, g) + Hit(x, f[k]) = Times(x, f) + Hit(x, g[k])
  <1> DEFINE S == {j \in DOMAIN f : f[j] = x}
             R == S \ {k}
             T == {j \in DOMAIN g : g[j] = x}
  <1>1. IsFiniteSet(S) /\ Cardinality(S) \in Nat /\ Times(x, f) = Cardinality(S)
    BY TimesIsNat DEF Times
  <1>2. T = IF g[k] = x THEN R \cup {k} ELSE R
    OBVIOUS
  <1>3. IsFiniteSet(DOMAIN g)
    BY FS_AddElement
  <1>4. Times(x, g) = Cardinality(T)
    BY DEF Times
  <1>5. k \in S <=> k \in DOMAIN f /\ f[k] = x
    OBVIOUS
  <1> HIDE DEF S, T
  <1>6. /\ IsFiniteSet(R)
        /\ Cardinality(R) = IF k \in S THEN Cardinality(S) - 1 ELSE Cardinality(S)
    BY <1>1, FS_RemoveElement
  <1>7. k \notin R
    OBVIOUS
  <1> HIDE DEF R
  <1>8. Cardinality(R \cup {k}) = Cardinality(R) + 1
    BY <1>6, <1>7, FS_AddElement
  <1>9. Cardinality(R) \in Nat
    BY <1>6, FS_CardinalityType
  <1> QED BY <1>1, <1>2, <1>3, <1>4, <1>5, <1>6, <1>8, <1>9 DEF Hit

LEMMA TimesConcat ==
  ASSUME NEW s \in Seq(Obj), NEW t \in Seq(Obj), NEW x
  PROVE  Times(x, s \o t) = Times(x, s) + Times(x, t)
  <1> DEFINE S == {i \in DOMAIN s : s[i] = x}
             T == {i \in DOMAIN t : t[i] = x}
             M == {i \in Len(s) + 1 .. Len(s) + Len(t) : t[i - Len(s)] = x}
             c == [i \in T |-> Len(s) + i]
  <1>1. Len(s) \in Nat /\ Len(t) \in Nat /\ DOMAIN s = 1 .. Len(s) /\ DOMAIN t = 1 .. Len(t)
    OBVIOUS
  <1>2. DOMAIN (s \o t) = 1 .. Len(s) + Len(t)
    OBVIOUS
  <1>3. IsFiniteSet(DOMAIN s) /\ IsFiniteSet(DOMAIN t)
    BY <1>1, FS_Interval
  <1>4. {i \in DOMAIN (s \o t) : (s \o t)[i] = x} = S \cup M
    BY <1>1, <1>2
  <1>5. S \cap M = {}
    BY <1>1
  <1>6. c \in Bijection(T, M)
    <2>1. c \in [T -> M]
      BY <1>1
    <2>2. \A i, j \in T : c[i] = c[j] => i = j
      BY <1>1
    <2>3. \A k \in M : k - Len(s) \in T /\ c[k - Len(s)] = k
      BY <1>1
    <2> QED BY <2>1, <2>2, <2>3 DEF Bijection, Injection, Surjection, IsInjective
  <1>7. IsFiniteSet(S) /\ IsFiniteSet(T) /\ ExistsBijection(T, M)
    BY <1>3, <1>6, TimesIsNat DEF ExistsBijection
  <1>8. /\ Times(x, s \o t) = Cardinality(S \cup M)
        /\ Times(x, s) = Cardinality(S) /\ Times(x, t) = Cardinality(T)
    BY <1>4 DEF Times
  <1> HIDE DEF S, T, M, c
  <1>9. IsFiniteSet(M) /\ Cardinality(M) = Cardinality(T)
    BY <1>7, FS_Bijection
  <1>10. Cardinality(S \cup M) = Cardinality(S) + Cardinality(M) - Cardinality({})
    BY <1>5, <1>7, <1>9, FS_Union
  <1>11. Cardinality(S) \in Nat /\ Cardinality(M) \in Nat /\ Cardinality({}) = 0
    BY <1>7, <1>9, FS_CardinalityType, FS_EmptySet
  <1> QED BY <1>8, <1>9, <1>10, <1>11

LEMMA SeqDomain == ASSUME NEW s \in Seq(Obj) PROVE IsFiniteSet(DOMAIN s)
  BY FS_Interval

LEMMA TimesOne == ASSUME NEW y, NEW x PROVE Times(x, <<y>>) = Hit(x, y)
  <1>1. {i \in DOMAIN <<y>> : <<y>>[i] = x} = IF x = y THEN {1} ELSE {}
    OBVIOUS
  <1> QED BY <1>1, FS_Singleton, FS_EmptySet DEF Times, Hit

LEMMA TimesEmpty == ASSUME NEW x PROVE Times(x, <<>>) = 0
  BY TimesNone

LEMMA TimesTail ==
  ASSUME NEW s \in Seq(Obj), s # <<>>, NEW x
  PROVE  Times(x, s) = Hit(x, Head(s)) + Times(x, Tail(s))
  <1>1. s = <<Head(s)>> \o Tail(s) /\ <<Head(s)>> \in Seq(Obj) /\ Tail(s) \in Seq(Obj)
    OBVIOUS
  <1> DEFINE h == <<Head(s)>>  t == Tail(s)
  <1>2. Times(x, h \o t) = Times(x, h) + Times(x, t)
    BY <1>1, TimesConcat
  <1>3. Times(x, h) = Hit(x, Head(s))
    BY TimesOne
  <1> QED BY <1>1, <1>2, <1>3
------------------------------------------------------------------------------
(* SetToSeq puts every element in one place.                               *)
LEMMA SetToSeqIs ==
  ASSUME NEW S, IsFiniteSet(S)
  PROVE  /\ Cardinality(S) \in Nat
         /\ SetToSeq(S) \in [1 .. Cardinality(S) -> S]
         /\ \A i, j \in 1 .. Cardinality(S) : SetToSeq(S)[i] = SetToSeq(S)[j] => i = j
         /\ \A k \in S : \E i \in 1 .. Cardinality(S) : SetToSeq(S)[i] = k
  <1> DEFINE n == Cardinality(S)
             q == SetToSeq(S)
  <1>1. n \in Nat /\ ExistsBijection(1 .. n, S)
    BY FS_CardinalityType
  <1>2. \E f \in [1 .. n -> S] : IsInjective(f)
    BY <1>1 DEF ExistsBijection, Bijection, Injection
  <1>3. q \in [1 .. n -> S] /\ IsInjective(q)
    BY <1>2 DEF SetToSeq
  <1>4. q \in Injection(1 .. n, S)
    BY <1>3 DEF Injection
  <1>5. Cardinality(1 .. n) = n
    <2>1. Cardinality(1 .. n) = IF 1 > n THEN 0 ELSE n - 1 + 1
      BY <1>1, FS_Interval
    <2> QED BY <1>1, <2>1
  <1> HIDE DEF q
  <1>6. q \in Surjection(1 .. n, S)
    BY <1>4, <1>5, FS_Injection
  <1> QED BY <1>1, <1>3, <1>6 DEF IsInjective, Surjection, q

(* What the values of a heap hold, by the value and the place in it.       *)
Grid(h) == [s \in UNION {{y} \X DOMAIN h[y].held : y \in Obj} |-> h[s[1]].held[s[2]]]

LEMMA GridDomain ==
  ASSUME NEW h, \A z \in Obj : IsFiniteSet(DOMAIN h[z].held)
  PROVE  /\ IsFiniteSet(DOMAIN Grid(h))
         /\ \A y \in Obj : \A k \in DOMAIN h[y].held :
              <<y, k>> \in DOMAIN Grid(h) /\ Grid(h)[<<y, k>>] = h[y].held[k]
         /\ \A s \in DOMAIN Grid(h) : \E y \in Obj : \E k \in DOMAIN h[y].held : s = <<y, k>>
  <1> DEFINE Row(y) == {y} \X DOMAIN h[y].held
             Rows == {Row(y) : y \in Obj}
  <1>1. IsFiniteSet(Rows)
    <2> DEFINE row == [y \in Obj |-> Row(y)]
    <2>1. row \in Surjection(Obj, Rows)
      BY DEF Surjection
    <2> QED BY <2>1, FS_Surjection, JsonAssumption
  <1>2. \A T \in Rows : IsFiniteSet(T)
    <2> SUFFICES ASSUME NEW y \in Obj PROVE IsFiniteSet(Row(y))
      OBVIOUS
    <2>1. IsFiniteSet({y}) /\ IsFiniteSet(DOMAIN h[y].held)
      BY FS_Singleton
    <2> QED BY <2>1, FS_Product
  <1>3. IsFiniteSet(UNION Rows)
    BY <1>1, <1>2, FS_UNION
  <1> QED BY <1>3 DEF Grid

(* The grid changes by what one value y holds before and after.            *)
LEMMA GridChange ==
  ASSUME NEW h, NEW g, NEW y \in Obj,
         \A z \in Obj : IsFiniteSet(DOMAIN h[z].held) /\ IsFiniteSet(DOMAIN g[z].held),
         \A z \in Obj : z # y => g[z].held = h[z].held, NEW x
  PROVE  Times(x, Grid(g)) + Times(x, h[y].held) = Times(x, Grid(h)) + Times(x, g[y].held)
  <1> DEFINE All(f) == {s \in DOMAIN Grid(f) : Grid(f)[s] = x}
             Rest(f) == {s \in All(f) : s[1] # y}
             Row(f) == {s \in All(f) : s[1] = y}
  <1>1. ASSUME NEW f, \A z \in Obj : IsFiniteSet(DOMAIN f[z].held)
        PROVE  /\ IsFiniteSet(All(f)) /\ Cardinality(Rest(f)) \in Nat
               /\ Times(x, f[y].held) \in Nat
               /\ Times(x, Grid(f)) = Cardinality(Rest(f)) + Times(x, f[y].held)
    <2>1. IsFiniteSet(All(f)) /\ Times(x, Grid(f)) = Cardinality(All(f))
      <3> DEFINE F == Grid(f)
      <3>1. IsFiniteSet(DOMAIN F)
        BY <1>1, GridDomain
      <3> HIDE DEF F
      <3>2. Times(x, F) = Cardinality({s \in DOMAIN F : F[s] = x}) 
            /\ IsFiniteSet({s \in DOMAIN F : F[s] = x})
        BY <3>1, TimesIsNat DEF Times
      <3> QED BY <3>2 DEF F
    <2> DEFINE K == {k \in DOMAIN f[y].held : f[y].held[k] = x}
               c == [k \in K |-> <<y, k>>]
    <2>2. IsFiniteSet(K) /\ Times(x, f[y].held) = Cardinality(K) /\ Cardinality(K) \in Nat
      BY <1>1, TimesIsNat DEF Times
    <2>3. c \in Bijection(K, Row(f))
      <3>1. c \in [K -> Row(f)]
        BY <1>1, GridDomain
      <3>2. \A i, j \in K : c[i] = c[j] => i = j
        OBVIOUS
      <3>3. \A s \in Row(f) : \E k \in K : c[k] = s
        BY <1>1, GridDomain
      <3> QED BY <3>1, <3>2, <3>3 DEF Bijection, Injection, Surjection, IsInjective
    <2>4. All(f) = Rest(f) \cup Row(f) /\ Rest(f) \cap Row(f) = {}
      OBVIOUS
    <2>5. Rest(f) \in SUBSET All(f) /\ Row(f) \in SUBSET All(f)
      OBVIOUS
    <2> HIDE DEF All, Rest, Row, K, c
    <2>6. IsFiniteSet(Rest(f)) /\ IsFiniteSet(Row(f))
      BY <2>1, <2>5, FS_Subset
    <2>7. Cardinality(Row(f)) = Cardinality(K)
      BY <2>2, <2>3, FS_Bijection DEF ExistsBijection
    <2>8. Cardinality(All(f)) = Cardinality(Rest(f)) + Cardinality(Row(f)) - Cardinality({})
      BY <2>4, <2>6, FS_Union
    <2>9. Cardinality(Rest(f)) \in Nat /\ Cardinality({}) = 0
      BY <2>6, FS_CardinalityType, FS_EmptySet
    <2> QED BY <2>1, <2>2, <2>7, <2>8, <2>9
  <1>2. Rest(h) = Rest(g)
    <2>1. ASSUME NEW e, NEW f, NEW s \in Rest(e),
                 \A z \in Obj : IsFiniteSet(DOMAIN e[z].held) /\ IsFiniteSet(DOMAIN f[z].held),
                 \A z \in Obj : z # y => f[z].held = e[z].held
          PROVE  s \in Rest(f)
      <3>1. PICK z \in Obj : \E k \in DOMAIN e[z].held : s = <<z, k>>
        BY <2>1, GridDomain
      <3>2. PICK k \in DOMAIN e[z].held : s = <<z, k>>
        BY <3>1
      <3>3. z # y /\ f[z].held = e[z].held /\ e[z].held[k] = x
        BY <2>1, <3>2, GridDomain
      <3>4. <<z, k>> \in DOMAIN Grid(f) /\ Grid(f)[<<z, k>>] = f[z].held[k]
        BY <2>1, <3>2, <3>3, GridDomain
      <3> QED BY <3>2, <3>3, <3>4
    <2>2. \A s \in Rest(h) : s \in Rest(g)
      BY <2>1
    <2>3. \A s \in Rest(g) : s \in Rest(h)
      BY <2>1
    <2> QED BY <2>2, <2>3
  <1> HIDE DEF Rest, All, Row
  <1>3. /\ Cardinality(Rest(h)) \in Nat
        /\ Times(x, h[y].held) \in Nat
        /\ Times(x, Grid(h)) = Cardinality(Rest(h)) + Times(x, h[y].held)
    BY <1>1
  <1>4. /\ Times(x, g[y].held) \in Nat
        /\ Times(x, Grid(g)) = Cardinality(Rest(g)) + Times(x, g[y].held)
    BY <1>1
  <1> QED BY <1>2, <1>3, <1>4
------------------------------------------------------------------------------
(* The invariant of the references: types, and the counts of CountsExact.  *)
NodeOK(n) ==
  /\ n = [type |-> n.type, refs |-> n.refs, held |-> n.held, text |-> n.text]
  /\ n.type \in Type \cup {"freed"} /\ n.refs \in Nat
  /\ IsFiniteSet(DOMAIN n.held) /\ \A k \in DOMAIN n.held : n.held[k] \in Obj
  /\ n.type = "array" => n.held \in Seq(Obj)
  /\ n.type = "freed" => n.refs = 0 /\ n.held = <<>>
HeapOK(h) == h = [x \in Obj |-> h[x]] /\ \A x \in Obj : NodeOK(h[x])
TypesOK(h, vs, cs, ps) ==
  /\ HeapOK(h) /\ vs \in [Var -> Obj \cup {None}]
  /\ cs \in Seq(Obj) /\ ps \in Seq(Obj)
JsonTypeOK == TypesOK(heap, var, copies, puts)
JsonInv == JsonTypeOK /\ CountsExact

Alive(x) == x \in Obj /\ heap[x].refs >= 1 /\ heap[x].type # "freed"
Total(x, h, vs, cs, ps) == Times(x, vs) + Times(x, cs) + Times(x, ps) + Times(x, Grid(h))
Extra(x, L) == IF x \in L THEN 1 ELSE 0

LEMMA Addends ==
  ASSUME NEW h, NEW vs, NEW cs, NEW ps, TypesOK(h, vs, cs, ps), NEW x
  PROVE  /\ Times(x, vs) \in Nat /\ Times(x, cs) \in Nat /\ Times(x, ps) \in Nat
         /\ Times(x, Grid(h)) \in Nat /\ Total(x, h, vs, cs, ps) \in Nat
  <1>1. IsFiniteSet(DOMAIN vs)
    BY JsonAssumption DEF TypesOK
  <1>2. IsFiniteSet(DOMAIN cs) /\ IsFiniteSet(DOMAIN ps)
    BY SeqDomain DEF TypesOK
  <1>3. IsFiniteSet(DOMAIN Grid(h))
    BY GridDomain DEF TypesOK, HeapOK, NodeOK
  <1>4. /\ Times(x, vs) \in Nat /\ Times(x, cs) \in Nat /\ Times(x, ps) \in Nat
        /\ Times(x, Grid(h)) \in Nat
    BY <1>1, <1>2, <1>3, TimesIsNat
  <1> QED BY <1>4 DEF Total

LEMMA OwnersTotal ==
  ASSUME NEW x
  PROVE  /\ Owners(x) = Total(x, heap, var, copies, puts)
         /\ Owners(x)' = Total(x, heap', var', copies', puts')
  BY DEF Owners, Total, HeldAt, Slots, Grid

LEMMA Counted ==
  ASSUME JsonInv, NEW x \in Obj
  PROVE  /\ heap[x].refs = Total(x, heap, var, copies, puts) + Extra(x, lost)
         /\ Total(x, heap, var, copies, puts) \in Nat /\ heap[x].refs \in Nat
  BY Addends, OwnersTotal DEF JsonInv, JsonTypeOK, CountsExact, Extra, TypesOK, HeapOK, NodeOK

(* A call keeps the invariant if it counts as many references as it makes. *)
LEMMA Balanced ==
  ASSUME JsonInv, TypesOK(heap', var', copies', puts'),
         \A x \in Obj :
           heap'[x].refs + Total(x, heap, var, copies, puts) + Extra(x, lost)
           = heap[x].refs + Total(x, heap', var', copies', puts') + Extra(x, lost')
  PROVE  JsonInv'
  <1>1. ASSUME NEW x \in Obj
        PROVE  heap'[x].refs = Owners(x)' + (IF x \in lost' THEN 1 ELSE 0)
    <2>1. /\ heap[x].refs = Total(x, heap, var, copies, puts) + Extra(x, lost)
          /\ Total(x, heap, var, copies, puts) \in Nat
      BY Counted
    <2>2. Total(x, heap', var', copies', puts') \in Nat
      BY Addends
    <2>3. heap'[x].refs \in Nat
      BY DEF TypesOK, HeapOK, NodeOK
    <2>4. Extra(x, lost) \in Nat /\ Extra(x, lost') \in Nat
      BY DEF Extra
    <2> DEFINE r == heap[x].refs           q == heap'[x].refs
               t == Total(x, heap, var, copies, puts)
               u == Total(x, heap', var', copies', puts')
               e == Extra(x, lost)         f == Extra(x, lost')
    <2>5. q + t + e = r + u + f
      OBVIOUS
    <2> HIDE DEF r, q, t, u, e, f
    <2>6. q = u + f
      BY <2>1, <2>2, <2>3, <2>4, <2>5 DEF r, q, t, u, e, f
    <2> QED BY <2>6, OwnersTotal DEF Extra, q, u, f
  <1>2. CountsExact'
    BY <1>1 DEF CountsExact
  <1>3. JsonTypeOK'
    BY DEF JsonTypeOK
  <1> QED BY <1>2, <1>3 DEF JsonInv

(* What anybody refers to is alive.                                        *)
LEMMA OwnedAlive ==
  ASSUME JsonInv
  PROVE  /\ \A v \in Var : InScope(v) => Alive(var[v])
         /\ \A y \in Obj : \A k \in DOMAIN heap[y].held : Alive(heap[y].held[k])
         /\ puts # <<>> => Alive(Head(puts))
  <1>1. ASSUME NEW x \in Obj, Total(x, heap, var, copies, puts) >= 1 PROVE Alive(x)
    <2>1. /\ NodeOK(heap[x]) /\ Total(x, heap, var, copies, puts) \in Nat
          /\ heap[x].refs = Total(x, heap, var, copies, puts) + Extra(x, lost)
      BY Counted DEF JsonInv, JsonTypeOK, TypesOK, HeapOK
    <2> QED BY <1>1, <2>1 DEF Alive, NodeOK, Extra
  <1>2. ASSUME NEW v \in Var, InScope(v) PROVE Alive(var[v])
    <2>1. var[v] \in Obj /\ v \in DOMAIN var /\ IsFiniteSet(DOMAIN var)
      BY <1>2, JsonAssumption DEF InScope, JsonInv, JsonTypeOK, TypesOK
    <2>2. Times(var[v], var) >= 1
      BY <2>1, TimesSome
    <2> QED BY <1>1, <2>1, <2>2, Addends DEF JsonInv, JsonTypeOK, Total
  <1>3. ASSUME NEW y \in Obj, NEW k \in DOMAIN heap[y].held PROVE Alive(heap[y].held[k])
    <2>1. \A z \in Obj : IsFiniteSet(DOMAIN heap[z].held)
      BY DEF JsonInv, JsonTypeOK, TypesOK, HeapOK, NodeOK
    <2>2. /\ IsFiniteSet(DOMAIN Grid(heap)) /\ <<y, k>> \in DOMAIN Grid(heap)
          /\ Grid(heap)[<<y, k>>] = heap[y].held[k]
      BY <2>1, GridDomain
    <2>3. Times(heap[y].held[k], Grid(heap)) >= 1
      BY <2>2, TimesSome
    <2>4. heap[y].held[k] \in Obj
      BY DEF JsonInv, JsonTypeOK, TypesOK, HeapOK, NodeOK
    <2> QED BY <1>1, <2>3, <2>4, Addends DEF JsonInv, JsonTypeOK, Total
  <1>4. ASSUME puts # <<>> PROVE Alive(Head(puts))
    <2>1. puts \in Seq(Obj) /\ Head(puts) \in Obj /\ Tail(puts) \in Seq(Obj)
      BY <1>4 DEF JsonInv, JsonTypeOK, TypesOK
    <2>2. /\ Times(Head(puts), puts) = Hit(Head(puts), Head(puts)) + Times(Head(puts), Tail(puts))
          /\ Times(Head(puts), Tail(puts)) \in Nat
      <3>1. IsFiniteSet(DOMAIN Tail(puts))
        BY <2>1, SeqDomain
      <3> QED BY <1>4, <2>1, <3>1, TimesTail, TimesIsNat
    <2>3. Times(Head(puts), puts) >= 1
      BY <2>2 DEF Hit
    <2> QED BY <1>1, <2>1, <2>3, Addends DEF JsonInv, JsonTypeOK, Total
  <1> QED BY <1>2, <1>3, <1>4

(* What json_object_get leaves as it was, and what it counts.              *)
LEMMA Gets ==
  ASSUME HeapOK(heap), NEW f, IsFiniteSet(DOMAIN f), \A i \in DOMAIN f : Alive(f[i])
  PROVE  /\ HeapOK(GetAll(heap, f))
         /\ \A x \in Obj :
              /\ GetAll(heap, f)[x].refs = heap[x].refs + Times(x, f)
              /\ GetAll(heap, f)[x].held = heap[x].held
              /\ GetAll(heap, f)[x].type = heap[x].type
              /\ GetAll(heap, f)[x].text = heap[x].text
  <1> DEFINE h == GetAll(heap, f)
  <1>1. ASSUME NEW x \in Obj
        PROVE  /\ NodeOK(h[x]) /\ h[x].refs = heap[x].refs + Times(x, f)
               /\ h[x].held = heap[x].held /\ h[x].type = heap[x].type
               /\ h[x].text = heap[x].text
    <2> DEFINE n == heap[x]
    <2>1. NodeOK(n) /\ Times(x, f) \in Nat
      BY TimesIsNat DEF HeapOK
    <2>2. h[x] = [n EXCEPT !.refs = @ + Times(x, f)]
      BY DEF GetAll
    <2>3. n.type = "freed" => Times(x, f) = 0
      BY TimesNone DEF Alive
    <2> HIDE DEF n, h
    <2>4. n = [type |-> n.type, refs |-> n.refs, held |-> n.held, text |-> n.text] /\ n.refs \in Nat
      BY <2>1 DEF NodeOK
    <2>5. h[x] = [type |-> n.type, refs |-> n.refs + Times(x, f), held |-> n.held, text |-> n.text]
      BY <2>2, <2>4
    <2>6. NodeOK(h[x])
      BY <2>1, <2>3, <2>5 DEF NodeOK
    <2> QED BY <2>5, <2>6 DEF n
  <1>2. h = [x \in Obj |-> h[x]]
    BY DEF GetAll
  <1> QED BY <1>1, <1>2 DEF HeapOK
LEMMA GridSame ==
  ASSUME NEW h, NEW g, \A z \in Obj : g[z].held = h[z].held
  PROVE  Grid(g) = Grid(h)
  <1>1. \A s \in UNION {{y} \X DOMAIN h[y].held : y \in Obj} : s[1] \in Obj
    OBVIOUS
  <1>2. UNION {{y} \X DOMAIN g[y].held : y \in Obj} = UNION {{y} \X DOMAIN h[y].held : y \in Obj}
    OBVIOUS
  <1> QED BY <1>1, <1>2 DEF Grid

LEMMA FreedIs == NodeOK(Freed) /\ Freed.refs = 0 /\ Freed.held = <<>>
  <1>1. DOMAIN Freed.held = {} /\ IsFiniteSet({})
    BY FS_EmptySet DEF Freed
  <1> QED BY <1>1 DEF NodeOK, Freed, Type

LEMMA NodeIs ==
  ASSUME NEW type \in {"object", "scalar"}, NEW held, NEW text, IsFiniteSet(DOMAIN held),
         \A k \in DOMAIN held : held[k] \in Obj
  PROVE  NodeOK(Node(type, held, text))
  BY DEF NodeOK, Node, Type

LEMMA HeldByIs ==
  ASSUME NEW y \in Obj, NodeOK(heap[y])
  PROVE  /\ HeldBy(y) \in Seq(Obj)
         /\ \A i \in DOMAIN HeldBy(y) : \E k \in DOMAIN heap[y].held : HeldBy(y)[i] = heap[y].held[k]
         /\ \A x : Times(x, HeldBy(y)) = Times(x, heap[y].held)
  <1> DEFINE f == heap[y].held
             q == SetToSeq(DOMAIN f)
             n == Cardinality(DOMAIN f)
             g == HeldBy(y)
  <1>1. IsFiniteSet(DOMAIN f) /\ \A k \in DOMAIN f : f[k] \in Obj
    BY DEF NodeOK
  <1>2. /\ n \in Nat /\ q \in [1 .. n -> DOMAIN f]
        /\ \A i, j \in 1 .. n : q[i] = q[j] => i = j
        /\ \A k \in DOMAIN f : \E i \in 1 .. n : q[i] = k
    BY <1>1, SetToSeqIs
  <1>3. g = [i \in 1 .. n |-> f[q[i]]]
    BY <1>2 DEF HeldBy
  <1> HIDE DEF f, q, n, g
  <1>4. g \in Seq(Obj)
    BY <1>1, <1>2, <1>3
  <1>5. ASSUME NEW x PROVE Times(x, f) = Times(x, g)
    <2>1. /\ DOMAIN g = 1 .. n /\ q \in [DOMAIN g -> DOMAIN f]
          /\ \A i, j \in DOMAIN g : q[i] = q[j] => i = j
          /\ \A k \in DOMAIN f : \E i \in DOMAIN g : q[i] = k
          /\ \A i \in DOMAIN g : f[q[i]] = g[i]
      BY <1>2, <1>3
    <2>2. IsFiniteSet(DOMAIN g)
      BY <1>4, SeqDomain
    <2> QED BY <2>1, <2>2, TimesSame
  <1> QED BY <1>2, <1>3, <1>4, <1>5 DEF f, g

LEMMA VarPut ==
  ASSUME NEW vs \in [Var -> Obj \cup {None}], NEW v \in Var,
         NEW g \in [Var -> Obj \cup {None}], \A j \in Var : j # v => g[j] = vs[j]
  PROVE  \A y : /\ Times(y, g) + Hit(y, vs[v]) = Times(y, vs) + Hit(y, g[v])
                /\ Times(y, vs) \in Nat /\ Times(y, g) \in Nat
  <1>1. /\ IsFiniteSet(DOMAIN vs) /\ v \in DOMAIN vs /\ DOMAIN g = DOMAIN vs \cup {v}
        /\ \A j \in DOMAIN vs : j # v => g[j] = vs[j]
    BY JsonAssumption
  <1>2. ASSUME NEW y
        PROVE  /\ Times(y, g) + Hit(y, vs[v]) = Times(y, vs) + Hit(y, g[v])
               /\ Times(y, vs) \in Nat /\ Times(y, g) \in Nat
    <2>1. Times(y, vs) \in Nat /\ Times(y, g) \in Nat
      BY <1>1, TimesIsNat
    <2>2. Times(y, g) + Hit(y, vs[v]) = Times(y, vs) + Hit(y, g[v])
      BY <1>1, TimesPut
    <2> QED BY <1>1, <2>1, <2>2
  <1> QED BY <1>2

LEMMA NotNone == ASSUME NEW x \in Obj PROVE Hit(x, None) = 0
  BY JsonAssumption DEF Hit

LEMMA FreshIs ==
  ASSUME JsonInv, Spare # {}
  PROVE  /\ Fresh \in Obj /\ heap[Fresh].type = "freed" /\ heap[Fresh].refs = 0
         /\ heap[Fresh].held = <<>> /\ ~Alive(Fresh)
  <1>1. Fresh \in Spare
    BY DEF Fresh
  <1>2. Fresh \in Obj /\ heap[Fresh].type = "freed"
    BY <1>1 DEF Spare, Live
  <1>3. NodeOK(heap[Fresh])
    BY <1>2 DEF JsonInv, JsonTypeOK, TypesOK, HeapOK
  <1> QED BY <1>2, <1>3 DEF NodeOK, Alive
------------------------------------------------------------------------------
(* Calls after which the values hold what they held.                       *)
LEMMA MovesKeep ==
  ASSUME JsonInv, HeapOK(heap'), \A x \in Obj : heap'[x].held = heap[x].held,
         var' \in [Var -> Obj \cup {None}], copies' \in Seq(Obj), puts' \in Seq(Obj),
         \A y \in Obj :
           heap'[y].refs + Times(y, var) + Times(y, copies) + Times(y, puts) + Extra(y, lost)
           = heap[y].refs + Times(y, var') + Times(y, copies') + Times(y, puts') + Extra(y, lost')
  PROVE  JsonInv'
  <1>1. TypesOK(heap, var, copies, puts) /\ TypesOK(heap', var', copies', puts')
    BY DEF JsonInv, JsonTypeOK, TypesOK
  <1>2. Grid(heap') = Grid(heap)
    BY GridSame
  <1>3. ASSUME NEW y \in Obj
        PROVE  heap'[y].refs + Total(y, heap, var, copies, puts) + Extra(y, lost)
               = heap[y].refs + Total(y, heap', var', copies', puts') + Extra(y, lost')
    <2> DEFINE a == Times(y, var)   b == Times(y, copies)   c == Times(y, puts)
               k == Times(y, var')  l == Times(y, copies')  m == Times(y, puts')
               d == Extra(y, lost)  n == Extra(y, lost')    e == Times(y, Grid(heap))
               q == heap[y].refs    r == heap'[y].refs
               t == Total(y, heap, var, copies, puts)
               u == Total(y, heap', var', copies', puts')
    <2>1. q \in Nat /\ r \in Nat
      BY <1>1 DEF TypesOK, HeapOK, NodeOK
    <2>2. a \in Nat /\ b \in Nat /\ c \in Nat /\ e \in Nat
      BY <1>1, Addends
    <2>3. k \in Nat /\ l \in Nat /\ m \in Nat
      BY <1>1, Addends
    <2>4. d \in Nat /\ n \in Nat
      BY DEF Extra
    <2>5. t = a + b + c + e
      BY DEF Total
    <2>6. u = k + l + m + e
      BY <1>2 DEF Total
    <2>7. r + a + b + c + d = q + k + l + m + n
      OBVIOUS
    <2> HIDE DEF a, b, c, k, l, m, d, n, e, q, r, t, u
    <2>8. r + t + d = q + u + n
      BY <2>1, <2>2, <2>3, <2>4, <2>5, <2>6, <2>7
    <2> QED BY <2>8 DEF r, t, d, q, u, n
  <1> QED BY <1>1, <1>3, Balanced

(* json_object_put: a value that goes puts what it held.                   *)
LEMMA ReleaseKeeps == ASSUME JsonInv, Release PROVE JsonInv'
  <1> DEFINE x == Head(puts)
  <1>1. puts # <<>> /\ Alive(x) /\ var' = var /\ copies' = copies /\ lost' = lost
    BY OwnedAlive DEF Release
  <1>2. /\ TypesOK(heap, var, copies, puts) /\ puts \in Seq(Obj) /\ Tail(puts) \in Seq(Obj)
        /\ x \in Obj /\ HeapOK(heap) /\ NodeOK(heap[x]) /\ heap[x].refs \in Nat
        /\ copies \in Seq(Obj) /\ var \in [Var -> Obj \cup {None}]
    BY <1>1 DEF JsonInv, JsonTypeOK, TypesOK, HeapOK, NodeOK, Alive
  <1>3. \A y : Times(y, puts) = Hit(y, x) + Times(y, Tail(puts))
    BY <1>1, <1>2, TimesTail
  <1> HIDE DEF x
  <1>4. \A y : Times(y, Tail(puts)) \in Nat
    <2>1. IsFiniteSet(DOMAIN Tail(puts))
      BY <1>2, SeqDomain
    <2> QED BY <2>1, TimesIsNat
  <1>5. CASE heap[x].refs > 1
    <2> DEFINE n == [heap[x] EXCEPT !.refs = @ - 1]
    <2>1. heap' = [heap EXCEPT ![x] = n] /\ puts' = Tail(puts)
      BY <1>5 DEF Release, x
    <2>2. NodeOK(n) /\ n.refs = heap[x].refs - 1 /\ n.held = heap[x].held
      <3> DEFINE m == heap[x]
      <3>1. /\ m = [type |-> m.type, refs |-> m.refs, held |-> m.held, text |-> m.text]
            /\ NodeOK(m) /\ m.refs \in Nat /\ m.refs > 1
        BY <1>2, <1>5 DEF NodeOK
      <3>2. n = [type |-> m.type, refs |-> m.refs - 1, held |-> m.held, text |-> m.text]
        BY <3>1
      <3> HIDE DEF n, m
      <3>3. NodeOK(n) /\ n.refs = m.refs - 1 /\ n.held = m.held
        BY <3>1, <3>2 DEF NodeOK
      <3> QED BY <3>3 DEF m
    <2> HIDE DEF n
    <2>3. HeapOK(heap') /\ \A z \in Obj : heap'[z] = IF z = x THEN n ELSE heap[z]
      BY <1>2, <2>1, <2>2 DEF HeapOK
    <2>4. ASSUME NEW y \in Obj
          PROVE  heap'[y].refs + Times(y, var) + Times(y, copies) + Times(y, puts) + Extra(y, lost)
                 = heap[y].refs + Times(y, var') + Times(y, copies') + Times(y, puts') + Extra(y, lost')
      <3>1. heap'[y].refs = heap[y].refs - Hit(y, x)
        BY <1>2, <2>2, <2>3 DEF Hit, HeapOK, NodeOK
      <3>2. Times(y, var) \in Nat /\ Times(y, copies) \in Nat /\ heap[y].refs \in Nat
        BY <1>2, Addends, Counted
      <3>3. Extra(y, lost) \in Nat /\ Hit(y, x) \in Nat
        BY DEF Extra, Hit
      <3>4. /\ Times(y, puts) = Hit(y, x) + Times(y, puts') /\ Times(y, puts') \in Nat
            /\ var' = var /\ copies' = copies /\ lost' = lost
        BY <1>1, <1>3, <1>4, <2>1
      <3> QED BY <3>1, <3>2, <3>3, <3>4
    <2> QED BY <1>1, <1>2, <2>1, <2>2, <2>3, <2>4, MovesKeep
  <1>6. CASE ~(heap[x].refs > 1)
    <2>1. heap' = [heap EXCEPT ![x] = Freed] /\ puts' = HeldBy(x) \o Tail(puts)
      BY <1>6 DEF Release, x
    <2>2. HeapOK(heap') /\ \A z \in Obj : heap'[z] = IF z = x THEN Freed ELSE heap[z]
      BY <1>2, <2>1, FreedIs DEF HeapOK
    <2>3. HeldBy(x) \in Seq(Obj) /\ \A y : Times(y, HeldBy(x)) = Times(y, heap[x].held)
      BY <1>2, HeldByIs
    <2>4. TypesOK(heap', var', copies', puts')
      BY <1>1, <1>2, <2>1, <2>2, <2>3 DEF TypesOK
    <2>5. heap[x].refs = 1
      BY <1>1, <1>2, <1>6 DEF Alive
    <2>6. ASSUME NEW y \in Obj
          PROVE  heap'[y].refs + Total(y, heap, var, copies, puts) + Extra(y, lost)
                 = heap[y].refs + Total(y, heap', var', copies', puts') + Extra(y, lost')
      <3>1. heap'[y].refs = heap[y].refs - Hit(y, x)
        BY <1>2, <2>2, <2>5, FreedIs DEF Hit, HeapOK, NodeOK
      <3>2. /\ Times(y, var) \in Nat /\ Times(y, copies) \in Nat
            /\ Times(y, Grid(heap)) \in Nat /\ heap[y].refs \in Nat
            /\ Times(y, Grid(heap')) \in Nat
        BY <1>2, <2>4, Addends, Counted
      <3>3. Extra(y, lost) \in Nat /\ Hit(y, x) \in Nat
        BY DEF Extra, Hit
      <3>4. /\ Times(y, puts') = Times(y, heap[x].held) + Times(y, Tail(puts))
            /\ Times(y, heap[x].held) \in Nat
        <4>1. Times(y, puts') = Times(y, HeldBy(x)) + Times(y, Tail(puts))
          BY <1>2, <2>1, <2>3, TimesConcat
        <4>2. IsFiniteSet(DOMAIN heap[x].held)
          BY <1>2 DEF NodeOK
        <4> QED BY <2>3, <4>1, <4>2, TimesIsNat
      <3>5. Times(y, Grid(heap')) + Times(y, heap[x].held)
            = Times(y, Grid(heap)) + Times(y, heap'[x].held)
        <4>1. /\ \A z \in Obj : /\ IsFiniteSet(DOMAIN heap[z].held)
                                 /\ IsFiniteSet(DOMAIN heap'[z].held)
              /\ \A z \in Obj : z # x => heap'[z].held = heap[z].held
          BY <1>2, <2>2 DEF HeapOK, NodeOK
        <4> QED BY <1>2, <4>1, GridChange, ZenonT(60)
      <3>6. Times(y, heap'[x].held) = 0
        BY <1>2, <2>2, FreedIs, TimesEmpty
      <3>7. /\ Times(y, puts) = Hit(y, x) + Times(y, Tail(puts)) /\ Times(y, Tail(puts)) \in Nat
            /\ var' = var /\ copies' = copies /\ lost' = lost
        BY <1>1, <1>3, <1>4
      <3>8. Total(y, heap', var', copies', puts') = Total(y, heap, var, copies, puts) - Hit(y, x)
        BY <3>2, <3>3, <3>4, <3>5, <3>6, <3>7 DEF Total
      <3>9. Total(y, heap, var, copies, puts) \in Nat
        BY Counted
      <3> QED BY <3>1, <3>2, <3>3, <3>7, <3>8, <3>9
    <2> QED BY <2>4, <2>6, Balanced
  <1> QED BY <1>5, <1>6
(* Every value that is added to a heap of nodes.                           *)
LEMMA NewKeeps ==
  ASSUME JsonInv, NEW v \in Var, NEW node, NodeOK(node), node.refs = 1,
         node.type # "freed", \A i \in DOMAIN node.held : Alive(node.held[i]), New(v, node)
  PROVE  JsonInv'
  <1> DEFINE g == GetAll(heap, node.held)
  <1>1. /\ var[v] = None /\ Spare # {} /\ heap' = [g EXCEPT ![Fresh] = node]
        /\ var' = [var EXCEPT ![v] = Fresh] /\ copies' = copies /\ puts' = puts /\ lost' = lost
    BY DEF New, InScope
  <1>2. /\ Fresh \in Obj /\ heap[Fresh].refs = 0 /\ heap[Fresh].held = <<>> /\ ~Alive(Fresh)
    BY <1>1, FreshIs
  <1> HIDE DEF g
  <1>3. /\ HeapOK(heap) /\ var \in [Var -> Obj \cup {None}]
        /\ copies \in Seq(Obj) /\ puts \in Seq(Obj) /\ TypesOK(heap, var, copies, puts)
        /\ IsFiniteSet(DOMAIN node.held)
    BY DEF JsonInv, JsonTypeOK, TypesOK, NodeOK
  <1>4. /\ HeapOK(g)
        /\ \A x \in Obj : /\ g[x].refs = heap[x].refs + Times(x, node.held)
                          /\ g[x].held = heap[x].held
    BY <1>3, Gets DEF g
  <1>5. HeapOK(heap') /\ \A z \in Obj : heap'[z] = IF z = Fresh THEN node ELSE g[z]
    BY <1>1, <1>2, <1>4 DEF HeapOK
  <1>6. /\ var' \in [Var -> Obj \cup {None}]
        /\ \A y : Times(y, var') + Hit(y, None) = Times(y, var) + Hit(y, Fresh)
    <2>1. /\ var' \in [Var -> Obj \cup {None}] /\ var'[v] = Fresh
          /\ \A j \in Var : j # v => var'[j] = var[j]
      BY <1>1, <1>2, <1>3
    <2>2. \A y : Times(y, var') + Hit(y, var[v]) = Times(y, var) + Hit(y, var'[v])
      BY <1>3, <2>1, VarPut
    <2> QED BY <1>1, <2>1, <2>2
  <1>7. TypesOK(heap', var', copies', puts')
    BY <1>1, <1>3, <1>5, <1>6 DEF TypesOK
  <1>8. ASSUME NEW y \in Obj
        PROVE  heap'[y].refs + Total(y, heap, var, copies, puts) + Extra(y, lost)
               = heap[y].refs + Total(y, heap', var', copies', puts') + Extra(y, lost')
    <2>1. Times(y, node.held) \in Nat /\ (y = Fresh => Times(y, node.held) = 0)
      BY <1>2, <1>3, TimesIsNat, TimesNone
    <2>2. heap[y].refs \in Nat
      BY <1>3 DEF HeapOK, NodeOK
    <2>3. heap'[y].refs = heap[y].refs + Times(y, node.held) + Hit(y, Fresh)
      BY <1>2, <1>4, <1>5, <2>1, <2>2 DEF Hit
    <2>4. Times(y, Grid(heap')) + Times(y, heap[Fresh].held)
          = Times(y, Grid(heap)) + Times(y, heap'[Fresh].held)
      <3>1. /\ \A z \in Obj : IsFiniteSet(DOMAIN heap[z].held) /\ IsFiniteSet(DOMAIN heap'[z].held)
            /\ \A z \in Obj : z # Fresh => heap'[z].held = heap[z].held
        BY <1>3, <1>4, <1>5 DEF HeapOK, NodeOK
      <3>2. Fresh \in Obj
        BY <1>2
      <3> QED BY <3>1, <3>2, GridChange
    <2>5. Times(y, heap[Fresh].held) = 0 /\ heap'[Fresh].held = node.held
      BY <1>2, <1>5, TimesEmpty
    <2>6. /\ Times(y, var) \in Nat /\ Times(y, copies) \in Nat /\ Times(y, puts) \in Nat
          /\ Times(y, Grid(heap)) \in Nat /\ Total(y, heap, var, copies, puts) \in Nat
      BY <1>3, Addends
    <2>7. Times(y, var') \in Nat /\ Times(y, Grid(heap')) \in Nat
      BY <1>7, Addends
    <2>8. Extra(y, lost) \in Nat /\ Hit(y, Fresh) \in Nat /\ Hit(y, None) = 0
      BY NotNone DEF Extra, Hit
    <2>9. Total(y, heap', var', copies', puts')
          = Total(y, heap, var, copies, puts) + Hit(y, Fresh) + Times(y, node.held)
      <3>1. Times(y, var') = Times(y, var) + Hit(y, Fresh)
        BY <1>6, <2>6, <2>7, <2>8
      <3>2. Times(y, Grid(heap')) = Times(y, Grid(heap)) + Times(y, node.held)
        BY <2>1, <2>4, <2>5, <2>6, <2>7
      <3>3. Total(y, heap', var', copies', puts')
            = Times(y, var') + Times(y, copies) + Times(y, puts) + Times(y, Grid(heap'))
        BY <1>1 DEF Total
      <3>4. Total(y, heap, var, copies, puts)
            = Times(y, var) + Times(y, copies) + Times(y, puts) + Times(y, Grid(heap))
        BY DEF Total
      <3> QED BY <2>1, <2>6, <2>8, <3>1, <3>2, <3>3, <3>4
    <2> QED BY <1>1, <2>1, <2>2, <2>3, <2>6, <2>8, <2>9
  <1> QED BY <1>7, <1>8, Balanced

(* What the proofs of the calls need of arithmetic.                        *)
LEMMA Numbers ==
  ASSUME JsonInv, HeapOK(heap'), var' \in [Var -> Obj \cup {None}],
         copies' \in Seq(Obj), puts' \in Seq(Obj), NEW y \in Obj
  PROVE  /\ Times(y, var) \in Nat /\ Times(y, copies) \in Nat /\ Times(y, puts) \in Nat
         /\ Times(y, var') \in Nat /\ Times(y, copies') \in Nat /\ Times(y, puts') \in Nat
         /\ Times(y, Grid(heap)) \in Nat /\ Times(y, Grid(heap')) \in Nat
         /\ heap[y].refs \in Nat /\ heap'[y].refs \in Nat
         /\ Extra(y, lost) \in Nat /\ Extra(y, lost') \in Nat
         /\ Hit(y, None) = 0 /\ \A x : Hit(y, x) \in Nat
  <1>1. TypesOK(heap, var, copies, puts) /\ TypesOK(heap', var', copies', puts')
    BY DEF JsonInv, JsonTypeOK, TypesOK
  <1>2. /\ Times(y, var) \in Nat /\ Times(y, copies) \in Nat /\ Times(y, puts) \in Nat
        /\ Times(y, Grid(heap)) \in Nat
    BY <1>1, Addends
  <1>3. /\ Times(y, var') \in Nat /\ Times(y, copies') \in Nat /\ Times(y, puts') \in Nat
        /\ Times(y, Grid(heap')) \in Nat
    BY <1>1, Addends
  <1>4. heap[y].refs \in Nat /\ heap'[y].refs \in Nat
    BY <1>1 DEF TypesOK, HeapOK, NodeOK
  <1> QED BY <1>2, <1>3, <1>4, NotNone DEF Extra, Hit

LEMMA GetOne ==
  ASSUME JsonInv, NEW x, Alive(x), heap' = GetAll(heap, <<x>>)
  PROVE  /\ HeapOK(heap')
         /\ \A y \in Obj : heap'[y].refs = heap[y].refs + Hit(y, x) /\ heap'[y].held = heap[y].held
  <1>1. <<x>> \in Seq(Obj) /\ \A i \in DOMAIN <<x>> : <<x>>[i] = x
    BY DEF Alive
  <1>2. IsFiniteSet(DOMAIN <<x>>)
    BY <1>1, SeqDomain
  <1>3. HeapOK(heap)
    BY DEF JsonInv, JsonTypeOK, TypesOK
  <1> QED BY <1>1, <1>2, <1>3, Gets, TimesOne

LEMMA SetVar ==
  ASSUME JsonInv, NEW v \in Var, NEW x \in Obj \cup {None}, var' = [var EXCEPT ![v] = x]
  PROVE  /\ var' \in [Var -> Obj \cup {None}]
         /\ \A y : Times(y, var') + Hit(y, var[v]) = Times(y, var) + Hit(y, x)
  <1>1. var \in [Var -> Obj \cup {None}]
    BY DEF JsonInv, JsonTypeOK, TypesOK
  <1>2. /\ var' \in [Var -> Obj \cup {None}] /\ var'[v] = x
        /\ \A j \in Var : j # v => var'[j] = var[j]
    BY <1>1
  <1>3. ASSUME NEW g \in [Var -> Obj \cup {None}], \A j \in Var : j # v => g[j] = var[j]
        PROVE  \A y : Times(y, g) + Hit(y, var[v]) = Times(y, var) + Hit(y, g[v])
    BY <1>1, <1>3, VarPut
  <1> QED BY <1>2, <1>3

LEMMA Typed ==
  ASSUME JsonInv
  PROVE  /\ HeapOK(heap) /\ var \in [Var -> Obj \cup {None}]
         /\ copies \in Seq(Obj) /\ puts \in Seq(Obj)
  BY DEF JsonInv, JsonTypeOK, TypesOK

(* A variable that gives up its reference, if it has one, for one to x.    *)
LEMMA SetKeeps ==
  ASSUME JsonInv, NEW v \in Var, NEW x \in Obj \cup {None}, var' = [var EXCEPT ![v] = x],
         HeapOK(heap'),
         \A y \in Obj : heap'[y].refs = heap[y].refs + Hit(y, x) /\ heap'[y].held = heap[y].held,
         copies' = copies, lost' = lost, puts' \in Seq(Obj),
         \A y \in Obj : Times(y, puts') = Times(y, puts) + Hit(y, var[v])
  PROVE  JsonInv'
  <1>1. /\ var' \in [Var -> Obj \cup {None}]
        /\ \A y : Times(y, var') + Hit(y, var[v]) = Times(y, var) + Hit(y, x)
    BY SetVar
  <1>2. copies' \in Seq(Obj)
    BY Typed
  <1>3. ASSUME NEW y \in Obj
        PROVE  heap'[y].refs + Times(y, var) + Times(y, copies) + Times(y, puts) + Extra(y, lost)
               = heap[y].refs + Times(y, var') + Times(y, copies') + Times(y, puts') + Extra(y, lost')
    <2> DEFINE r == heap[y].refs    a == Times(y, var)   b == Times(y, copies)  c == Times(y, puts)
               q == heap'[y].refs   k == Times(y, var')  m == Times(y, puts')   d == Extra(y, lost)
               i == Hit(y, x)       j == Hit(y, var[v])
    <2>1. /\ r \in Nat /\ a \in Nat /\ b \in Nat /\ c \in Nat /\ k \in Nat /\ m \in Nat
          /\ d \in Nat /\ i \in Nat /\ j \in Nat
      BY <1>1, <1>2, Numbers
    <2>2. q = r + i /\ k + j = a + i /\ m = c + j
      BY <1>1
    <2>3. Times(y, copies') = b /\ Extra(y, lost') = d
      OBVIOUS
    <2> HIDE DEF r, a, b, c, q, k, m, d, i, j
    <2>4. q + a + b + c + d = r + k + b + m + d
      BY <2>1, <2>2
    <2> QED BY <2>3, <2>4 DEF r, a, b, c, q, k, m, d
  <1> QED BY <1>1, <1>2, <1>3, MovesKeep

LEMMA OwnKeeps ==
  ASSUME JsonInv, NEW v \in Var, NEW x, Alive(x), Own(v, x)
  PROVE  JsonInv'
  <1>1. /\ var[v] = None /\ heap' = GetAll(heap, <<x>>) /\ var' = [var EXCEPT ![v] = x]
        /\ copies' = copies /\ puts' = puts /\ lost' = lost /\ x \in Obj
    BY DEF Own, InScope, Alive
  <1>2. /\ HeapOK(heap')
        /\ \A y \in Obj : heap'[y].refs = heap[y].refs + Hit(y, x) /\ heap'[y].held = heap[y].held
    BY <1>1, GetOne
  <1>3. puts' \in Seq(Obj)
    BY <1>1, Typed
  <1>4. ASSUME NEW y \in Obj PROVE Times(y, puts') = Times(y, puts) + Hit(y, var[v])
    <2>1. Hit(y, var[v]) = 0 /\ Times(y, puts) \in Nat /\ Times(y, puts') = Times(y, puts)
      BY <1>1, Typed, NotNone, SeqDomain, TimesIsNat
    <2> QED BY <2>1
  <1> QED BY <1>1, <1>2, <1>3, <1>4, SetKeeps

LEMMA PutOne ==
  ASSUME JsonInv, puts = <<>>, NEW x, Alive(x), puts' = <<x>>
  PROVE  puts' \in Seq(Obj) /\ \A y \in Obj : Times(y, puts') = Times(y, puts) + Hit(y, x)
  <1>1. puts' \in Seq(Obj)
    BY DEF Alive
  <1>2. ASSUME NEW y \in Obj PROVE Times(y, puts') = Times(y, puts) + Hit(y, x)
    <2>1. Times(y, puts') = Hit(y, x) /\ Times(y, puts) = 0 /\ Hit(y, x) \in Nat
      BY TimesOne, TimesEmpty DEF Hit
    <2> QED BY <2>1
  <1> QED BY <1>1, <1>2

LEMMA ReplaceKeeps ==
  ASSUME JsonInv, puts = <<>>, NEW v \in Var, NEW x, Alive(x), Replace(v, x)
  PROVE  JsonInv'
  <1>1. /\ Alive(var[v]) /\ heap' = GetAll(heap, <<x>>) /\ var' = [var EXCEPT ![v] = x]
        /\ copies' = copies /\ puts' = <<var[v]>> /\ lost' = lost /\ x \in Obj
    BY OwnedAlive DEF Replace, Alive
  <1>2. /\ HeapOK(heap')
        /\ \A y \in Obj : heap'[y].refs = heap[y].refs + Hit(y, x) /\ heap'[y].held = heap[y].held
    BY <1>1, GetOne
  <1>3. puts' \in Seq(Obj) /\ \A y \in Obj : Times(y, puts') = Times(y, puts) + Hit(y, var[v])
    BY <1>1, PutOne
  <1> QED BY <1>1, <1>2, <1>3, SetKeeps

LEMMA DestroyKeeps ==
  ASSUME JsonInv, puts = <<>>, NEW v \in Var, Destroy(v)
  PROVE  JsonInv'
  <1>1. /\ Alive(var[v]) /\ heap' = heap /\ var' = [var EXCEPT ![v] = None]
        /\ copies' = copies /\ puts' = <<var[v]>> /\ lost' = lost
    BY OwnedAlive DEF Destroy
  <1>2. HeapOK(heap) /\ \A y \in Obj : heap[y].refs \in Nat
    BY Typed DEF HeapOK, NodeOK
  <1>3. \A y \in Obj : heap'[y].refs = heap[y].refs + Hit(y, None) /\ heap'[y].held = heap[y].held
    BY <1>1, <1>2, NotNone
  <1>4. puts' \in Seq(Obj) /\ \A y \in Obj : Times(y, puts') = Times(y, puts) + Hit(y, var[v])
    BY <1>1, PutOne
  <1>5. HeapOK(heap')
    BY <1>1, <1>2
  <1> QED BY <1>1, <1>3, <1>4, <1>5, SetKeeps

(* References that change places: v's and w's, or one that v hands to w.   *)
LEMMA SwapKeeps ==
  ASSUME JsonInv, NEW v \in Var, NEW w \in Var,
         var' \in [Var -> Obj \cup {None}], var'[v] = var[w], var'[w] = var[v],
         \A j \in Var : j # v /\ j # w => var'[j] = var[j],
         UNCHANGED <<heap, copies, puts, lost>>
  PROVE  JsonInv'
  <1> DEFINE u == [var EXCEPT ![v] = var[w]]
  <1>1. /\ heap' = heap /\ copies' = copies /\ puts' = puts /\ lost' = lost
    OBVIOUS
  <1>2. HeapOK(heap') /\ \A y \in Obj : heap'[y].refs = heap[y].refs /\ heap'[y].held = heap[y].held
    BY <1>1, Typed
  <1>3. copies' \in Seq(Obj) /\ puts' \in Seq(Obj)
    BY <1>1, Typed
  <1>4. /\ u \in [Var -> Obj \cup {None}] /\ u[v] = var[w] /\ u[w] = var[w]
        /\ \A j \in Var : j # v => u[j] = var[j]
        /\ \A j \in Var : j # w => var'[j] = u[j]
        /\ var \in [Var -> Obj \cup {None}]
    BY Typed
  <1> HIDE DEF u
  <1>5. \A y : Times(y, u) + Hit(y, var[v]) = Times(y, var) + Hit(y, var[w])
    BY <1>4, VarPut
  <1>6. \A y : Times(y, var') + Hit(y, var[w]) = Times(y, u) + Hit(y, var[v])
    <2>1. \A y : Times(y, var') + Hit(y, u[w]) = Times(y, u) + Hit(y, var'[w])
      BY <1>4, VarPut
    <2> QED BY <1>4, <2>1
  <1>7. \A y : Times(y, u) \in Nat
    BY <1>4, VarPut
  <1>8. ASSUME NEW y \in Obj
        PROVE  heap'[y].refs + Times(y, var) + Times(y, copies) + Times(y, puts) + Extra(y, lost)
               = heap[y].refs + Times(y, var') + Times(y, copies') + Times(y, puts') + Extra(y, lost')
    <2>1. Times(y, var) = Times(y, var')
      <3>1. /\ Times(y, var) \in Nat /\ Times(y, var') \in Nat
            /\ Hit(y, var[v]) \in Nat /\ Hit(y, var[w]) \in Nat
        BY <1>2, <1>3, <1>4, Numbers
      <3>2. /\ Times(y, u) + Hit(y, var[v]) = Times(y, var) + Hit(y, var[w])
            /\ Times(y, var') + Hit(y, var[w]) = Times(y, u) + Hit(y, var[v])
            /\ Times(y, u) \in Nat
        BY <1>5, <1>6, <1>7
      <3> QED BY <3>1, <3>2
    <2> QED BY <1>1, <1>2, <2>1
  <1> QED BY <1>2, <1>3, <1>4, <1>8, MovesKeep
------------------------------------------------------------------------------

(* Calls that change what one value y holds.                               *)
LEMMA HoldsKeep ==
  ASSUME JsonInv, NEW y \in Obj, HeapOK(heap'),
         \A z \in Obj : z # y => heap'[z].held = heap[z].held,
         var' = var, copies' = copies, lost' = lost, puts' \in Seq(Obj),
         \A x \in Obj :
           heap'[x].refs + Times(x, puts) + Times(x, heap[y].held)
           = heap[x].refs + Times(x, puts') + Times(x, heap'[y].held)
  PROVE  JsonInv'
  <1>1. /\ var' \in [Var -> Obj \cup {None}] /\ copies' \in Seq(Obj)
        /\ HeapOK(heap)
    BY Typed
  <1>2. TypesOK(heap', var', copies', puts')
    BY <1>1 DEF TypesOK
  <1>3. \A z \in Obj : IsFiniteSet(DOMAIN heap[z].held) /\ IsFiniteSet(DOMAIN heap'[z].held)
    BY <1>1 DEF HeapOK, NodeOK
  <1>4. ASSUME NEW x \in Obj
        PROVE  heap'[x].refs + Total(x, heap, var, copies, puts) + Extra(x, lost)
               = heap[x].refs + Total(x, heap', var', copies', puts') + Extra(x, lost')
    <2> DEFINE a == Times(x, var)   b == Times(x, copies)   c == Times(x, puts)
               m == Times(x, puts') d == Extra(x, lost)
               e == Times(x, Grid(heap))     f == Times(x, Grid(heap'))
               q == heap[x].refs    r == heap'[x].refs
               i == Times(x, heap[y].held)   j == Times(x, heap'[y].held)
               t == Total(x, heap, var, copies, puts)
               u == Total(x, heap', var', copies', puts')
    <2>1. /\ a \in Nat /\ b \in Nat /\ c \in Nat /\ m \in Nat /\ d \in Nat
          /\ e \in Nat /\ f \in Nat /\ q \in Nat /\ r \in Nat
      BY <1>1, Numbers
    <2>2. i \in Nat /\ j \in Nat
      BY <1>3, TimesIsNat
    <2>3. f + i = e + j
      BY <1>3, GridChange
    <2>4. t = a + b + c + e
      BY DEF Total
    <2>5. u = a + b + m + f
      BY DEF Total
    <2>6. r + c + i = q + m + j
      OBVIOUS
    <2>7. Extra(x, lost') = d
      OBVIOUS
    <2> HIDE DEF a, b, c, m, d, e, f, q, r, i, j, t, u
    <2>8. r + t + d = q + u + d
      BY <2>1, <2>2, <2>3, <2>4, <2>5, <2>6
    <2> QED BY <2>7, <2>8 DEF r, t, d, q, u
  <1> QED BY <1>2, <1>4, Balanced

(* A value of a container that holds something else.                       *)
LEMMA NodeHolds ==
  ASSUME NEW n, NodeOK(n), n.type # "freed", NEW held, IsFiniteSet(DOMAIN held),
         \A k \in DOMAIN held : held[k] \in Obj, n.type = "array" => held \in Seq(Obj)
  PROVE  LET m == [n EXCEPT !.held = held]
         IN NodeOK(m) /\ m.held = held /\ m.refs = n.refs
  <1> DEFINE m == [n EXCEPT !.held = held]
  <1>1. n = [type |-> n.type, refs |-> n.refs, held |-> n.held, text |-> n.text]
    BY DEF NodeOK
  <1>2. m = [type |-> n.type, refs |-> n.refs, held |-> held, text |-> n.text]
    BY <1>1
  <1> HIDE DEF m
  <1>3. NodeOK(m) /\ m.held = held /\ m.refs = n.refs
    BY <1>2 DEF NodeOK
  <1> QED BY <1>3 DEF m

Fits(type, held) ==
  /\ IsFiniteSet(DOMAIN held) /\ \A k \in DOMAIN held : held[k] \in Obj
  /\ type = "array" => held \in Seq(Obj)
GetPut(y, x, held) == [GetAll(heap, <<x>>) EXCEPT ![y].held = held]
LEMMA GetAndPut ==
  ASSUME JsonInv, NEW y, Alive(y), NEW x, Alive(x), NEW held, Fits(heap[y].type, held),
         heap' = GetPut(y, x, held)
  PROVE  /\ HeapOK(heap') /\ heap'[y].held = held
         /\ \A z \in Obj : /\ heap'[z].refs = heap[z].refs + Hit(z, x)
                           /\ z # y => heap'[z].held = heap[z].held
  <1> DEFINE g == GetAll(heap, <<x>>)
             h == heap'
  <1>1. y \in Obj /\ x \in Obj /\ heap[y].type # "freed" /\ HeapOK(heap)
    BY Typed DEF Alive
  <1>2. <<x>> \in Seq(Obj) /\ \A i \in DOMAIN <<x>> : <<x>>[i] = x
    BY <1>1
  <1>3. IsFiniteSet(DOMAIN <<x>>)
    BY <1>2, SeqDomain
  <1>4. /\ HeapOK(g) /\ g[y].type = heap[y].type
        /\ \A z \in Obj : g[z].refs = heap[z].refs + Hit(z, x) /\ g[z].held = heap[z].held
    BY <1>1, <1>2, <1>3, Gets, TimesOne
  <1> DEFINE m == [g[y] EXCEPT !.held = held]
  <1>5. NodeOK(g[y]) /\ g = [z \in Obj |-> g[z]] /\ g[y].type # "freed" /\ Fits(g[y].type, held)
    BY <1>1, <1>4 DEF HeapOK
  <1>6. NodeOK(m) /\ m.held = held /\ m.refs = g[y].refs
    <2> HIDE DEF g
    <2>1. \A n : NodeOK(n) /\ n.type # "freed" /\ Fits(n.type, held)
                => /\ NodeOK([n EXCEPT !.held = held])
                   /\ [n EXCEPT !.held = held].held = held
                   /\ [n EXCEPT !.held = held].refs = n.refs
      BY NodeHolds DEF Fits
    <2> QED BY <1>5, <2>1
  <1>7. h = [g EXCEPT ![y] = m]
    BY DEF GetPut
  <1> HIDE DEF g, h, m
  <1>8. h = [z \in Obj |-> h[z]] /\ h[y] = m /\ \A z \in Obj : z # y => h[z] = g[z]
    BY <1>1, <1>5, <1>7
  <1>9. \A z \in Obj : NodeOK(h[z])
    BY <1>4, <1>6, <1>8 DEF HeapOK
  <1>10. HeapOK(h)
    BY <1>8, <1>9 DEF HeapOK
  <1>11. \A z \in Obj : h[z].refs = g[z].refs /\ (z # y => h[z].held = g[z].held)
    BY <1>6, <1>8
  <1>12. h[y].held = held
    BY <1>6, <1>8
  <1> QED BY <1>4, <1>10, <1>11, <1>12 DEF h

(* A value that holds one more, or another of the values.                  *)
LEMMA HoldsOneMore ==
  ASSUME JsonInv, NEW y \in Obj, NEW held, NEW k,
         DOMAIN held = DOMAIN heap[y].held \cup {k},
         \A j \in DOMAIN heap[y].held : j # k => held[j] = heap[y].held[j], NEW z
  PROVE  /\ k \notin DOMAIN heap[y].held => Times(z, held) = Times(z, heap[y].held) + Hit(z, held[k])
         /\ k \in DOMAIN heap[y].held =>
              Times(z, held) + Hit(z, heap[y].held[k]) = Times(z, heap[y].held) + Hit(z, held[k])
         /\ Times(z, held) \in Nat /\ Times(z, heap[y].held) \in Nat
  <1> DEFINE old == heap[y].held
  <1>1. IsFiniteSet(DOMAIN old)
    BY Typed DEF HeapOK, NodeOK
  <1>2. DOMAIN held = DOMAIN old \cup {k} /\ \A j \in DOMAIN old : j # k => held[j] = old[j]
    OBVIOUS
  <1> HIDE DEF old
  <1>3. /\ k \notin DOMAIN old => Times(z, held) = Times(z, old) + Hit(z, held[k])
        /\ k \in DOMAIN old => Times(z, held) + Hit(z, old[k]) = Times(z, old) + Hit(z, held[k])
        /\ IsFiniteSet(DOMAIN held)
    BY <1>1, <1>2, TimesPut
  <1>4. Times(z, old) \in Nat /\ Times(z, held) \in Nat
    BY <1>1, <1>3, TimesIsNat
  <1> QED BY <1>3, <1>4 DEF old

LEMMA AddKeeps ==
  ASSUME JsonInv, puts = <<>>, NEW y \in Obj, NEW x, HeapOK(heap'),
         \A z \in Obj : /\ heap'[z].refs = heap[z].refs + Hit(z, x)
                        /\ z # y => heap'[z].held = heap[z].held,
         puts' \in Seq(Obj),
         \A z \in Obj : /\ Times(z, heap'[y].held) + Times(z, puts') = Times(z, heap[y].held) + Hit(z, x)
                        /\ Times(z, heap'[y].held) \in Nat /\ Times(z, heap[y].held) \in Nat,
         var' = var, copies' = copies, lost' = lost
  PROVE  JsonInv'
  <1>1. HeapOK(heap)
    BY Typed
  <1>2. ASSUME NEW z \in Obj
        PROVE  heap'[z].refs + Times(z, puts) + Times(z, heap[y].held)
               = heap[z].refs + Times(z, puts') + Times(z, heap'[y].held)
    <2> DEFINE r == heap[z].refs            q == heap'[z].refs
               e == Times(z, heap[y].held)  n == Times(z, heap'[y].held)
               p == Times(z, puts')         i == Hit(z, x)
    <2>1. n + p = e + i /\ n \in Nat /\ e \in Nat /\ q = r + i
      OBVIOUS
    <2>2. r \in Nat
      BY <1>1 DEF HeapOK, NodeOK
    <2>3. p \in Nat
      BY SeqDomain, TimesIsNat
    <2>4. Times(z, puts) = 0 /\ i \in Nat
      BY TimesEmpty DEF Hit
    <2> HIDE DEF r, q, e, n, p, i
    <2>5. q + 0 + e = r + p + n
      BY <2>1, <2>2, <2>3, <2>4
    <2> QED BY <2>4, <2>5 DEF r, q, e, n, p
  <1> QED BY <1>2, HoldsKeep
LEMMA MayHoldIs == ASSUME NEW v, NEW w, MayHold(v, w) PROVE InScope(v) /\ InScope(w)
  BY Zenon DEF MayHold

LEMMA AddMemberKeeps ==
  ASSUME JsonInv, puts = <<>>, NEW v \in Var, NEW w \in Var, NEW k, AddMember(v, k, w)
  PROVE  JsonInv'
  <1> DEFINE y == var[v]
             x == var[w]
             old == heap[y].held
             held == [j \in DOMAIN old \cup {k} |-> IF j = k THEN x ELSE old[j]]
  <1>1. /\ Alive(y) /\ Alive(x) /\ heap[y].type = "object"
        /\ heap' = GetPut(y, x, held)
        /\ puts' = IF k \in DOMAIN old THEN <<old[k]>> ELSE <<>>
        /\ var' = var /\ copies' = copies /\ lost' = lost
    BY OwnedAlive, MayHoldIs DEF AddMember, Is, GetPut
  <1>2. /\ DOMAIN held = DOMAIN old \cup {k} /\ held[k] = x
        /\ \A j \in DOMAIN old : j # k => held[j] = old[j]
    OBVIOUS
  <1>3. y \in Obj /\ x \in Obj /\ IsFiniteSet(DOMAIN old) /\ \A j \in DOMAIN old : old[j] \in Obj
    BY <1>1, Typed DEF Alive, HeapOK, NodeOK
  <1> HIDE DEF y, x, held
  <1>4. Fits(heap[y].type, held)
    BY <1>1, <1>2, <1>3, FS_AddElement DEF Fits
  <1>5. /\ HeapOK(heap') /\ heap'[y].held = held
        /\ \A z \in Obj : /\ heap'[z].refs = heap[z].refs + Hit(z, x)
                          /\ z # y => heap'[z].held = heap[z].held
    BY <1>1, <1>4, GetAndPut
  <1>6. puts' \in Seq(Obj)
    BY <1>1, <1>3
  <1>7. ASSUME NEW z \in Obj
        PROVE  /\ Times(z, held) + Times(z, puts') = Times(z, old) + Hit(z, x)
               /\ Times(z, held) \in Nat /\ Times(z, old) \in Nat
    <2>1. /\ k \notin DOMAIN old => Times(z, held) = Times(z, old) + Hit(z, held[k])
          /\ k \in DOMAIN old => Times(z, held) + Hit(z, old[k]) = Times(z, old) + Hit(z, held[k])
          /\ Times(z, held) \in Nat /\ Times(z, old) \in Nat
      BY <1>2, <1>3, HoldsOneMore
    <2>2. Times(z, puts') = IF k \in DOMAIN old THEN Hit(z, old[k]) ELSE 0
      BY <1>1, TimesOne, TimesEmpty
    <2>3. Hit(z, x) \in Nat
      BY DEF Hit
    <2> HIDE DEF old
    <2> QED BY <1>2, <2>1, <2>2, <2>3
  <1> QED BY <1>1, <1>3, <1>5, <1>6, <1>7, AddKeeps

LEMMA AppendIs ==
  ASSUME NEW s \in Seq(Obj), NEW x \in Obj
  PROVE  /\ Append(s, x) \in Seq(Obj) /\ DOMAIN Append(s, x) = DOMAIN s \cup {Len(s) + 1}
         /\ Append(s, x)[Len(s) + 1] = x /\ Len(s) + 1 \notin DOMAIN s
         /\ \A j \in DOMAIN s : Append(s, x)[j] = s[j]
  <1>1. Append(s, x) \in Seq(Obj) /\ Len(Append(s, x)) = Len(s) + 1
    OBVIOUS
  <1>2. DOMAIN Append(s, x) = 1 .. Len(s) + 1 /\ DOMAIN s = 1 .. Len(s) /\ Len(s) \in Nat
    BY <1>1
  <1> QED BY <1>1, <1>2

LEMMA AddItemKeeps ==
  ASSUME JsonInv, puts = <<>>, NEW v \in Var, NEW w \in Var, AddItem(v, w)
  PROVE  JsonInv'
  <1> DEFINE y == var[v]
             x == var[w]
             old == heap[y].held
             held == Append(old, x)
             k == Len(old) + 1
  <1>1. /\ Alive(y) /\ Alive(x) /\ heap[y].type = "array"
        /\ heap' = GetPut(y, x, held)
        /\ puts' = <<>> /\ var' = var /\ copies' = copies /\ lost' = lost
    BY OwnedAlive, MayHoldIs DEF AddItem, Is, GetPut
  <1>2. y \in Obj /\ x \in Obj /\ old \in Seq(Obj)
    BY <1>1, Typed DEF Alive, HeapOK, NodeOK
  <1>3. /\ held \in Seq(Obj) /\ DOMAIN held = DOMAIN old \cup {k} /\ held[k] = x
        /\ k \notin DOMAIN old /\ \A j \in DOMAIN old : held[j] = old[j]
    BY <1>2, AppendIs
  <1> HIDE DEF y, x, held, k
  <1>4. Fits(heap[y].type, held)
    BY <1>3, SeqDomain DEF Fits
  <1>5. /\ HeapOK(heap') /\ heap'[y].held = held
        /\ \A z \in Obj : /\ heap'[z].refs = heap[z].refs + Hit(z, x)
                          /\ z # y => heap'[z].held = heap[z].held
    BY <1>1, <1>4, GetAndPut
  <1>6. puts' \in Seq(Obj)
    BY <1>1
  <1>7. ASSUME NEW z \in Obj
        PROVE  /\ Times(z, held) + Times(z, puts') = Times(z, old) + Hit(z, x)
               /\ Times(z, held) \in Nat /\ Times(z, old) \in Nat
    <2>1. /\ Times(z, held) = Times(z, old) + Hit(z, held[k])
          /\ Times(z, held) \in Nat /\ Times(z, old) \in Nat
      BY <1>2, <1>3, HoldsOneMore
    <2>2. Times(z, puts') = 0
      BY <1>1, TimesEmpty
    <2> QED BY <1>3, <2>1, <2>2
  <1> QED BY <1>1, <1>2, <1>5, <1>6, <1>7, AddKeeps

(* A container of references to what a value holds, and its end.           *)
LEMMA AsContainerKeeps ==
  ASSUME JsonInv, NEW w \in Var, AsContainer(w)
  PROVE  JsonInv'
  <1> DEFINE y == var[w]
             xs == HeldBy(y)
  <1>1. /\ Alive(y) /\ copies = <<>> /\ copies' = xs /\ heap' = GetAll(heap, xs)
        /\ var' = var /\ puts' = puts /\ lost' = lost
    BY OwnedAlive DEF AsContainer
  <1>2. y \in Obj /\ HeapOK(heap) /\ NodeOK(heap[y]) /\ puts \in Seq(Obj) /\ var \in [Var -> Obj \cup {None}]
    BY <1>1, Typed DEF Alive, HeapOK
  <1>3. xs \in Seq(Obj) /\ \A i \in DOMAIN xs : Alive(xs[i])
    BY <1>2, HeldByIs, OwnedAlive
  <1>4. IsFiniteSet(DOMAIN xs)
    BY <1>3, SeqDomain
  <1> HIDE DEF xs
  <1>5. /\ HeapOK(heap')
        /\ \A x \in Obj : heap'[x].refs = heap[x].refs + Times(x, xs) /\ heap'[x].held = heap[x].held
    BY <1>1, <1>2, <1>3, <1>4, Gets
  <1>6. var' \in [Var -> Obj \cup {None}] /\ copies' \in Seq(Obj) /\ puts' \in Seq(Obj)
    BY <1>1, <1>2, <1>3
  <1>7. ASSUME NEW z \in Obj
        PROVE  heap'[z].refs + Times(z, var) + Times(z, copies) + Times(z, puts) + Extra(z, lost)
               = heap[z].refs + Times(z, var') + Times(z, copies') + Times(z, puts') + Extra(z, lost')
    <2> DEFINE r == heap[z].refs    q == heap'[z].refs   a == Times(z, var)
               c == Times(z, puts)  d == Extra(z, lost)  i == Times(z, xs)
    <2>1. r \in Nat /\ a \in Nat /\ c \in Nat /\ d \in Nat
      BY <1>5, <1>6, Numbers
    <2>2. i \in Nat /\ q = r + i
      BY <1>4, <1>5, TimesIsNat
    <2>3. Times(z, copies) = 0
      BY <1>1, TimesEmpty
    <2>4. Times(z, copies') = i /\ Times(z, var') = a /\ Times(z, puts') = c /\ Extra(z, lost') = d
      BY <1>1
    <2> HIDE DEF r, q, a, c, d, i
    <2>5. q + a + 0 + c + d = r + a + i + c + d
      BY <2>1, <2>2
    <2> QED BY <2>3, <2>4, <2>5 DEF r, q, a, c, d, i
  <1> QED BY <1>5, <1>6, <1>7, MovesKeep

LEMMA DropContainerKeeps ==
  ASSUME JsonInv, puts = <<>>, DropContainer
  PROVE  JsonInv'
  <1>1. puts' = copies /\ copies' = <<>> /\ heap' = heap /\ var' = var /\ lost' = lost
    BY DEF DropContainer
  <1>2. /\ HeapOK(heap') /\ var' \in [Var -> Obj \cup {None}]
        /\ copies' \in Seq(Obj) /\ puts' \in Seq(Obj)
    BY <1>1, Typed
  <1>3. ASSUME NEW z \in Obj
        PROVE  heap'[z].refs + Times(z, var) + Times(z, copies) + Times(z, puts) + Extra(z, lost)
               = heap[z].refs + Times(z, var') + Times(z, copies') + Times(z, puts') + Extra(z, lost')
    <2>1. /\ Times(z, puts) = 0 /\ Times(z, copies') = 0 /\ Times(z, puts') = Times(z, copies)
          /\ heap'[z].refs = heap[z].refs /\ Times(z, var') = Times(z, var)
          /\ Extra(z, lost') = Extra(z, lost)
      BY <1>1, TimesEmpty
    <2>2. /\ heap[z].refs \in Nat /\ Times(z, var) \in Nat /\ Times(z, copies) \in Nat
          /\ Extra(z, lost) \in Nat
      BY <1>2, Numbers
    <2> QED BY <2>1, <2>2
  <1> QED BY <1>1, <1>2, <1>3, MovesKeep
(* What a call forgets.                                                    *)
LEMMA LostMore ==
  ASSUME NEW x \in Obj, NEW w, w \notin lost, lost' = lost \cup ({w} \ {None})
  PROVE  Extra(x, lost') = Extra(x, lost) + Hit(x, w)
  BY JsonAssumption DEF Extra, Hit

LEMMA ForgetKeeps ==
  ASSUME JsonInv, NEW v \in Var, var[v] \notin lost, UNCHANGED <<heap, copies, puts>>,
         lost' = lost \cup ({var[v]} \ {None}), var' = [var EXCEPT ![v] = None]
  PROVE  JsonInv'
  <1> DEFINE w == var[v]
  <1>1. /\ var' \in [Var -> Obj \cup {None}]
        /\ \A y : Times(y, var') + Hit(y, w) = Times(y, var) + Hit(y, None)
    BY SetVar
  <1>2. heap' = heap /\ copies' = copies /\ puts' = puts
    OBVIOUS
  <1>3. HeapOK(heap') /\ copies' \in Seq(Obj) /\ puts' \in Seq(Obj)
    BY <1>2, Typed
  <1>4. \A y \in Obj : Extra(y, lost') = Extra(y, lost) + Hit(y, w)
    BY LostMore
  <1>5. ASSUME NEW y \in Obj
        PROVE  heap'[y].refs + Times(y, var) + Times(y, copies) + Times(y, puts) + Extra(y, lost)
               = heap[y].refs + Times(y, var') + Times(y, copies') + Times(y, puts') + Extra(y, lost')
    <2> DEFINE r == heap[y].refs    a == Times(y, var)   b == Times(y, copies)  c == Times(y, puts)
               k == Times(y, var')  d == Extra(y, lost)  i == Hit(y, w)         e == Extra(y, lost')
    <2>1. /\ r \in Nat /\ a \in Nat /\ b \in Nat /\ c \in Nat /\ k \in Nat
          /\ d \in Nat /\ i \in Nat /\ e \in Nat /\ Hit(y, None) = 0
      BY <1>1, <1>3, Numbers
    <2>2. k + i = a /\ e = d + i
      <3>1. k + i = a + Hit(y, None) /\ e = d + i
        BY <1>1, <1>4
      <3> HIDE DEF k, i, a, e, d
      <3> QED BY <2>1, <3>1
    <2>3. heap'[y].refs = r /\ Times(y, copies') = b /\ Times(y, puts') = c
      BY <1>2
    <2> HIDE DEF r, a, b, c, k, d, i, e
    <2>4. r + a + b + c + d = r + k + b + c + e
      BY <2>1, <2>2
    <2> QED BY <2>3, <2>4 DEF r, a, b, c, k, d, e
  <1> QED BY <1>1, <1>2, <1>3, <1>5, MovesKeep

(* A document that json_tokener has made.                                  *)
LEMMA TimesInjective ==
  ASSUME NEW f, IsFiniteSet(DOMAIN f), \A i, j \in DOMAIN f : f[i] = f[j] => i = j, NEW x
  PROVE  Times(x, f) = IF \E k \in DOMAIN f : f[k] = x THEN 1 ELSE 0
  <1>1. CASE \E k \in DOMAIN f : f[k] = x
    <2>1. PICK k \in DOMAIN f : f[k] = x
      BY <1>1
    <2>2. {i \in DOMAIN f : f[i] = x} = {k}
      BY <2>1
    <2> QED BY <1>1, <2>2, FS_Singleton DEF Times
  <1>2. CASE ~ \E k \in DOMAIN f : f[k] = x
    BY <1>2, TimesNone
  <1> QED BY <1>1, <1>2

LEMMA DocumentIs ==
  ASSUME JsonInv, Spare # {}, NEW fields,
         NEW held \in Injection(DOMAIN fields, Spare \ {Fresh}), heap' = Document(fields, held)
  PROVE  /\ IsFiniteSet(DOMAIN held) /\ HeapOK(heap') /\ heap'[Fresh].held = held
         /\ \A z \in Obj : z # Fresh => heap'[z].held = heap[z].held
         /\ \A z \in Obj : heap'[z].refs = heap[z].refs + Hit(z, Fresh) + Times(z, held)
  <1>1. /\ held \in [DOMAIN fields -> Spare \ {Fresh}]
        /\ \A i, j \in DOMAIN fields : held[i] = held[j] => i = j
    BY DEF Injection, IsInjective
  <1>2. IsFiniteSet(Spare \ {Fresh})
    <2>1. Spare \ {Fresh} \in SUBSET Obj
      BY DEF Spare
    <2> QED BY <2>1, FS_Subset, JsonAssumption
  <1>3. IsFiniteSet(DOMAIN fields) /\ DOMAIN held = DOMAIN fields
    BY <1>1, <1>2, FS_Injection
  <1>4. Fresh \in Obj /\ heap[Fresh].refs = 0 /\ heap[Fresh].held = <<>>
    BY FreshIs
  <1>5. HeapOK(heap) /\ \A z \in Obj : NodeOK(heap[z])
    BY Typed DEF HeapOK
  <1>6. \A z \in Obj : z \in Range(held) <=> \E k \in DOMAIN held : held[k] = z
    BY DEF Range
  <1>7. \A k \in DOMAIN held : /\ held[k] \in Obj /\ held[k] # Fresh
                               /\ heap[held[k]].refs = 0 /\ heap[held[k]].held = <<>>
    <2>1. ASSUME NEW z \in Spare \ {Fresh}
          PROVE  z \in Obj /\ z # Fresh /\ heap[z].refs = 0 /\ heap[z].held = <<>>
      <3>1. z \in Obj /\ heap[z].type = "freed"
        BY DEF Spare, Live
      <3>2. NodeOK(heap[z])
        BY <1>5, <3>1
      <3> QED BY <3>1, <3>2 DEF NodeOK
    <2>2. \A k \in DOMAIN held : held[k] \in Spare \ {Fresh}
      BY <1>1, <1>3
    <2> QED BY <2>1, <2>2
  <1>8. /\ heap' = [z \in Obj |-> heap'[z]] /\ heap'[Fresh] = Node("object", held, None)
        /\ \A z \in Obj : z # Fresh /\ (\E k \in DOMAIN held : held[k] = z)
             => \E text : heap'[z] = Node("scalar", <<>>, text)
        /\ \A z \in Obj : z # Fresh /\ ~(\E k \in DOMAIN held : held[k] = z) => heap'[z] = heap[z]
    <2>1. heap' = [z \in Obj |->
            IF z = Fresh THEN Node("object", held, None)
            ELSE IF z \in Range(held)
            THEN Node("scalar", <<>>, fields[CHOOSE k \in DOMAIN fields : held[k] = z])
            ELSE heap[z]]
      BY DEF Document
    <2> DEFINE text(z) == fields[CHOOSE k \in DOMAIN fields : held[k] = z]
    <2>2. \A z \in Obj : heap'[z] =
            IF z = Fresh THEN Node("object", held, None)
            ELSE IF z \in Range(held) THEN Node("scalar", <<>>, text(z)) ELSE heap[z]
      BY <2>1
    <2>3. heap' = [z \in Obj |-> heap'[z]]
      BY <2>1
    <2> HIDE DEF text
    <2> QED BY <1>4, <1>6, <2>2, <2>3
  <1>9. NodeOK(heap'[Fresh]) /\ heap'[Fresh].refs = 1 /\ heap'[Fresh].held = held
    BY <1>3, <1>7, <1>8, NodeIs DEF Node
  <1>10. ASSUME NEW z \in Obj, z # Fresh
         PROVE  /\ NodeOK(heap'[z]) /\ heap'[z].held = heap[z].held
                /\ heap'[z].refs = heap[z].refs + IF \E k \in DOMAIN held : held[k] = z THEN 1 ELSE 0
    <2>1. CASE \E k \in DOMAIN held : held[k] = z
      <3>1. PICK text : heap'[z] = Node("scalar", <<>>, text)
        BY <1>8, <1>10, <2>1
      <3>2. DOMAIN <<>> = {} /\ IsFiniteSet({})
        BY FS_EmptySet
      <3>3. NodeOK(Node("scalar", <<>>, text))
        BY <3>2, NodeIs
      <3>4. Node("scalar", <<>>, text).refs = 1 /\ Node("scalar", <<>>, text).held = <<>>
        BY DEF Node
      <3>5. heap[z].refs = 0 /\ heap[z].held = <<>>
        BY <1>7, <2>1
      <3> QED BY <2>1, <3>1, <3>3, <3>4, <3>5
    <2>2. CASE ~ \E k \in DOMAIN held : held[k] = z
      <3>1. heap'[z] = heap[z] /\ NodeOK(heap[z]) /\ heap[z].refs \in Nat
        BY <1>5, <1>8, <1>10, <2>2 DEF NodeOK
      <3> QED BY <2>2, <3>1
    <2> QED BY <2>1, <2>2
  <1>11. HeapOK(heap')
    BY <1>8, <1>9, <1>10 DEF HeapOK
  <1>12. \A z : Times(z, held) = IF \E k \in DOMAIN held : held[k] = z THEN 1 ELSE 0
    BY <1>1, <1>3, TimesInjective
  <1>13. ASSUME NEW z \in Obj
         PROVE  heap'[z].refs = heap[z].refs + Hit(z, Fresh) + Times(z, held)
    <2>1. CASE z = Fresh
      <3>1. Times(z, held) = 0
        BY <1>7, <1>12, <2>1
      <3> QED BY <1>4, <1>9, <2>1, <3>1 DEF Hit
    <2>2. CASE z # Fresh
      <3>1. heap[z].refs \in Nat /\ Hit(z, Fresh) = 0
        BY <1>5, <2>2 DEF NodeOK, Hit
      <3> QED BY <1>10, <1>12, <2>2, <3>1
    <2> QED BY <2>1, <2>2
  <1> QED BY <1>3, <1>9, <1>10, <1>11, <1>13

LEMMA TokenizeKeeps ==
  ASSUME JsonInv, NEW v \in Var, var[v] \notin lost, NEW fields, Tokenize(v, fields)
  PROVE  JsonInv'
  <1> DEFINE held == CHOOSE f \in Injection(DOMAIN fields, Spare \ {Fresh}) : TRUE
             w == var[v]
  <1>1. /\ Spare # {} /\ held \in Injection(DOMAIN fields, Spare \ {Fresh})
        /\ heap' = Document(fields, held) /\ var' = [var EXCEPT ![v] = Fresh]
        /\ lost' = lost \cup ({w} \ {None}) /\ copies' = copies /\ puts' = puts
    BY DEF Tokenize
  <1>2. Fresh \in Obj /\ heap[Fresh].held = <<>>
    BY <1>1, FreshIs
  <1>3. /\ IsFiniteSet(DOMAIN held) /\ HeapOK(heap') /\ heap'[Fresh].held = held
        /\ \A z \in Obj : z # Fresh => heap'[z].held = heap[z].held
        /\ \A z \in Obj : heap'[z].refs = heap[z].refs + Hit(z, Fresh) + Times(z, held)
    BY <1>1, DocumentIs
  <1>4. /\ var' \in [Var -> Obj \cup {None}]
        /\ \A y : Times(y, var') + Hit(y, w) = Times(y, var) + Hit(y, Fresh)
    BY <1>1, <1>2, SetVar
  <1>5. HeapOK(heap) /\ copies' \in Seq(Obj) /\ puts' \in Seq(Obj)
    BY <1>1, Typed
  <1>6. \A y \in Obj : Extra(y, lost') = Extra(y, lost) + Hit(y, w)
    BY <1>1, LostMore
  <1>7. TypesOK(heap', var', copies', puts')
    BY <1>3, <1>4, <1>5 DEF TypesOK
  <1> HIDE DEF held
  <1>8. ASSUME NEW y \in Obj
        PROVE  heap'[y].refs + Total(y, heap, var, copies, puts) + Extra(y, lost)
               = heap[y].refs + Total(y, heap', var', copies', puts') + Extra(y, lost')
    <2> DEFINE r == heap[y].refs        q == heap'[y].refs
               a == Times(y, var)       k == Times(y, var')
               b == Times(y, copies)    c == Times(y, puts)
               d == Extra(y, lost)      e == Extra(y, lost')
               g == Times(y, Grid(heap))  h == Times(y, Grid(heap'))
               i == Hit(y, w)           j == Hit(y, Fresh)
               m == Times(y, held)
               t == Total(y, heap, var, copies, puts)
               u == Total(y, heap', var', copies', puts')
    <2>1. /\ r \in Nat /\ a \in Nat /\ b \in Nat /\ c \in Nat /\ k \in Nat
          /\ d \in Nat /\ i \in Nat /\ e \in Nat /\ j \in Nat /\ g \in Nat /\ h \in Nat
      BY <1>3, <1>4, <1>5, Numbers
    <2>2. m \in Nat
      BY <1>3, TimesIsNat
    <2>3. h = g + m
      <3>1. \A z \in Obj : IsFiniteSet(DOMAIN heap[z].held) /\ IsFiniteSet(DOMAIN heap'[z].held)
        BY <1>3, <1>5 DEF HeapOK, NodeOK
      <3>2. h + Times(y, heap[Fresh].held) = g + Times(y, heap'[Fresh].held)
        BY <1>2, <1>3, <3>1, GridChange
      <3>3. Times(y, heap[Fresh].held) = 0 /\ Times(y, heap'[Fresh].held) = m
        BY <1>2, <1>3, TimesEmpty
      <3> HIDE DEF h, g, m
      <3> QED BY <2>1, <2>2, <3>2, <3>3
    <2>4. k + i = a + j /\ e = d + i /\ q = r + j + m
      BY <1>3, <1>4, <1>6
    <2>5. t = a + b + c + g
      BY DEF Total
    <2>6. u = k + b + c + h
      BY <1>1 DEF Total
    <2> HIDE DEF r, q, a, k, b, c, d, e, g, h, i, j, m, t, u
    <2>7. q + t + d = r + u + e
      BY <2>1, <2>2, <2>3, <2>4, <2>5, <2>6
    <2> QED BY <2>7 DEF q, t, d, r, u, e
  <1> QED BY <1>7, <1>8, Balanced
------------------------------------------------------------------------------
(* The constructors.                                                       *)
LEMMA NewEmptyKeeps ==
  ASSUME JsonInv, NEW v \in Var, NEW type \in {"object", "scalar"}, NEW text,
         New(v, Node(type, <<>>, text))
  PROVE  JsonInv'
  <1> DEFINE node == Node(type, <<>>, text)
  <1>1. DOMAIN <<>> = {} /\ IsFiniteSet({})
    BY FS_EmptySet
  <1>2. NodeOK(node)
    BY <1>1, NodeIs
  <1>3. node.refs = 1 /\ node.type # "freed" /\ node.held = <<>>
    BY DEF Node
  <1>4. \A i \in DOMAIN node.held : Alive(node.held[i])
    BY <1>1, <1>3
  <1> HIDE DEF node
  <1> QED BY <1>2, <1>3, <1>4, NewKeeps DEF node

LEMMA NewArrayKeeps ==
  ASSUME JsonInv, NEW v \in Var, NEW ws \in Seq(Var), NewArray(v, ws)
  PROVE  JsonInv'
  <1> DEFINE held == [i \in DOMAIN ws |-> var[ws[i]]]
             node == Node("array", held, None)
  <1>1. New(v, node) /\ \A i \in DOMAIN ws : ws[i] \in Var /\ InScope(ws[i])
    BY DEF NewArray
  <1>2. \A i \in DOMAIN ws : Alive(held[i]) /\ held[i] \in Obj
    BY <1>1, OwnedAlive DEF Alive
  <1>3. DOMAIN ws = 1 .. Len(ws) /\ Len(ws) \in Nat
    OBVIOUS
  <1>4. held \in [1 .. Len(ws) -> Obj]
    BY <1>2, <1>3
  <1>5. held \in Seq(Obj) /\ DOMAIN held = DOMAIN ws
    BY <1>3, <1>4
  <1>6. IsFiniteSet(DOMAIN held)
    BY <1>5, SeqDomain
  <1> HIDE DEF held
  <1>7. node.refs = 1 /\ node.type = "array" /\ node.held = held /\ node.text = None
    BY DEF Node
  <1>8. NodeOK(node)
    BY <1>2, <1>5, <1>6 DEF NodeOK, Node, Type
  <1> HIDE DEF node
  <1> QED BY <1>1, <1>2, <1>5, <1>7, <1>8, NewKeeps

(* Calls that return a reference to a value another value holds.           *)
LEMMA HeldAlive ==
  ASSUME JsonInv, NEW w \in Var, NEW k
  PROVE  /\ \A x \in Member(w, k) : Alive(x)
         /\ \A x \in Item(w, k) : Alive(x)
  <1>1. InScope(w) => \A j \in DOMAIN heap[var[w]].held : Alive(heap[var[w]].held[j])
    BY OwnedAlive DEF Alive
  <1> QED BY <1>1 DEF Member, Item, At, Is

LEMMA LeastOf ==
  ASSUME NEW S \in SUBSET Nat, S # {}
  PROVE  \E m \in S : \A k \in S : m <= k
  <1> DEFINE less == OpToRel(<, Nat)
  <1>1. less = {ss \in Nat \X Nat : ss[1] < ss[2]}
    BY DEF OpToRel
  <1>2. IsWellFoundedOn(less, Nat)
    BY NatLessThanWellFounded
  <1> HIDE DEF less
  <1>3. \E m \in S : \A k \in S : ~(<<k, m>> \in less)
    BY <1>2, WFMin
  <1>4. \A k, m \in Nat : ~(<<k, m>> \in less) => m <= k
    BY <1>1
  <1> QED BY <1>3, <1>4

LEMMA LowestIs ==
  ASSUME NEW S \in SUBSET Nat, S # {}
  PROVE  Lowest(S) \in S
  BY LeastOf DEF Lowest

LEMMA FoundAlive ==
  ASSUME JsonInv, NEW w \in Var, NEW k, NEW text
  PROVE  \A x \in Found(w, k, text) : Alive(x)
  <1> DEFINE items == heap[var[w]].held
             hits == {i \in DOMAIN items :
                        /\ heap[items[i]].type = "object"
                        /\ \E x \in At(heap[items[i]].held, k) : heap[x].text = text}
  <1>1. CASE Is(w, "array") /\ hits # {}
    <2>1. var[w] \in Obj /\ heap[var[w]].type = "array"
      BY <1>1, OwnedAlive DEF Is, Alive
    <2>2. items \in Seq(Obj)
      BY <2>1, Typed DEF HeapOK, NodeOK
    <2>3. DOMAIN items \subseteq Nat /\ hits \subseteq DOMAIN items
      BY <2>2
    <2>4. \A i \in DOMAIN items : Alive(items[i])
      BY <2>1, OwnedAlive
    <2> HIDE DEF hits
    <2>5. Lowest(hits) \in hits
      BY <1>1, <2>3, LowestIs
    <2>6. Found(w, k, text) = {items[Lowest(hits)]}
      BY <1>1 DEF Found, hits
    <2> QED BY <2>3, <2>4, <2>5, <2>6
  <1>2. CASE ~(Is(w, "array") /\ hits # {})
    <2>1. Found(w, k, text) = {}
      BY <1>2 DEF Found
    <2> QED BY <2>1
  <1> QED BY <1>1, <1>2

LEMMA JsonCallKeeps ==
  ASSUME JsonInv, NEW names \in SUBSET Var, NEW keys, JsonCall(names, keys)
  PROVE  JsonInv' /\ lost' = lost
  <1>1. PICK v \in names, w \in names :
          \/ NewObject(v)
          \/ \E text \in Value : NewScalar(v, text)
          \/ NewArray(v, <<>>) \/ NewArray(v, <<w, w>>)
          \/ Destroy(v)
          \/ Copy(v, w)
          \/ Assign(v, w)
          \/ Swap(v, w)
          \/ \E k \in keys : Subscript(v, w, k) \/ Get(w, k, v) \/ AddMember(v, k, w)
          \/ \E i \in 1 .. MaxItems : Index(v, w, i)
          \/ \E k \in keys, text \in Value : FindInArray(v, w, k, text)
          \/ AddItem(v, w)
          \/ AsContainer(w)
          \/ DropContainer
    BY DEF JsonCall
  <1>2. v \in Var /\ w \in Var /\ puts = <<>>
    BY DEF JsonCall
  <1>3. CASE NewObject(v)
    <2>1. New(v, Node("object", <<>>, None))
      BY <1>3 DEF NewObject
    <2>2. lost' = lost
      BY <2>1 DEF New
    <2> QED BY <1>2, <2>1, <2>2, NewEmptyKeeps
  <1>4. CASE \E text \in Value : NewScalar(v, text)
    <2>1. PICK text : New(v, Node("scalar", <<>>, text))
      BY <1>4 DEF NewScalar
    <2>2. lost' = lost
      BY <2>1 DEF New
    <2> QED BY <1>2, <2>1, <2>2, NewEmptyKeeps
  <1>5. CASE NewArray(v, <<>>) \/ NewArray(v, <<w, w>>)
    <2>1. PICK ws \in Seq(Var) : NewArray(v, ws)
      <3>1. <<>> \in Seq(Var) /\ <<w, w>> \in Seq(Var)
        BY <1>2
      <3> QED BY <1>5, <3>1
    <2>2. lost' = lost
      BY <2>1 DEF NewArray, New
    <2> QED BY <1>2, <2>1, <2>2, NewArrayKeeps
  <1>6. CASE Destroy(v)
    BY <1>2, <1>6, DestroyKeeps DEF Destroy
  <1>7. ASSUME NEW x, Alive(x), Own(v, x) \/ Replace(v, x) PROVE JsonInv' /\ lost' = lost
    <2>1. lost' = lost
      BY <1>7 DEF Own, Replace
    <2> QED BY <1>2, <1>7, <2>1, OwnKeeps, ReplaceKeeps
  <1>8. CASE Copy(v, w) \/ Assign(v, w)
    <2>1. Alive(var[w]) /\ (Own(v, var[w]) \/ Replace(v, var[w]))
      BY <1>2, <1>8, OwnedAlive DEF Copy, Assign
    <2> QED BY <1>7, <2>1
  <1>9. CASE Swap(v, w)
    <2>1. /\ var' = [var EXCEPT ![v] = var[w], ![w] = var[v]]
          /\ heap' = heap /\ copies' = copies /\ puts' = puts /\ lost' = lost
      BY <1>9 DEF Swap
    <2>2. var \in [Var -> Obj \cup {None}]
      BY Typed
    <2>3. /\ var' \in [Var -> Obj \cup {None}] /\ var'[v] = var[w] /\ var'[w] = var[v]
          /\ \A j \in Var : j # v /\ j # w => var'[j] = var[j]
      BY <1>2, <2>1, <2>2
    <2> QED BY <1>2, <2>1, <2>3, SwapKeeps
  <1>10. CASE \E k \in keys : Subscript(v, w, k) \/ Get(w, k, v) \/ AddMember(v, k, w)
    <2>1. PICK k \in keys : Subscript(v, w, k) \/ Get(w, k, v) \/ AddMember(v, k, w)
      BY <1>10
    <2>2. CASE AddMember(v, k, w)
      BY <1>2, <2>2, AddMemberKeeps DEF AddMember
    <2>3. CASE Subscript(v, w, k) \/ Get(w, k, v)
      <3>1. PICK x \in Member(w, k) : Own(v, x) \/ Replace(v, x)
        BY <2>3 DEF Subscript, Get
      <3> QED BY <1>2, <1>7, <3>1, HeldAlive
    <2> QED BY <2>1, <2>2, <2>3
  <1>11. CASE \E i \in 1 .. MaxItems : Index(v, w, i)
    <2>1. PICK i : \E x \in Item(w, i) : Own(v, x)
      BY <1>11 DEF Index
    <2> QED BY <1>2, <1>7, <2>1, HeldAlive
  <1>12. CASE \E k \in keys, text \in Value : FindInArray(v, w, k, text)
    <2>1. PICK k, text : \E x \in Found(w, k, text) : Own(v, x) \/ Replace(v, x)
      BY <1>12 DEF FindInArray
    <2> QED BY <1>2, <1>7, <2>1, FoundAlive
  <1>13. CASE AddItem(v, w)
    BY <1>2, <1>13, AddItemKeeps DEF AddItem
  <1>14. CASE AsContainer(w)
    BY <1>2, <1>14, AsContainerKeeps DEF AsContainer
  <1>15. CASE DropContainer
    BY <1>2, <1>15, DropContainerKeeps DEF DropContainer
  <1> QED BY <1>1, <1>3, <1>4, <1>5, <1>6, <1>8, <1>9, <1>10, <1>11, <1>12, <1>13, <1>14, <1>15

------------------------------------------------------------------------------
(* Descriptors.  There is one for every object (FileAssumption), so open(2)*)
(* finds one that no other object owns.                                    *)
FileInv ==
  /\ m_fd \in [Handle -> Fd \cup {NotOpen}]
  /\ \A f \in Handle : IsOpened(f) => m_fd[f] \in DOMAIN kernel
  /\ \A d \in DOMAIN kernel : d # NotOpen /\ \E f \in Handle : m_fd[f] = d
  /\ \A f, g \in Handle : IsOpened(f) /\ m_fd[f] = m_fd[g] => f = g

LEMMA FilesOwned == ASSUME FileInv PROVE Owned
  <1>1. ASSUME NEW d \in DOMAIN kernel PROVE Cardinality({f \in Handle : m_fd[f] = d}) = 1
    <2>1. PICK f \in Handle : m_fd[f] = d /\ IsOpened(f)
      BY DEF FileInv, IsOpened
    <2>2. {g \in Handle : m_fd[g] = d} = {f}
      BY <2>1 DEF FileInv
    <2> QED BY <2>2, FS_Singleton
  <1> QED BY <1>1 DEF FileInv, Owned

(* There is a descriptor for every object.                                 *)
LEMMA SomeFree ==
  ASSUME NEW f \in Handle, NEW D, NEW owner \in [D -> Handle \ {f}],
         \A d, e \in D : owner[d] = owner[e] => d = e
  PROVE  Fd \ D # {}
  <1>1. SUFFICES ASSUME Fd \subseteq D PROVE FALSE
    OBVIOUS
  <1> DEFINE H == Handle \ {f}
             own == [d \in Fd |-> owner[d]]
  <1>2. own \in Injection(Fd, H)
    BY <1>1 DEF Injection, IsInjective
  <1>3. IsFiniteSet(H) /\ Cardinality(H) = Cardinality(Handle) - 1 /\ Cardinality(Handle) \in Nat
    BY FS_RemoveElement, FS_CardinalityType, FileAssumption
  <1> HIDE DEF H, own
  <1>4. Cardinality(Fd) <= Cardinality(H)
    BY <1>2, <1>3, FS_Injection
  <1>5. Cardinality(Fd) \in Nat /\ Cardinality(Fd) >= Cardinality(Handle)
    BY FS_CardinalityType, FileAssumption
  <1> QED BY <1>3, <1>4, <1>5

LEMMA DescriptorIs ==
  ASSUME NEW D, Fd \ D # {} PROVE Descriptor(D) \in Fd \ D
  <1> DEFINE S == Fd \ D
  <1>1. S \in SUBSET Nat /\ S # {}
    BY FileAssumption
  <1>2. \E m \in S : \A k \in S : m <= k
    BY <1>1, LeastOf
  <1> QED BY <1>2 DEF Descriptor

LEMMA NotADescriptor == NotOpen \notin Fd
  BY FileAssumption DEF NotOpen

LEMMA OpenOwns == ASSUME FileInv, NEW f \in Handle, NEW path, Open(f, path) PROVE FileInv'
  <1> DEFINE others == Closed(f)
             D == DOMAIN others
             d == Descriptor(D)
  <1>1. /\ kernel' = With(others, d, [path |-> path, offset |-> 0])
        /\ m_fd' = [m_fd EXCEPT ![f] = d]
    BY DEF Open
  <1>2. D = DOMAIN kernel \ {m_fd[f]}
    BY DEF Closed, Restrict
  <1>3. DOMAIN kernel' = D \cup {d}
    BY <1>1 DEF With
  <1> HIDE DEF D, d
  <1>4. \A e \in D : e # NotOpen /\ \E g \in Handle \ {f} : m_fd[g] = e
    BY <1>2 DEF FileInv
  <1>5. d \in Fd \ D
    <2> DEFINE owner == [e \in D |-> CHOOSE g \in Handle \ {f} : m_fd[g] = e]
    <2>1. \A e \in D : owner[e] \in Handle \ {f} /\ m_fd[owner[e]] = e
      BY <1>4
    <2>2. owner \in [D -> Handle \ {f}]
      BY <2>1
    <2> HIDE DEF owner
    <2>3. \A e, g \in D : owner[e] = owner[g] => e = g
      BY <2>1
    <2>4. Fd \ D # {}
      BY <2>2, <2>3, SomeFree
    <2> QED BY <2>4, DescriptorIs DEF d
  <1>6. /\ m_fd' \in [Handle -> Fd \cup {NotOpen}] /\ m_fd'[f] = d
        /\ \A g \in Handle : g # f => m_fd'[g] = m_fd[g]
    BY <1>1, <1>5 DEF FileInv
  <1>7. \A g \in Handle : m_fd'[g] # NotOpen => m_fd'[g] \in DOMAIN kernel'
    BY <1>2, <1>3, <1>6 DEF FileInv, IsOpened
  <1>8. \A e \in DOMAIN kernel' : e # NotOpen /\ \E g \in Handle : m_fd'[g] = e
    BY <1>3, <1>4, <1>5, <1>6, NotADescriptor
  <1>9. \A g, h \in Handle : m_fd'[g] # NotOpen /\ m_fd'[g] = m_fd'[h] => g = h
    <2>1. \A g \in Handle : g # f /\ m_fd[g] # NotOpen => m_fd[g] \in D
      BY <1>2 DEF FileInv, IsOpened
    <2> QED BY <1>5, <1>6, <2>1, NotADescriptor DEF FileInv, IsOpened
  <1> QED BY <1>6, <1>7, <1>8, <1>9 DEF FileInv, IsOpened

LEMMA CloseOwns == ASSUME FileInv, NEW f \in Handle, Close(f) PROVE FileInv'
  <1>1. DOMAIN kernel' = DOMAIN kernel \ {m_fd[f]}
    BY DEF Close, Closed, Restrict
  <1>2. /\ m_fd' \in [Handle -> Fd \cup {NotOpen}] /\ m_fd'[f] = NotOpen
        /\ \A g \in Handle : g # f => m_fd'[g] = m_fd[g]
    BY DEF Close, FileInv
  <1>3. \A g \in Handle : m_fd'[g] # NotOpen => m_fd'[g] \in DOMAIN kernel'
    BY <1>1, <1>2 DEF FileInv, IsOpened
  <1>4. \A e \in DOMAIN kernel' : e # NotOpen /\ \E g \in Handle : m_fd'[g] = e
    BY <1>1, <1>2 DEF FileInv
  <1>5. \A g, h \in Handle : m_fd'[g] # NotOpen /\ m_fd'[g] = m_fd'[h] => g = h
    BY <1>2 DEF FileInv, IsOpened
  <1> QED BY <1>2, <1>3, <1>4, <1>5 DEF FileInv, IsOpened

LEMMA SameOwners ==
  ASSUME FileInv, DOMAIN kernel' = DOMAIN kernel, m_fd' = m_fd PROVE FileInv'
  BY DEF FileInv, IsOpened

LEMMA NoneOwns == ASSUME kernel' = <<>>, m_fd' = [f \in Handle |-> NotOpen] PROVE FileInv'
  <1>1. DOMAIN kernel' = {} /\ m_fd' \in [Handle -> Fd \cup {NotOpen}]
        /\ \A f \in Handle : m_fd'[f] = NotOpen
    OBVIOUS
  <1> QED BY <1>1 DEF FileInv, IsOpened

LEMMA MovesOwn ==
  ASSUME FileInv, NEW f, NEW offset, MoveTo(f, offset), m_fd' = m_fd PROVE FileInv'
  <1>1. DOMAIN kernel' = DOMAIN kernel
    BY DEF MoveTo
  <1> QED BY <1>1, SameOwners

LEMMA FileCallOwns ==
  ASSUME FileInv, NEW f \in Handle, NEW path, NEW names, NEW data, NEW count, NEW hole, NEW n,
         \/ OpenForRead(f, path) \/ OpenForWrite(f, path) \/ OpenRandom(f, names)
         \/ OpenFails(f) \/ Close(f) \/ Read(f, n) \/ Write(f, data, count, hole) \/ Seek(f, n)
  PROVE  FileInv'
  <1>1. CASE OpenForRead(f, path) \/ OpenForWrite(f, path) \/ OpenRandom(f, names)
    <2>1. \E p : Open(f, p)
      BY <1>1 DEF OpenForRead, OpenForWrite, OpenRandom
    <2> QED BY <2>1, OpenOwns
  <1>2. CASE OpenFails(f) \/ Close(f)
    BY <1>2, CloseOwns DEF OpenFails
  <1>3. CASE Read(f, n) \/ Write(f, data, count, hole) \/ Seek(f, n)
    <2>1. (\E offset : MoveTo(f, offset)) /\ m_fd' = m_fd
      BY <1>3 DEF Read, Write, Seek
    <2> QED BY <2>1, MovesOwn
  <1> QED BY <1>1, <1>2, <1>3

LEMMA RenameOwns == ASSUME FileInv, NEW from, NEW to, Rename(from, to) PROVE FileInv'
  <1>1. DOMAIN kernel' = DOMAIN kernel /\ m_fd' = m_fd
    BY DEF Rename
  <1> QED BY <1>1, SameOwners

LEMMA FilesSame == ASSUME FileInv, UNCHANGED fileVars PROVE FileInv'
  BY SameOwners DEF fileVars

------------------------------------------------------------------------------
(* The requests and the programs that use both classes.                    *)
LEMMA JsonSame == ASSUME JsonInv, UNCHANGED jsonVars PROVE JsonInv'
  <1>1. heap' = heap /\ var' = var /\ copies' = copies /\ puts' = puts /\ lost' = lost
    BY DEF jsonVars
  <1>2. /\ HeapOK(heap') /\ var' \in [Var -> Obj \cup {None}]
        /\ copies' \in Seq(Obj) /\ puts' \in Seq(Obj)
    BY <1>1, Typed
  <1>3. \A x \in Obj : heap'[x].held = heap[x].held
    BY <1>1
  <1>4. \A y \in Obj :
          heap'[y].refs + Times(y, var) + Times(y, copies) + Times(y, puts) + Extra(y, lost)
          = heap[y].refs + Times(y, var') + Times(y, copies') + Times(y, puts') + Extra(y, lost')
    BY <1>1
  <1> QED BY <1>2, <1>3, <1>4, MovesKeep

(* Nothing alive, nothing owned.                                           *)
LEMMA AllFreed ==
  ASSUME NEW h, h = [x \in Obj |-> Freed], NEW vs, vs = [v \in Var |-> None]
  PROVE  /\ TypesOK(h, vs, <<>>, <<>>)
         /\ \A x \in Obj : h[x].refs = 0 /\ Total(x, h, vs, <<>>, <<>>) = 0
  <1>1. \A x \in Obj : h[x] = Freed /\ h[x].refs = 0 /\ h[x].held = <<>>
    BY FreedIs
  <1>2. HeapOK(h)
    BY <1>1, FreedIs DEF HeapOK
  <1>3. TypesOK(h, vs, <<>>, <<>>)
    BY <1>2 DEF TypesOK
  <1>4. ASSUME NEW x \in Obj PROVE Total(x, h, vs, <<>>, <<>>) = 0
    <2>1. Times(x, vs) = 0
      <3>1. \A v \in DOMAIN vs : vs[v] # x
        BY JsonAssumption
      <3> QED BY <3>1, TimesNone
    <2>2. Times(x, <<>>) = 0
      BY TimesEmpty
    <2>3. Times(x, Grid(h)) = 0
      <3>1. \A z \in Obj : IsFiniteSet(DOMAIN h[z].held)
        BY <1>2 DEF HeapOK, NodeOK
      <3>2. \A s \in DOMAIN Grid(h) : \E y \in Obj : \E k \in DOMAIN h[y].held : s = <<y, k>>
        BY <3>1, GridDomain
      <3>3. \A y \in Obj : DOMAIN h[y].held = {}
        BY <1>1
      <3> DEFINE f == Grid(h)
      <3>4. DOMAIN f = {}
        BY <3>2, <3>3
      <3> HIDE DEF f
      <3>5. Times(x, f) = 0
        BY <3>4, TimesNone
      <3> QED BY <3>5 DEF f
    <2> QED BY <2>1, <2>2, <2>3 DEF Total
  <1> QED BY <1>1, <1>3, <1>4

------------------------------------------------------------------------------
(* The steps at which LoadMeta or SaveMeta has a document in its variable  *)
(* meta; what Json::Parse keeps in raw is not yet forgotten.               *)
Holding == {"take", "taken", "value", "add", "added", "write", "close", "json"}
Scoped ==
  /\ var["raw"] \notin lost /\ None \notin lost
  /\ pc = "json" => lost = {}
  /\ pc \notin Holding => var["meta"] = None
LeftInv == JsonInv /\ FileInv /\ Scoped

LEMMA Names ==
  /\ "rand" \in Handle /\ "in" \in Handle /\ "out" \in Handle /\ FreeHandles \subseteq Handle
  /\ "meta" \in Var /\ "tmp" \in Var /\ "raw" \in Var /\ FreeVars \in SUBSET Var
  BY StorageAssumption

LEMMA SameScope ==
  ASSUME Scoped, var' = var, lost' = lost, pc' = "json" => pc = "json", pc \in Holding => pc' \in Holding
  PROVE  Scoped'
  BY DEF Scoped, Holding

(* Requests that leave the values alone.                                   *)
LEMMA FileRequestsLeave ==
  ASSUME LeftInv, \/ Update \/ Dump \/ Flush \/ Hash \/ TakeResult \/ ToAttic
                  \/ LoadMeta("load") \/ LoadMeta("save") \/ Caught \/ Deduce \/ CreateMeta \/ WriteMeta
  PROVE  LeftInv'
  <1>1. UNCHANGED jsonVars
    BY DEF Update, Dump, Flush, Hash, TakeResult, ToAttic, LoadMeta, Caught, Deduce, CreateMeta,
           WriteMeta, WriteHashed
  <1>2. (pc' = "json" => pc = "json") /\ (pc \in Holding => pc' \in Holding)
    BY DEF Update, Dump, Flush, Hash, TakeResult, ToAttic, LoadMeta, Caught, Deduce, CreateMeta,
           WriteMeta, Goto, Holding, handlerVars
  <1>3. JsonInv' /\ Scoped'
    BY <1>1, <1>2, JsonSame, SameScope DEF LeftInv, jsonVars
  <1>4. FileInv'
    <2>1. CASE Update
      BY <2>1, Names, FileCallOwns DEF LeftInv, Update
    <2>2. CASE Dump \/ Flush
      <3>1. \E data, count : Write("rand", data, count, 0)
        BY <2>2 DEF Dump, Flush, WriteHashed
      <3> QED BY <3>1, Names, FileCallOwns DEF LeftInv
    <2>3. CASE Hash \/ Deduce
      <3>1. UNCHANGED fileVars
        BY <2>3 DEF Hash, Deduce
      <3> QED BY <3>1, FilesSame DEF LeftInv
    <2>4. CASE TakeResult \/ Caught
      <3>1. Close("rand") \/ Close("in") \/ UNCHANGED fileVars
        BY <2>4 DEF TakeResult, Caught
      <3> QED BY <3>1, Names, CloseOwns, FilesSame DEF LeftInv
    <2>5. CASE ToAttic
      BY <2>5, RenameOwns DEF LeftInv, ToAttic
    <2>6. CASE LoadMeta("load") \/ LoadMeta("save")
      <3>1. OpenForRead("in", MetaPath) \/ OpenFails("in")
        BY <2>6 DEF LoadMeta
      <3> QED BY <3>1, Names, FileCallOwns DEF LeftInv
    <2>7. CASE CreateMeta
      <3>1. OpenForWrite("out", MetaPath)
        BY <2>7 DEF CreateMeta
      <3> QED BY <3>1, Names, FileCallOwns DEF LeftInv
    <2>8. CASE WriteMeta
      <3>1. \E data, count : Write("out", data, count, Space)
        BY <2>8 DEF WriteMeta
      <3> QED BY <3>1, Names, FileCallOwns DEF LeftInv
    <2> QED BY <2>1, <2>2, <2>3, <2>4, <2>5, <2>6, <2>7, <2>8
  <1> QED BY <1>3, <1>4 DEF LeftInv

LEMMA ParseLeaves == ASSUME LeftInv, Parse PROVE LeftInv'
  <1>1. /\ pc = "parse" /\ pc' \in {"parse", "parsed"} /\ Read("in", Buf)
        /\ \/ UNCHANGED jsonVars
           \/ \E fields : Tokenize("raw", fields)
           \/ Forget /\ UNCHANGED <<heap, copies, puts>>
    BY DEF Parse, Goto
  <1>2. FileInv'
    BY <1>1, Names, FileCallOwns DEF LeftInv
  <1>3. /\ JsonInv /\ var["raw"] \notin lost /\ None \notin lost /\ var["meta"] = None
        /\ var \in [Var -> Obj \cup {None}] /\ "raw" \in Var /\ "meta" \in Var
    BY <1>1, Names, Typed DEF LeftInv, Scoped, Holding
  <1>4. CASE UNCHANGED jsonVars
    <2>1. JsonInv' /\ var' = var /\ lost' = lost
      BY <1>3, <1>4, JsonSame DEF jsonVars
    <2> QED BY <1>1, <1>2, <2>1, SameScope DEF LeftInv, Holding
  <1>5. CASE \E fields : Tokenize("raw", fields)
    <2>1. PICK fields : Tokenize("raw", fields)
      BY <1>5
    <2>2. JsonInv'
      BY <1>3, <2>1, TokenizeKeeps
    <2>3. /\ Spare # {} /\ var' = [var EXCEPT !["raw"] = Fresh]
          /\ lost' = lost \cup ({var["raw"]} \ {None})
      BY <2>1 DEF Tokenize
    <2>4. Fresh \in Obj /\ heap[Fresh].refs = 0 /\ ~Alive(Fresh)
      BY <1>3, <2>3, FreshIs
    <2>5. Fresh \notin lost
      <3>1. /\ heap[Fresh].refs = Total(Fresh, heap, var, copies, puts) + Extra(Fresh, lost)
            /\ Total(Fresh, heap, var, copies, puts) \in Nat
        BY <1>3, <2>4, Counted
      <3> QED BY <2>4, <3>1 DEF Extra
    <2>6. Fresh # var["raw"]
      <3>1. var["raw"] # None => Alive(var["raw"])
        BY <1>3, OwnedAlive DEF InScope
      <3> QED BY <2>4, <3>1, JsonAssumption
    <2>7. var'["raw"] = Fresh /\ var'["meta"] = None
      BY <1>3, <2>3
    <2> QED BY <1>1, <1>2, <1>3, <2>2, <2>3, <2>5, <2>6, <2>7 DEF LeftInv, Scoped
  <1>6. CASE Forget /\ UNCHANGED <<heap, copies, puts>>
    <2>1. lost' = lost \cup ({var["raw"]} \ {None}) /\ var' = [var EXCEPT !["raw"] = None]
      BY <1>6 DEF Forget
    <2>2. JsonInv'
      BY <1>3, <1>6, <2>1, ForgetKeeps
    <2>3. var'["raw"] = None /\ var'["meta"] = None /\ None \notin lost'
      BY <1>3, <2>1
    <2> QED BY <1>1, <1>2, <2>2, <2>3 DEF LeftInv, Scoped
  <1> QED BY <1>1, <1>4, <1>5, <1>6

LEMMA ParsedLeaves == ASSUME LeftInv, Parsed PROVE LeftInv'
  <1>1. pc = "parsed" /\ UNCHANGED fileVars /\ pc' \in {"take", "caught"}
    BY DEF Parsed, Goto
  <1>2. FileInv'
    BY <1>1, FilesSame DEF LeftInv
  <1>3. /\ JsonInv /\ None \notin lost /\ var["meta"] = None
        /\ var \in [Var -> Obj \cup {None}] /\ "raw" \in Var /\ "meta" \in Var
    BY <1>1, Names, Typed DEF LeftInv, Scoped, Holding
  <1>4. CASE tok.err = "success" /\ InScope("raw")
    <2>1. /\ var' = [var EXCEPT !["raw"] = None, !["meta"] = var["raw"]]
          /\ heap' = heap /\ copies' = copies /\ puts' = puts /\ lost' = lost /\ pc' = "take"
      BY <1>4 DEF Parsed, Goto
    <2>2. /\ var' \in [Var -> Obj \cup {None}] /\ var'["raw"] = None /\ var'["meta"] = var["raw"]
          /\ \A j \in Var : j # "raw" /\ j # "meta" => var'[j] = var[j]
      BY <1>3, <2>1
    <2>3. JsonInv'
      BY <1>3, <2>1, <2>2, SwapKeeps
    <2> QED BY <1>2, <1>3, <2>1, <2>2, <2>3 DEF LeftInv, Scoped, Holding
  <1>5. CASE ~(tok.err = "success" /\ InScope("raw"))
    <2>1. UNCHANGED jsonVars
      BY <1>5 DEF Parsed
    <2>2. JsonInv' /\ var' = var /\ lost' = lost
      BY <1>3, <2>1, JsonSame DEF jsonVars
    <2>3. Scoped'
      BY <1>1, <2>2, SameScope DEF LeftInv, Holding
    <2> QED BY <1>2, <2>2, <2>3 DEF LeftInv
  <1> QED BY <1>4, <1>5

(* Steps that change what the variables meta and tmp own.                  *)
LEMMA MetaScope ==
  ASSUME LeftInv, JsonInv', FileInv', lost' = lost, var'["raw"] = var["raw"], pc # "json", pc' # "json",
         pc' \notin Holding => var'["meta"] = None
  PROVE  LeftInv'
  BY DEF LeftInv, Scoped

LEMMA MetaLeaves ==
  ASSUME LeftInv, puts = <<>>, Take \/ Taken \/ Loaded \/ Make \/ Add \/ Added \/ CloseMeta
  PROVE  LeftInv'
  <1>0. /\ JsonInv /\ FileInv /\ var \in [Var -> Obj \cup {None}]
        /\ "raw" \in Var /\ "meta" \in Var /\ "tmp" \in Var
    BY Names, Typed DEF LeftInv
  <1>1. CASE Take \/ Taken \/ Make \/ Add \/ Added
    <2>1. FileInv'
      <3>1. UNCHANGED fileVars
        BY <1>1 DEF Take, Taken, Make, Add, Added
      <3> QED BY <1>0, <3>1, FilesSame
    <2>2. /\ pc # "json" /\ pc' # "json"
          /\ pc' \notin Holding => Destroy("meta")
      BY <1>1 DEF Take, Taken, Make, Add, Added, Goto, Holding
    <2>3. \/ \E k : Subscript("tmp", "meta", k)
          \/ Destroy("meta") \/ Destroy("tmp")
          \/ \E text : NewScalar("tmp", text)
          \/ \E k : AddMember("meta", k, "tmp")
      BY <1>1 DEF Take, Taken, Make, Add, Added
    <2>4. JsonInv' /\ lost' = lost /\ var'["raw"] = var["raw"]
      <3>1. CASE \E k : Subscript("tmp", "meta", k)
        <4>0. PICK k : Subscript("tmp", "meta", k)
          BY <3>1
        <4>1. PICK x \in Member("meta", k) : Own("tmp", x)
          BY <4>0 DEF Subscript
        <4>2. lost' = lost /\ var' = [var EXCEPT !["tmp"] = x]
          BY <4>1 DEF Own
        <4>3. Alive(x)
          BY <1>0, <4>1, HeldAlive
        <4>4. JsonInv'
          BY <1>0, <4>1, <4>3, OwnKeeps
        <4> QED BY <1>0, <4>2, <4>4
      <3>2. CASE Destroy("meta") \/ Destroy("tmp")
        <4>1. lost' = lost /\ var'["raw"] = var["raw"]
          BY <1>0, <3>2 DEF Destroy
        <4> QED BY <1>0, <3>2, <4>1, DestroyKeeps
      <3>3. CASE \E text : NewScalar("tmp", text)
        <4>1. PICK text : New("tmp", Node("scalar", <<>>, text))
          BY <3>3 DEF NewScalar
        <4>2. lost' = lost /\ var' = [var EXCEPT !["tmp"] = Fresh]
          BY <4>1 DEF New
        <4>3. JsonInv'
          BY <1>0, <4>1, NewEmptyKeeps
        <4> QED BY <1>0, <4>2, <4>3
      <3>4. CASE \E k : AddMember("meta", k, "tmp")
        <4>1. PICK k : AddMember("meta", k, "tmp")
          BY <3>4
        <4>2. lost' = lost /\ var' = var
          BY <4>1 DEF AddMember
        <4> QED BY <1>0, <4>1, <4>2, AddMemberKeeps
      <3> QED BY <2>3, <3>1, <3>2, <3>3, <3>4
    <2>5. Destroy("meta") => var'["meta"] = None
      BY <1>0 DEF Destroy
    <2> QED BY <2>1, <2>2, <2>4, <2>5, MetaScope
  <1>2. CASE Loaded
    <2>1. FileInv'
      BY <1>0, <1>2, FilesSame DEF Loaded
    <2>2. CASE goal = "load"
      <3>1. UNCHANGED jsonVars /\ pc = "loaded" /\ pc' = "idle"
        BY <1>2, <2>2 DEF Loaded, Goto
      <3>2. JsonInv' /\ Scoped'
        BY <1>0, <3>1, JsonSame, SameScope DEF LeftInv, Holding, jsonVars
      <3> QED BY <2>1, <3>2 DEF LeftInv
    <2>3. CASE goal # "load"
      <3>1. New("meta", Node("object", <<>>, None)) /\ pc = "loaded" /\ pc' = "value"
        BY <1>2, <2>3 DEF Loaded, Goto, NewObject
      <3>2. lost' = lost /\ var' = [var EXCEPT !["meta"] = Fresh]
        BY <3>1 DEF New
      <3>3. JsonInv'
        BY <1>0, <3>1, NewEmptyKeeps
      <3>4. var'["raw"] = var["raw"]
        BY <1>0, <3>2
      <3> QED BY <2>1, <3>1, <3>2, <3>3, <3>4, MetaScope DEF Holding
    <2> QED BY <2>2, <2>3
  <1>3. CASE CloseMeta
    <2>1. Close("out") /\ Destroy("meta") /\ pc = "close" /\ pc' = "idle"
      BY <1>3 DEF CloseMeta, Goto
    <2>2. FileInv'
      BY <1>0, <2>1, Names, CloseOwns
    <2>3. JsonInv'
      BY <1>0, <2>1, DestroyKeeps
    <2>4. lost' = lost /\ var'["raw"] = var["raw"] /\ var'["meta"] = None
      BY <1>0, <2>1 DEF Destroy
    <2> QED BY <2>1, <2>2, <2>3, <2>4, MetaScope
  <1> QED BY <1>1, <1>2, <1>3

LEMMA FreeLeaves ==
  ASSUME LeftInv, AnyJson \/ AnySha \/ AnyFile PROVE LeftInv'
  <1>1. CASE AnyJson
    <2>1. JsonCall(FreeVars, FreeKeys) /\ pc = "json" /\ pc' = pc /\ UNCHANGED fileVars
      BY <1>1 DEF AnyJson, handlerVars
    <2>2. JsonInv' /\ lost' = lost
      BY <2>1, Names, JsonCallKeeps DEF LeftInv
    <2>3. FileInv'
      BY <2>1, FilesSame DEF LeftInv
    <2> QED BY <2>1, <2>2, <2>3 DEF LeftInv, Scoped, Holding
  <1>2. CASE AnySha
    <2>1. UNCHANGED jsonVars /\ UNCHANGED fileVars /\ pc' = pc
      BY <1>2 DEF AnySha, handlerVars
    <2> QED BY <2>1, JsonSame, FilesSame, SameScope DEF LeftInv, jsonVars
  <1>3. CASE AnyFile
    <2>1. UNCHANGED jsonVars /\ pc' = pc
      BY <1>3 DEF AnyFile, handlerVars
    <2>2. PICK f \in FreeHandles :
            \/ OpenForRead(f, MetaPath) \/ OpenForWrite(f, MetaPath)
            \/ OpenRandom(f, TmpPath) \/ OpenFails(f) \/ Close(f)
            \/ Read(f, 1)
            \/ \E count \in Counts(<<1, 1>>) : Write(f, <<1, 1>>, count, 0)
            \/ Seek(f, 0) \/ Seek(f, 3)
      BY <1>3 DEF AnyFile
    <2>3. FileInv'
      BY <2>2, Names, FileCallOwns DEF LeftInv
    <2> QED BY <2>1, <2>3, JsonSame, SameScope DEF LeftInv, jsonVars
  <1> QED BY <1>1, <1>2, <1>3

LEMMA DieLeaves == ASSUME Die PROVE LeftInv'
  <1>1. /\ heap' = [x \in Obj |-> Freed] /\ var' = [v \in Var |-> None]
        /\ copies' = <<>> /\ puts' = <<>> /\ lost' = {} /\ pc' = "idle" /\ CloseAll
    BY DEF Die, Goto
  <1>2. /\ TypesOK(heap', var', copies', puts')
        /\ \A x \in Obj : heap'[x].refs = 0 /\ Total(x, heap', var', copies', puts') = 0
    <2>1. /\ TypesOK(heap', var', <<>>, <<>>)
          /\ \A x \in Obj : heap'[x].refs = 0 /\ Total(x, heap', var', <<>>, <<>>) = 0
      BY <1>1, AllFreed
    <2> QED BY <1>1, <2>1
  <1>3. CountsExact'
    BY <1>1, <1>2, OwnersTotal DEF CountsExact
  <1>4. FileInv'
    BY <1>1, NoneOwns DEF CloseAll
  <1>5. Scoped'
    BY <1>1, Names DEF Scoped
  <1> QED BY <1>2, <1>3, <1>4, <1>5 DEF LeftInv, JsonInv, JsonTypeOK

LEMMA LeftInits == ASSUME Init PROVE LeftInv
  <1>1. /\ heap = [x \in Obj |-> Freed] /\ var = [v \in Var |-> None]
        /\ copies = <<>> /\ puts = <<>> /\ lost = {}
    BY DEF Init, JsonInit
  <1>2. kernel = <<>> /\ m_fd = [f \in Handle |-> NotOpen]
    BY DEF Init, FileInit
  <1>3. JsonInv
    <2>1. /\ TypesOK(heap, var, <<>>, <<>>)
          /\ \A x \in Obj : heap[x].refs = 0 /\ Total(x, heap, var, <<>>, <<>>) = 0
      BY <1>1, AllFreed
    <2>2. CountsExact
      BY <1>1, <2>1, OwnersTotal DEF CountsExact
    <2> QED BY <1>1, <2>1, <2>2 DEF JsonInv, JsonTypeOK
  <1>4. FileInv
    <2>1. DOMAIN kernel = {} /\ m_fd \in [Handle -> Fd \cup {NotOpen}]
          /\ \A f \in Handle : m_fd[f] = NotOpen
      BY <1>2
    <2> QED BY <2>1 DEF FileInv, IsOpened
  <1>5. Scoped
    BY <1>1, Names DEF Scoped
  <1> QED BY <1>3, <1>4, <1>5 DEF LeftInv

LEMMA ReleaseLeaves ==
  ASSUME LeftInv, Release, UNCHANGED <<digestVars, fileVars, handlerVars>> PROVE LeftInv'
  <1>1. var' = var /\ lost' = lost /\ pc' = pc
    BY DEF Release, handlerVars
  <1>2. JsonInv' /\ FileInv'
    BY ReleaseKeeps, FilesSame DEF LeftInv
  <1> QED BY <1>1, <1>2, SameScope DEF LeftInv

LEMMA LeftSteps == LeftInv /\ [Next]_vars => LeftInv'
  <1> SUFFICES ASSUME LeftInv, [Next]_vars PROVE LeftInv'
    OBVIOUS
  <1>1. CASE Release /\ UNCHANGED <<digestVars, fileVars, handlerVars>>
    BY <1>1, ReleaseLeaves
  <1>2. CASE puts = <<>> /\ Handler
    <2>1. \/ Update \/ Dump \/ Flush \/ Hash \/ TakeResult \/ ToAttic
          \/ LoadMeta("load") \/ LoadMeta("save") \/ Caught \/ Deduce \/ CreateMeta \/ WriteMeta
          \/ Parse \/ Parsed
          \/ Take \/ Taken \/ Loaded \/ Make \/ Add \/ Added \/ CloseMeta
      BY <1>2 DEF Handler
    <2> QED BY <1>2, <2>1, FileRequestsLeave, ParseLeaves, ParsedLeaves, MetaLeaves
  <1>3. CASE Die
    BY <1>3, DieLeaves
  <1>4. CASE AnyJson \/ AnySha \/ AnyFile
    BY <1>4, FreeLeaves
  <1>5. CASE UNCHANGED vars
    <2>1. UNCHANGED jsonVars /\ UNCHANGED fileVars /\ pc' = pc
      BY <1>5 DEF vars, handlerVars
    <2> QED BY <2>1, JsonSame, FilesSame, SameScope DEF LeftInv, jsonVars
  <1> QED BY <1>1, <1>2, <1>3, <1>4, <1>5 DEF Next

(* Whatever is called of Json and File, in whatever order, and whichever   *)
(* document does not parse or process dies, the count of every value is    *)
(* the number of its owners (and one more if Json::Parse has forgotten     *)
(* it), and every open descriptor belongs to one object: for any memory,   *)
(* variables, keys, files and number of requests.                          *)
THEOREM NothingLeaks == Spec => []NothingLeft
  <1>1. Init => LeftInv
    BY LeftInits
  <1>2. LeftInv => NothingLeft
    BY FilesOwned DEF LeftInv, JsonInv, NothingLeft
  <1> QED BY <1>1, LeftSteps, <1>2, PTL DEF Spec

------------------------------------------------------------------------------
(* Metadata.  The cells of a document, and whether Json::Parse gets all of *)
(* the file in one read and LoadMeta all of its fields.                    *)
Key == STRING \cup Range(Field) \cup {"{", "}", " "}
MetaCell == [k : Key, v : Nat]
Short == Len(OnDisk) <= Buf /\ ~Gap(OnDisk)

(* The file holds what a reader should see, whoever died over it.          *)
DocumentInv ==
  /\ OnDisk \in Seq(MetaCell) /\ (Ket \in Range(OnDisk) => OnDisk[1] = Bra)
  /\ stored = Said(OnDisk)

(* The handlers put only scalars into values, and numbers into scalars.    *)
ScalarInv ==
  /\ \A x \in Obj : \A k \in DOMAIN heap[x].held : heap[heap[x].held[k]].type = "scalar"
  /\ \A x \in Obj : heap[x].type = "scalar" => heap[x].text \in Nat

(* Value x is the object of fields.                                        *)
IsFields(h, x, fields) ==
  /\ x \in Obj /\ h[x].type = "object"
  /\ DOMAIN h[x].held = DOMAIN fields
  /\ \A k \in DOMAIN fields : h[h[x].held[k]].text = fields[k]
IsScalar(h, x) == x \in Obj /\ h[x].type = "scalar"
AtMeta(f) ==
  /\ m_fd[f] \in DOMAIN kernel /\ MetaPath \in DOMAIN disk
  /\ kernel[m_fd[f]] = [path |-> MetaPath, offset |-> Offset(f)]

(* Json::Parse has nothing of a short document, or has it all.             *)
ParseInv ==
  /\ AtMeta("in") /\ Offset("in") \in Nat
  /\ tok.err = "success" /\ tok.have \in Seq(MetaCell)
  /\ m_meta = NoMeta /\ field = 1
  /\ Short =>
       \/ /\ Offset("in") = 0
          /\ tok.have = <<>> /\ var["raw"] = None
       \/ /\ Offset("in") = Len(OnDisk) /\ Whole(OnDisk)
          /\ IsFields(heap, var["raw"], FieldsOf(OnDisk))
ParsedInv ==
  /\ m_meta = NoMeta /\ field = 1
  /\ tok.err \in {"success", "continue"}
  /\ tok.err # "success" => var["raw"] = None
  /\ Short =>
       \/ ~Whole(OnDisk) /\ var["raw"] = None
       \/ /\ Whole(OnDisk) /\ tok.err = "success"
          /\ IsFields(heap, var["raw"], FieldsOf(OnDisk))

(* Take has the fields before the next one, and no others.                 *)
Before(n) == {Field[i] : i \in 1 .. n - 1}
Partly(fields, n) == [k \in Range(Field) |-> IF k \in Before(n) THEN fields[k] ELSE 0]
Taking(fields) ==
  /\ Whole(OnDisk) /\ Before(field) \subseteq DOMAIN fields
  /\ m_meta = Partly(fields, field)
  /\ IsFields(heap, var["meta"], fields)
TakeInv ==
  /\ m_meta \in Meta /\ var["meta"] \in Obj /\ tok.err = "success"
  /\ Short => Taking(FieldsOf(OnDisk))
TakenInv ==
  /\ TakeInv /\ field <= Len(Field) /\ IsScalar(heap, var["tmp"])
  /\ Short => /\ Field[field] \in DOMAIN FieldsOf(OnDisk)
              /\ heap[var["tmp"]].text = FieldsOf(OnDisk)[Field[field]]
DeduceInv == m_meta \in Meta /\ (Short => Deduced(m_meta) = Answer)

(* What SaveMeta has put into its object is what m_meta has of it.         *)
Complete(meta) == meta \in Meta /\ Deduced(meta) = meta
LoadedInv == Complete(m_meta) /\ (Short => m_meta = Answer)
ValueInv(n) ==
  /\ Complete(m_meta)
  /\ IsFields(heap, var["meta"], [k \in Before(n) |-> m_meta[k]])
AddInv ==
  /\ ValueInv(field) /\ field <= Len(Field) /\ IsScalar(heap, var["tmp"])
  /\ heap[var["tmp"]].text = m_meta[Field[field]]
AddedInv == ValueInv(field + 1) /\ field <= Len(Field)
WriteInv ==
  /\ AtMeta("out") /\ Offset("out") = 0 /\ OnDisk = <<>>
  /\ ValueInv(Len(Field) + 1)

LabelInv ==
  /\ pc = "parse" => ParseInv
  /\ pc = "parsed" => ParsedInv
  /\ pc = "take" => TakeInv
  /\ pc = "taken" => TakenInv
  /\ pc \in {"caught", "deduce"} => DeduceInv
  /\ pc = "loaded" => LoadedInv
  /\ pc = "value" => ValueInv(field)
  /\ pc = "add" => AddInv
  /\ pc = "added" => AddedInv
  /\ pc = "write" => WriteInv
FieldsInv ==
  field \in 1 .. Len(Field) + 1 /\ stored \in Meta /\ m_meta \in Meta \cup {None}
MetaInv ==
  /\ FieldsInv
  /\ pc \notin {"json", "sha", "file"} =>
       /\ DocumentInv /\ ScalarInv
       /\ pc \notin {"parse", "parsed"} => var["raw"] = None
       /\ LabelInv

------------------------------------------------------------------------------
LEMMA FieldIs ==
  /\ Len(Field) = 4 /\ DOMAIN Field = 1 .. 4
  /\ Range(Field) = {"last-modified", "name", "type", "sequence"}
  /\ \A i \in 1 .. 4 : Field[i] \in Range(Field)
  /\ \A i \in 1 .. 4, j \in 1 .. 4 : Field[i] = Field[j] => i = j
  /\ \A k \in Range(Field) : (\E i \in 1 .. 4 : Field[i] = k) /\ k \notin {"{", "}", " "}
  /\ Field[1] = "last-modified" /\ Field[2] = "name" /\ Field[3] = "type" /\ Field[4] = "sequence"
  <1>1. Len(Field) = 4 /\ DOMAIN Field = 1 .. 4
    BY DEF Field
  <1>2. Field[1] = "last-modified" /\ Field[2] = "name" /\ Field[3] = "type" /\ Field[4] = "sequence"
    BY DEF Field
  <1>3. \A i \in 1 .. 4 : i = 1 \/ i = 2 \/ i = 3 \/ i = 4
    OBVIOUS
  <1>4. Range(Field) = {"last-modified", "name", "type", "sequence"}
    <2>1. Range(Field) = {Field[i] : i \in 1 .. 4}
      BY <1>1 DEF Range
    <2>2. ASSUME NEW k \in Range(Field) PROVE k \in {"last-modified", "name", "type", "sequence"}
      BY <1>2, <1>3, <2>1
    <2>3. ASSUME NEW k \in {"last-modified", "name", "type", "sequence"} PROVE k \in Range(Field)
      <3>1. 1 \in 1 .. 4 /\ 2 \in 1 .. 4 /\ 3 \in 1 .. 4 /\ 4 \in 1 .. 4
        OBVIOUS
      <3> QED BY <1>2, <2>1, <3>1
    <2> QED BY <2>2, <2>3
  <1>5. \A i \in 1 .. 4 : Field[i] \in Range(Field)
    BY <1>1 DEF Range
  <1>6. \A i \in 1 .. 4, j \in 1 .. 4 : Field[i] = Field[j] => i = j
    BY <1>2, <1>3
  <1>7. \A k \in Range(Field) : (\E i \in 1 .. 4 : Field[i] = k) /\ k \notin {"{", "}", " "}
    BY <1>1, <1>4 DEF Range
  <1> QED BY <1>1, <1>2, <1>4, <1>5, <1>6, <1>7

LEMMA DeducedIs ==
  ASSUME NEW meta \in Meta
  PROVE  Complete(Deduced(meta)) /\ \A k \in Range(Field) : k # "sequence" => Deduced(meta)[k] # 0
  BY DEF Complete, Deduced, Meta

LEMMA CompleteIs ==
  ASSUME NEW meta \in Meta, \A k \in Range(Field) : k # "sequence" => meta[k] # 0
  PROVE  Complete(meta)
  BY DEF Complete, Deduced, Meta

LEMMA NoMetaIs == NoMeta \in Meta
  BY DEF NoMeta, Meta

LEMMA FieldsNat ==
  ASSUME NEW cells \in Seq(MetaCell), NEW k \in DOMAIN FieldsOf(cells)
  PROVE  FieldsOf(cells)[k] \in Nat
  <1>1. k \in {cells[i].k : i \in DOMAIN cells} /\ FieldsOf(cells)[k] = (CHOOSE c \in Range(cells) : c.k = k).v
    BY DEF FieldsOf
  <1>2. PICK i \in DOMAIN cells : cells[i].k = k
    BY <1>1
  <1>3. cells[i] \in Range(cells)
    BY DEF Range
  <1>4. \E c \in Range(cells) : c.k = k
    BY <1>2, <1>3
  <1>5. (CHOOSE c \in Range(cells) : c.k = k) \in Range(cells)
    BY <1>4
  <1>6. \A c \in Range(cells) : c \in MetaCell
    BY DEF Range
  <1> QED BY <1>1, <1>5, <1>6 DEF MetaCell

LEMMA SaidIs ==
  ASSUME NEW cells \in Seq(MetaCell)
  PROVE  Said(cells) \in Meta /\ (~Whole(cells) => Said(cells) = Deduced(NoMeta))
  <1> DEFINE fields == FieldsOf(cells)
             meta == [k \in Range(Field) |->
                        IF Whole(cells) /\ k \in DOMAIN fields THEN fields[k] ELSE 0]
  <1>1. Said(cells) = Deduced(meta)
    BY DEF Said
  <1>2. \A k \in DOMAIN fields : fields[k] \in Nat
    BY FieldsNat
  <1> HIDE DEF fields
  <1>3. meta \in Meta
    BY <1>2 DEF Meta
  <1>4. ~Whole(cells) => meta = NoMeta
    BY DEF NoMeta
  <1> HIDE DEF meta
  <1> QED BY <1>1, <1>3, <1>4, DeducedIs DEF Complete

LEMMA SixLong ==
  ASSUME NEW S, NEW a \in S, NEW b \in S, NEW c \in S, NEW d \in S, NEW e \in S, NEW f \in S
  PROVE  LET s == <<a>> \o <<b>> \o <<c>> \o <<d>> \o <<e>> \o <<f>>
         IN /\ s \in Seq(S) /\ Len(s) = 6
            /\ s[1] = a /\ s[2] = b /\ s[3] = c /\ s[4] = d /\ s[5] = e /\ s[6] = f
  <1>1. \A s \in Seq(S), x \in S : s \o <<x>> = Append(s, x)
    BY AppendIsConcat
  <1> DEFINE s1 == <<a>>
             s2 == Append(s1, b)
             s3 == Append(s2, c)
             s4 == Append(s3, d)
             s5 == Append(s4, e)
             s6 == Append(s5, f)
  <1>2. s1 \in Seq(S) /\ s2 \in Seq(S) /\ s3 \in Seq(S) /\ s4 \in Seq(S) /\ s5 \in Seq(S)
    OBVIOUS
  <1>3. /\ s6 \in Seq(S) /\ Len(s6) = 6
        /\ s6[1] = a /\ s6[2] = b /\ s6[3] = c /\ s6[4] = d /\ s6[5] = e /\ s6[6] = f
    OBVIOUS
  <1> HIDE DEF s1
  <1>4. s1 \o <<b>> = s2
    BY <1>1, <1>2
  <1> HIDE DEF s2
  <1>5. s2 \o <<c>> = s3
    BY <1>1, <1>2
  <1> HIDE DEF s3
  <1>6. s3 \o <<d>> = s4
    BY <1>1, <1>2
  <1> HIDE DEF s4
  <1>7. s4 \o <<e>> = s5
    BY <1>1, <1>2
  <1> HIDE DEF s5
  <1>8. s5 \o <<f>> = s6
    BY <1>1, <1>2
  <1> HIDE DEF s6
  <1>9. s1 \o <<b>> \o <<c>> \o <<d>> \o <<e>> \o <<f>> = s6
    BY <1>4, <1>5, <1>6, <1>7, <1>8
  <1>10. <<a>> \o <<b>> \o <<c>> \o <<d>> \o <<e>> \o <<f>> = s6
    BY <1>9 DEF s1
  <1> QED BY <1>3, <1>10

(* A document that SaveMeta writes whole.                                  *)
LEMMA TextIs ==
  ASSUME NEW meta \in Meta
  PROVE  /\ Text(meta) \in Seq(MetaCell) /\ Text(meta)[1] = Bra /\ Len(Text(meta)) = 6
         /\ \A i \in 1 .. Len(Text(meta)) - 1 : Text(meta)[i] # Ket
         /\ Said(Text(meta)) = Deduced(meta)
  <1> DEFINE cell(n) == [k |-> Field[n], v |-> meta[Field[n]]]
             text == Text(meta)
  <1>2. \A n \in 1 .. 4 : cell(n) \in MetaCell /\ cell(n).k = Field[n] /\ cell(n).v = meta[Field[n]]
    <2>1. ASSUME NEW n \in 1 .. 4 PROVE cell(n) \in MetaCell
      <3>1. Field[n] \in Key /\ meta[Field[n]] \in Nat
        BY FieldIs DEF Key, Meta
      <3> QED BY <3>1 DEF MetaCell
    <2> QED BY <2>1
  <1>3. Bra \in MetaCell /\ Ket \in MetaCell
    <2>1. "{" \in Key /\ "}" \in Key
      BY DEF Key
    <2> QED BY <2>1 DEF MetaCell, Bra, Ket
  <1>11. Bra.k = "{" /\ Ket.k = "}"
    BY DEF Bra, Ket
  <1>4. Bra # Ket /\ \A n \in 1 .. 4 : cell(n) # Ket
    BY <1>2, <1>11, FieldIs, ZenonT(60)
  <1>5. /\ text \in Seq(MetaCell) /\ Len(text) = 6
        /\ text[1] = Bra /\ text[2] = cell(1) /\ text[3] = cell(2) /\ text[4] = cell(3)
        /\ text[5] = cell(4) /\ text[6] = Ket
    <2>1. \A n \in 1 .. 4 : Cells(meta, Field[n]) = <<cell(n)>>
      BY FieldIs DEF Cells, Meta
    <2>2. 1 \in 1 .. 4 /\ 2 \in 1 .. 4 /\ 3 \in 1 .. 4 /\ 4 \in 1 .. 4
      OBVIOUS
    <2>3. text = <<Bra>> \o <<cell(1)>> \o <<cell(2)>> \o <<cell(3)>> \o <<cell(4)>> \o <<Ket>>
      BY <2>1, <2>2 DEF Text
    <2>4. cell(1) \in MetaCell /\ cell(2) \in MetaCell /\ cell(3) \in MetaCell /\ cell(4) \in MetaCell
      BY <1>2, <2>2
    <2> HIDE DEF cell, text
    <2> QED BY <1>3, <2>3, <2>4, SixLong
  <1> HIDE DEF cell, text
  <1>6. text \in Seq(MetaCell) /\ DOMAIN text = 1 .. 6
    BY <1>5
  <1>7. ASSUME NEW i \in 1 .. 5 PROVE text[i] # Ket
    <2>1. i = 1 \/ i = 2 \/ i = 3 \/ i = 4 \/ i = 5
      OBVIOUS
    <2>2. cell(1) # Ket /\ cell(2) # Ket /\ cell(3) # Ket /\ cell(4) # Ket
      BY <1>4
    <2> QED BY <1>4, <1>5, <2>1, <2>2
  <1>8. Whole(text)
    <2>1. Ket \in Range(text)
      BY <1>5 DEF Range
    <2>2. text # <<>>
      BY <1>5, SMTT(30)
    <2> QED BY <1>5, <2>1, <2>2 DEF Whole
  <1>9. /\ DOMAIN FieldsOf(text) = Range(Field)
        /\ \A k \in Range(Field) : FieldsOf(text)[k] = meta[k]
    <2>1. ASSUME NEW i \in DOMAIN text
          PROVE  text[i] = Bra \/ text[i] = Ket \/ \E n \in 1 .. 4 : text[i] = cell(n)
      <3>1. i = 1 \/ i = 2 \/ i = 3 \/ i = 4 \/ i = 5 \/ i = 6
        BY <1>6
      <3> QED BY <1>5, <3>1
    <2>2. ASSUME NEW n \in 1 .. 4 PROVE n + 1 \in DOMAIN text /\ text[n + 1] = cell(n)
      <3>1. n = 1 \/ n = 2 \/ n = 3 \/ n = 4
        OBVIOUS
      <3> QED BY <1>5, <1>6, <3>1
    <2>3. {text[i].k : i \in DOMAIN text} \ {"{", "}", " "} = Range(Field)
      <3>1. ASSUME NEW i \in DOMAIN text, text[i].k \notin {"{", "}", " "} PROVE text[i].k \in Range(Field)
        <4>1. text[i] # Bra /\ text[i] # Ket
          BY <1>11, <3>1
        <4>2. PICK n \in 1 .. 4 : text[i] = cell(n)
          BY <2>1, <4>1
        <4> QED BY <1>2, <4>2, FieldIs
      <3>2. ASSUME NEW k \in Range(Field) PROVE \E i \in DOMAIN text : text[i].k = k
        BY <1>2, <2>2, FieldIs
      <3>3. \A k \in Range(Field) : k \notin {"{", "}", " "}
        BY FieldIs
      <3> QED BY <3>1, <3>2, <3>3
    <2>4. ASSUME NEW k \in Range(Field) PROVE (CHOOSE c \in Range(text) : c.k = k).v = meta[k]
      <3>1. PICK n \in 1 .. 4 : Field[n] = k
        BY FieldIs
      <3>2. cell(n) \in Range(text)
        BY <2>2 DEF Range
      <3>3. ASSUME NEW c \in Range(text), c.k = k PROVE c = cell(n)
        <4>1. PICK i \in DOMAIN text : c = text[i]
          BY DEF Range
        <4>2. k # "{" /\ k # "}"
          BY FieldIs
        <4>3. PICK m \in 1 .. 4 : c = cell(m)
          BY <1>11, <2>1, <3>3, <4>1, <4>2
        <4> QED BY <1>2, <3>1, <3>3, <4>3, FieldIs
      <3>4. (CHOOSE c \in Range(text) : c.k = k) = cell(n)
        BY <1>2, <3>1, <3>2, <3>3
      <3> QED BY <1>2, <3>1, <3>4
    <2> QED BY <2>3, <2>4 DEF FieldsOf
  <1>10. Said(text) = Deduced(meta)
    <2> DEFINE said == [k \in Range(Field) |->
                 IF Whole(text) /\ k \in DOMAIN FieldsOf(text) THEN FieldsOf(text)[k] ELSE 0]
    <2>1. Said(text) = Deduced(said)
      BY DEF Said
    <2>2. said = meta
      BY <1>8, <1>9 DEF Meta
    <2> QED BY <2>1, <2>2
  <1> QED BY <1>5, <1>6, <1>7, <1>10 DEF text

------------------------------------------------------------------------------
(* What a value is stays until it is freed.                                *)
SameValue(h, g, x) == g[x].type = h[x].type /\ g[x].held = h[x].held /\ g[x].text = h[x].text
Kept ==
  \A x \in Obj : \/ heap'[x].type = "freed" /\ heap'[x].held = <<>>
                 \/ SameValue(heap, heap', x)
AllAlive ==
  /\ \A y \in Obj : \A k \in DOMAIN heap[y].held : Alive(heap[y].held[k])
  /\ \A v \in Var : var[v] \in Obj => Alive(var[v])

LEMMA AliveIs == JsonInv => AllAlive
  <1> SUFFICES ASSUME JsonInv PROVE AllAlive
    OBVIOUS
  <1>1. \A v \in Var : var[v] \in Obj => InScope(v)
    BY JsonAssumption DEF InScope
  <1> QED BY <1>1, OwnedAlive DEF AllAlive

LEMMA AliveNext == ASSUME JsonInv' PROVE AllAlive'
  BY AliveIs, PTL

LEMMA ScalarsKept ==
  ASSUME JsonInv', Kept, ScalarInv
  PROVE  ScalarInv'
  <1>1. AllAlive'
    BY AliveNext
  <1>2. ASSUME NEW x \in Obj, NEW k \in DOMAIN heap'[x].held
        PROVE  heap'[heap'[x].held[k]].type = "scalar"
    <2>1. heap'[x].held = heap[x].held
      BY <1>2 DEF Kept, SameValue
    <2>2. heap'[x].held[k] \in Obj /\ heap'[heap'[x].held[k]].type # "freed"
      BY <1>1 DEF AllAlive, Alive
    <2>3. heap[heap[x].held[k]].type = "scalar"
      BY <2>1 DEF ScalarInv
    <2> QED BY <2>1, <2>2, <2>3 DEF Kept, SameValue
  <1>3. ASSUME NEW x \in Obj, heap'[x].type = "scalar" PROVE heap'[x].text \in Nat
    BY <1>3 DEF Kept, SameValue, ScalarInv
  <1> QED BY <1>2, <1>3 DEF ScalarInv

LEMMA FieldsKept ==
  ASSUME JsonInv', Kept, NEW x, heap'[x].type # "freed"
  PROVE  /\ \A fields : IsFields(heap, x, fields) => IsFields(heap', x, fields)
         /\ IsScalar(heap, x) => IsScalar(heap', x) /\ heap'[x].text = heap[x].text
  <1>1. AllAlive'
    BY AliveNext
  <1>2. x \in Obj => SameValue(heap, heap', x)
    BY DEF Kept
  <1>3. ASSUME NEW fields, IsFields(heap, x, fields) PROVE IsFields(heap', x, fields)
    <2>1. x \in Obj /\ heap'[x].type = "object" /\ heap'[x].held = heap[x].held
      BY <1>2, <1>3 DEF IsFields, SameValue
    <2>2. \A k \in DOMAIN fields : k \in DOMAIN heap'[x].held
      BY <1>3, <2>1 DEF IsFields
    <2>3. \A k \in DOMAIN fields : SameValue(heap, heap', heap[x].held[k])
      BY <1>1, <2>1, <2>2 DEF AllAlive, Alive, Kept
    <2> QED BY <1>3, <2>1, <2>3 DEF IsFields, SameValue
  <1>4. ASSUME IsScalar(heap, x) PROVE IsScalar(heap', x) /\ heap'[x].text = heap[x].text
    BY <1>2, <1>4 DEF IsScalar, SameValue
  <1> QED BY <1>3, <1>4

LEMMA VarsAlive ==
  ASSUME JsonInv', NEW v \in Var, var'[v] \in Obj
  PROVE  heap'[var'[v]].type # "freed"
  BY AliveNext DEF AllAlive, Alive

LEMMA SameHeap == ASSUME heap' = heap PROVE Kept
  BY DEF Kept, SameValue

LEMMA GotKept == ASSUME JsonInv, NEW x, Alive(x), heap' = GetAll(heap, <<x>>) PROVE Kept
  <1>1. HeapOK(heap) /\ IsFiniteSet(DOMAIN <<x>>) /\ \A i \in DOMAIN <<x>> : Alive(<<x>>[i])
    <2>1. <<x>> \in Seq(Obj) /\ \A i \in DOMAIN <<x>> : <<x>>[i] = x
      BY DEF Alive
    <2> QED BY <2>1, SeqDomain, Typed
  <1> QED BY <1>1, Gets DEF Kept, SameValue

LEMMA ReleasedKept == ASSUME JsonInv, Release PROVE Kept
  <1> DEFINE x == Head(puts)
  <1>1. x \in Obj /\ HeapOK(heap)
    BY OwnedAlive, Typed DEF Release, Alive
  <1>2. heap' = [heap EXCEPT ![x].refs = @ - 1] \/ heap' = [heap EXCEPT ![x] = Freed]
    BY DEF Release
  <1>3. Freed.type = "freed" /\ Freed.held = <<>>
    BY DEF Freed
  <1>4. ASSUME NEW z \in Obj
        PROVE  \/ heap'[z].type = "freed" /\ heap'[z].held = <<>>
               \/ SameValue(heap, heap', z)
    <2>1. heap[z] = [type |-> heap[z].type, refs |-> heap[z].refs, held |-> heap[z].held, text |-> heap[z].text]
      BY <1>1 DEF HeapOK, NodeOK
    <2>2. heap = [y \in Obj |-> heap[y]]
      BY <1>1 DEF HeapOK
    <2> HIDE DEF x
    <2>3. CASE heap' = [heap EXCEPT ![x].refs = @ - 1]
      <3>1. heap'[z] = IF z = x THEN [heap[z] EXCEPT !.refs = @ - 1] ELSE heap[z]
        BY <2>2, <2>3
      <3> QED BY <2>1, <3>1 DEF SameValue
    <2>4. CASE heap' = [heap EXCEPT ![x] = Freed]
      <3>1. heap'[z] = IF z = x THEN Freed ELSE heap[z]
        BY <2>2, <2>4
      <3> QED BY <1>3, <3>1 DEF SameValue
    <2> QED BY <1>2, <2>3, <2>4
  <1> QED BY <1>4 DEF Kept

------------------------------------------------------------------------------
(* Steps that leave the metadata file alone.                               *)
LEMMA SameDocument ==
  ASSUME MetaPath \in DOMAIN disk' <=> MetaPath \in DOMAIN disk,
         MetaPath \in DOMAIN disk => disk'[MetaPath] = disk[MetaPath]
  PROVE  /\ OnDisk' = OnDisk /\ Short' = Short
         /\ stored' = stored => DocumentInv' = DocumentInv
  <1>1. MetaPath' = MetaPath
    BY DEF MetaPath
  <1>2. OnDisk' = OnDisk
    BY <1>1 DEF OnDisk
  <1> QED BY <1>2 DEF Short, DocumentInv

(* A step of the handlers in which json_object_put may free something.     *)
LEMMA SameLabels ==
  ASSUME MetaInv, JsonInv', Kept, var \in [Var -> Obj \cup {None}],
         UNCHANGED <<var, disk, kernel, m_fd, handlerVars>>
  PROVE  MetaInv'
  <1>1. UNCHANGED <<var, disk, kernel, m_fd, pc, goal, left, m_meta, field, tok, stored, requests>>
    BY DEF handlerVars
  <1>2. FieldsInv'
    BY <1>1 DEF MetaInv, FieldsInv
  <1> SUFFICES ASSUME pc \notin {"json", "sha", "file"}
               PROVE  DocumentInv' /\ ScalarInv' /\ LabelInv'
    BY <1>1, <1>2 DEF MetaInv
  <1>3. /\ DocumentInv /\ ScalarInv /\ LabelInv
        /\ pc \notin {"parse", "parsed"} => var["raw"] = None
    BY DEF MetaInv
  <1>4. OnDisk' = OnDisk /\ Short' = Short /\ DocumentInv'
    BY <1>1, <1>3, SameDocument
  <1>5. ScalarInv'
    BY <1>3, ScalarsKept
  <1>6. \A v \in Var : \A fields : IsFields(heap, var[v], fields) => IsFields(heap', var[v], fields)
    BY <1>1, VarsAlive, FieldsKept DEF IsFields
  <1>7. \A v \in Var : IsScalar(heap, var[v]) =>
          IsScalar(heap', var[v]) /\ heap'[var[v]].text = heap[var[v]].text
    BY <1>1, VarsAlive, FieldsKept DEF IsScalar
  <1>8. "meta" \in Var /\ "tmp" \in Var /\ "raw" \in Var
    BY Names
  <1>9. AtMeta("in") => AtMeta("in")'
    BY <1>1 DEF AtMeta, Offset, MetaPath
  <1>10. AtMeta("out") => AtMeta("out")'
    BY <1>1 DEF AtMeta, Offset, MetaPath
  <1>11. Offset("in")' = Offset("in") /\ Offset("out")' = Offset("out")
    BY <1>1 DEF Offset
  <1>12. ParseInv => ParseInv'
    BY <1>1, <1>4, <1>6, <1>8, <1>9, <1>11 DEF ParseInv
  <1>13. ParsedInv => ParsedInv'
    BY <1>1, <1>4, <1>6, <1>8 DEF ParsedInv
  <1>14. TakeInv => TakeInv'
    BY <1>1, <1>4, <1>6, <1>8 DEF TakeInv, Taking
  <1>15. TakenInv => TakenInv'
    BY <1>1, <1>4, <1>7, <1>8, <1>14 DEF TakenInv
  <1>16. (DeduceInv => DeduceInv') /\ (LoadedInv => LoadedInv')
    BY <1>1, <1>4 DEF DeduceInv, LoadedInv, Answer, Deduced
  <1>17. \A n : ValueInv(n) => ValueInv(n)'
    BY <1>1, <1>6, <1>8 DEF ValueInv
  <1>18. AddInv => AddInv'
    BY <1>1, <1>7, <1>8, <1>17 DEF AddInv
  <1>19. AddedInv => AddedInv'
    BY <1>1, <1>17 DEF AddedInv
  <1>20. WriteInv => WriteInv'
    BY <1>4, <1>10, <1>11, <1>17 DEF WriteInv
  <1>21. ValueInv(field) => ValueInv(field)'
    BY <1>1, <1>6, <1>8 DEF ValueInv
  <1>22. LabelInv'
    BY <1>1, <1>3, <1>12, <1>13, <1>14, <1>15, <1>16, <1>18, <1>19, <1>20, <1>21 DEF LabelInv
  <1> QED BY <1>4, <1>5, <1>22

(* Labels of which the invariant says nothing.                             *)
Elsewise == {"idle", "dump", "result", "rename", "throw", "log", "close"}
LEMMA NoLabel ==
  ASSUME FieldsInv', DocumentInv', ScalarInv', var'["raw"] = None, pc' \in Elsewise
  PROVE  MetaInv'
  BY DEF MetaInv, LabelInv, Elsewise

LEMMA AtticLeavesMeta ==
  ASSUME MetaInv, StorageInv, LeftInv, LeftInv',
         Update \/ Dump \/ Flush \/ Hash \/ TakeResult \/ ToAttic
  PROVE  MetaInv'
  <1>1. /\ UNCHANGED jsonVars /\ UNCHANGED <<m_meta, field, stored>>
        /\ pc \in Elsewise /\ pc' \in Elsewise
    BY DEF Update, Dump, Flush, Hash, TakeResult, ToAttic, Goto, Stay, WriteHashed, handlerVars, Elsewise
  <1>2. FieldsInv'
    BY <1>1 DEF MetaInv, FieldsInv
  <1>3. DocumentInv /\ ScalarInv /\ var["raw"] = None
    BY <1>1 DEF MetaInv, Elsewise
  <1>4. ScalarInv' /\ var'["raw"] = None
    BY <1>1, <1>3 DEF ScalarInv, jsonVars
  <1>5. \A p \in TmpPath : p # MetaPath
    BY DEF TmpPath, MetaPath
  <1>6. \A hash : ShaPath(hash) # MetaPath
    BY DEF ShaPath, MetaPath
  <1>7. /\ MetaPath \in DOMAIN disk' <=> MetaPath \in DOMAIN disk
        /\ MetaPath \in DOMAIN disk => disk'[MetaPath] = disk[MetaPath]
    <2>1. CASE Update
      <3>1. PICK path \in TmpPath \ DOMAIN disk : OpenForWrite("rand", path)
        BY <2>1 DEF Update, OpenRandom
      <3> QED BY <1>5, <3>1 DEF OpenForWrite, With
    <2>2. CASE Dump \/ Flush
      <3>1. PICK data, count : Write("rand", data, count, 0)
        BY <2>2 DEF Dump, Flush, WriteHashed
      <3>2. PathOf("rand") # MetaPath
        <4>1. PICK p \in TmpPath : CopyAt(p)
          BY <2>2 DEF StorageInv, CopyInv, Dump, Flush
        <4> QED BY <1>5, <4>1 DEF CopyAt, PathOf
      <3>3. \E content : disk' = [disk EXCEPT ![PathOf("rand")] = content]
        BY <3>1 DEF Write
      <3> QED BY <3>2, <3>3
    <2>3. CASE Hash \/ TakeResult
      BY <2>3 DEF Hash, TakeResult, Close, fileVars
    <2>4. CASE ToAttic
      <3>1. PICK p \in TmpPath : CopyAt(p)
        BY <2>4 DEF StorageInv, CopyInv, ToAttic
      <3>2. PathOf("rand") = p
        BY <3>1 DEF CopyAt, PathOf
      <3>3. PICK hash : Rename(p, ShaPath(hash))
        BY <2>4, <3>2 DEF ToAttic
      <3> QED BY <1>5, <1>6, <3>3 DEF Rename, With, Restrict
    <2> QED BY <2>1, <2>2, <2>3, <2>4
  <1>8. DocumentInv'
    BY <1>1, <1>3, <1>7, SameDocument
  <1> QED BY <1>1, <1>2, <1>4, <1>8, NoLabel

------------------------------------------------------------------------------
(* The steps of LoadMeta.                                                  *)
LEMMA Handlers ==
  ASSUME MetaInv, pc \notin {"json", "sha", "file"}
  PROVE  /\ FieldsInv /\ DocumentInv /\ ScalarInv
         /\ pc \notin {"parse", "parsed"} => var["raw"] = None
         /\ LabelInv
  BY DEF MetaInv

LEMMA BufIs == Buf \in Nat
  BY StorageAssumption

LEMMA SameScalars == ASSUME ScalarInv, heap' = heap PROVE ScalarInv'
  BY DEF ScalarInv

LEMMA LoadMetaLeavesMeta ==
  ASSUME MetaInv, StorageInv, NEW for, LoadMeta(for)
  PROVE  MetaInv'
  <1>1. /\ pc = "idle" /\ pc' \in {"parse", "deduce"}
        /\ m_meta' = NoMeta /\ field' = 1 /\ stored' = stored
        /\ pc' = "parse" => tok' = [err |-> "success", have |-> <<>>]
        /\ pc' = "deduce" => tok'.err = "unopened"
        /\ UNCHANGED jsonVars
    BY DEF LoadMeta, Goto
  <1>2. DocumentInv /\ ScalarInv /\ var["raw"] = None /\ FieldsInv
    BY <1>1, Handlers
  <1>3. /\ disk' = disk
        /\ \/ pc' = "parse" /\ MetaPath \in DOMAIN disk /\ Open("in", MetaPath)
           \/ pc' = "deduce"
    BY DEF LoadMeta, Goto, OpenForRead, OpenFails, Close
  <1>4. OnDisk' = OnDisk /\ Short' = Short /\ DocumentInv'
    BY <1>1, <1>2, <1>3, SameDocument
  <1>5. ScalarInv' /\ var'["raw"] = None
    BY <1>1, <1>2, SameScalars DEF jsonVars
  <1>6. FieldsInv'
    BY <1>1, <1>2, NoMetaIs, FieldIs DEF FieldsInv
  <1>7. CASE pc' = "parse"
    <2>1. /\ m_fd'["in"] \in DOMAIN kernel'
          /\ kernel'[m_fd'["in"]] = [path |-> MetaPath, offset |-> 0]
      BY <1>3, <1>7, StorageSizes, Opens DEF StorageInv
    <2>2. Offset("in")' = 0
      BY <2>1 DEF Offset
    <2>3. AtMeta("in")'
      BY <1>3, <1>7, <2>1, <2>2 DEF AtMeta, MetaPath
    <2>4. <<>> \in Seq(MetaCell)
      OBVIOUS
    <2>5. tok'.err = "success" /\ tok'.have = <<>>
      BY <1>1, <1>7
    <2>6. ParseInv'
      BY <1>1, <1>5, <2>2, <2>3, <2>4, <2>5 DEF ParseInv, NoMeta
    <2> QED BY <1>4, <1>5, <1>6, <1>7, <2>6 DEF MetaInv, LabelInv
  <1>8. CASE pc' = "deduce"
    <2>1. DeduceInv'
      BY <1>1, <1>8, NoMetaIs DEF DeduceInv, Answer, Deduced, NoMeta, Meta
    <2> QED BY <1>4, <1>5, <1>6, <1>8, <2>1 DEF MetaInv, LabelInv
  <1> QED BY <1>1, <1>7, <1>8

(* The tokener makes the object of the fields it has got.                  *)
LEMMA TokenizedHeap ==
  ASSUME JsonInv, ScalarInv, NEW v \in Var, NEW fields, Tokenize(v, fields),
         \A k \in DOMAIN fields : fields[k] \in Nat
  PROVE  /\ IsFields(heap', Fresh, fields) /\ var' = [var EXCEPT ![v] = Fresh] /\ Fresh \in Obj
         /\ ScalarInv'
  <1> DEFINE held == CHOOSE f \in Injection(DOMAIN fields, Spare \ {Fresh}) : TRUE
  <1>1. /\ Spare # {} /\ held \in Injection(DOMAIN fields, Spare \ {Fresh})
        /\ heap' = Document(fields, held) /\ var' = [var EXCEPT ![v] = Fresh]
    BY DEF Tokenize
  <1> HIDE DEF held
  <1>2. /\ held \in [DOMAIN fields -> Spare \ {Fresh}] /\ DOMAIN held = DOMAIN fields
        /\ \A i, j \in DOMAIN fields : held[i] = held[j] => i = j
    BY <1>1 DEF Injection, IsInjective
  <1>3. Fresh \in Obj /\ Fresh \in Spare
    BY <1>1, FreshIs DEF Fresh
  <1>4. \A k \in DOMAIN fields : held[k] \in Obj /\ held[k] # Fresh /\ held[k] \in Spare
    BY <1>2 DEF Spare
  <1>5. \A z \in Obj : z \in Range(held) <=> \E k \in DOMAIN fields : held[k] = z
    BY <1>2 DEF Range
  <1>6. heap'[Fresh].type = "object" /\ heap'[Fresh].held = held
    <2>1. heap'[Fresh] = Node("object", held, None)
      BY <1>1, <1>3 DEF Document
    <2> QED BY <2>1 DEF Node
  <1>7. ASSUME NEW k \in DOMAIN fields
        PROVE  LET node == heap'[held[k]]
               IN node.type = "scalar" /\ node.held = <<>> /\ node.text = fields[k]
    <2>1. held[k] \in Range(held) /\ held[k] \in Obj /\ held[k] # Fresh
      BY <1>4, <1>5
    <2>2. (CHOOSE j \in DOMAIN fields : held[j] = held[k]) = k
      BY <1>2
    <2>3. heap'[held[k]] = Node("scalar", <<>>, fields[k])
      BY <1>1, <2>1, <2>2 DEF Document
    <2> QED BY <2>3 DEF Node
  <1>8. ASSUME NEW z \in Obj, z \notin Spare PROVE heap'[z] = heap[z]
    <2>1. z # Fresh /\ z \notin Range(held)
      BY <1>3, <1>4, <1>5, <1>8
    <2> QED BY <1>1, <2>1 DEF Document
  <1>9. ASSUME NEW z \in Obj, z \in Spare, z # Fresh, z \notin Range(held)
        PROVE  heap'[z] = heap[z] /\ heap[z].type = "freed" /\ heap[z].held = <<>>
    <2>1. heap[z].type = "freed" /\ NodeOK(heap[z])
      BY <1>9, Typed DEF HeapOK, Spare, Live
    <2> QED BY <1>1, <1>9, <2>1 DEF Document, NodeOK
  <1>10. IsFields(heap', Fresh, fields)
    BY <1>2, <1>3, <1>6, <1>7 DEF IsFields
  <1>11. ASSUME NEW x \in Obj, NEW k \in DOMAIN heap'[x].held
         PROVE  heap'[heap'[x].held[k]].type = "scalar"
    <2>1. CASE x = Fresh
      BY <1>2, <1>6, <1>7, <1>11, <2>1
    <2>2. CASE x # Fresh /\ x \in Range(held)
      <3>1. heap'[x].held = <<>>
        <4>1. PICK j \in DOMAIN fields : held[j] = x
          BY <1>5, <2>2
        <4> QED BY <1>7, <4>1
      <3> QED BY <1>11, <3>1
    <2>3. CASE x \in Spare /\ x # Fresh /\ x \notin Range(held)
      <3>1. heap'[x].held = <<>>
        BY <1>9, <2>3
      <3> QED BY <1>11, <3>1
    <2>4. CASE x \notin Spare
      <3>1. heap'[x] = heap[x]
        BY <1>8, <2>4
      <3>2. Alive(heap[x].held[k]) /\ heap[heap[x].held[k]].type = "scalar"
        BY <1>11, <3>1, AliveIs DEF AllAlive, ScalarInv
      <3>3. heap[x].held[k] \in Obj /\ heap[x].held[k] \notin Spare
        BY <3>2 DEF Alive, Spare, Live
      <3> QED BY <1>8, <3>1, <3>2, <3>3
    <2> QED BY <2>1, <2>2, <2>3, <2>4
  <1>12. ASSUME NEW x \in Obj, heap'[x].type = "scalar" PROVE heap'[x].text \in Nat
    <2>1. CASE x = Fresh
      BY <1>6, <1>12, <2>1
    <2>2. CASE x # Fresh /\ x \in Range(held)
      <3>1. PICK k \in DOMAIN fields : held[k] = x
        BY <1>5, <2>2
      <3> QED BY <1>7, <3>1
    <2>3. CASE x \in Spare /\ x # Fresh /\ x \notin Range(held)
      BY <1>9, <1>12, <2>3
    <2>4. CASE x \notin Spare
      BY <1>8, <1>12, <2>4 DEF ScalarInv
    <2> QED BY <2>1, <2>2, <2>3, <2>4
  <1> QED BY <1>1, <1>3, <1>10, <1>11, <1>12 DEF ScalarInv

LEMMA ReadsAhead ==
  ASSUME DocumentInv, AtMeta("in"), Offset("in") \in Nat, Read("in", Buf)
  PROVE  /\ Ahead("in", Buf) \in Seq(MetaCell) /\ ReadCount("in", Buf) \in Nat
         /\ AtMeta("in")' /\ Offset("in")' = Offset("in") + ReadCount("in", Buf)
         /\ ReadCount("in", Buf) = 0 => Len(OnDisk) <= Offset("in") \/ Buf = 0
         /\ Short /\ Offset("in") = 0 =>
              ReadCount("in", Buf) = Len(OnDisk) /\ Ahead("in", Buf) = OnDisk
         /\ Offset("in") = Len(OnDisk) => ReadCount("in", Buf) = 0
  <1> DEFINE offset == Offset("in")
             count == ReadCount("in", Buf)
             fd == m_fd["in"]
  <1>1. PathOf("in") = MetaPath /\ Content("in") = OnDisk
    BY DEF AtMeta, PathOf, Content, OnDisk
  <1>2. OnDisk \in Seq(MetaCell) /\ Len(OnDisk) \in Nat /\ Buf \in Nat
    BY BufIs DEF DocumentInv
  <1>3. count = IF Len(OnDisk) - offset <= 0 THEN 0
                ELSE IF Len(OnDisk) - offset < Buf THEN Len(OnDisk) - offset ELSE Buf
    BY <1>1 DEF ReadCount
  <1>4. Ahead("in", Buf) = SubSeq(OnDisk, offset + 1, offset + count)
    BY <1>1 DEF Ahead
  <1>5. /\ fd \in DOMAIN kernel /\ kernel[fd] = [path |-> MetaPath, offset |-> offset]
        /\ kernel' = [kernel EXCEPT ![fd].offset = offset + count]
        /\ disk' = disk /\ m_fd' = m_fd /\ MetaPath \in DOMAIN disk
    BY DEF AtMeta, Read, MoveTo
  <1> HIDE DEF offset, count, fd
  <1>6. offset \in Nat
    BY DEF offset
  <1>7. count \in Nat /\ (count = 0 \/ offset + count <= Len(OnDisk))
    BY <1>2, <1>3, <1>6
  <1>8. SubSeq(OnDisk, offset + 1, offset + count) \in Seq(MetaCell)
    <2>1. ASSUME NEW i \in offset + 1 .. offset + count PROVE i \in 1 .. Len(OnDisk)
      BY <1>2, <1>6, <1>7
    <2> QED BY <1>2, <1>6, <1>7, <2>1, SubSeqProperties
  <1>9. count = 0 => Len(OnDisk) <= offset \/ Buf = 0
    BY <1>2, <1>3, <1>6
  <1>10. offset = Len(OnDisk) => count = 0
    BY <1>2, <1>3
  <1>11. Short /\ offset = 0 => count = Len(OnDisk)
    BY <1>2, <1>3 DEF Short
  <1>12. SubSeq(OnDisk, 1, Len(OnDisk)) = OnDisk
    BY <1>2
  <1>13. Short /\ offset = 0 => SubSeq(OnDisk, offset + 1, offset + count) = OnDisk
    <2>1. ASSUME Short, offset = 0 PROVE offset + 1 = 1 /\ offset + count = Len(OnDisk)
      BY <1>2, <1>11, <2>1
    <2> QED BY <1>12, <2>1
  <1>14. kernel'[fd] = [path |-> MetaPath, offset |-> offset + count] /\ fd \in DOMAIN kernel'
    BY <1>5
  <1>15. AtMeta("in")' /\ Offset("in")' = offset + count
    <2>1. m_fd'["in"] = fd
      BY <1>5 DEF fd
    <2> QED BY <1>5, <1>14, <2>1 DEF AtMeta, Offset, MetaPath
  <1> QED BY <1>4, <1>7, <1>8, <1>9, <1>10, <1>11, <1>13, <1>15 DEF offset, count

LEMMA ScannedIs ==
  ASSUME NEW cells \in Seq(MetaCell)
  PROVE  /\ Scanned(cells).have \in Seq(MetaCell)
         /\ Scanned(cells).err \in {"success", "continue"}
         /\ Scanned(cells).err = "success" <=> Ket \in Range(cells)
         /\ Scanned(cells).err = "success" => Scanned(cells) = [err |-> "success", have |-> <<>>]
  <1>1. Ket # Space
    BY DEF Ket, Space
  <1>2. Range(cells) \subseteq {Space} => Ket \notin Range(cells)
    BY <1>1
  <1>3. <<>> \in Seq(MetaCell)
    OBVIOUS
  <1>4. CASE Range(cells) \subseteq {Space}
    BY <1>2, <1>3, <1>4 DEF Scanned
  <1>5. CASE ~(Range(cells) \subseteq {Space}) /\ Ket \notin Range(cells)
    BY <1>5 DEF Scanned
  <1>6. CASE ~(Range(cells) \subseteq {Space}) /\ Ket \in Range(cells)
    BY <1>3, <1>6 DEF Scanned
  <1> QED BY <1>2, <1>4, <1>5, <1>6

LEMMA ParseLeavesMeta ==
  ASSUME MetaInv, LeftInv, LeftInv', Parse
  PROVE  MetaInv'
  <1> DEFINE cells == tok.have \o Ahead("in", Buf)
             count == ReadCount("in", Buf)
  <1>1. /\ pc = "parse" /\ Read("in", Buf)
        /\ UNCHANGED <<m_meta, field, stored>>
        /\ pc' \in {"parse", "parsed"}
    BY DEF Parse, Goto
  <1>2. FieldsInv /\ DocumentInv /\ ScalarInv /\ ParseInv
    BY <1>1, Handlers DEF LabelInv
  <1>3. disk' = disk
    BY <1>1 DEF Read
  <1>4. OnDisk' = OnDisk /\ Short' = Short /\ DocumentInv' /\ FieldsInv'
    BY <1>1, <1>2, <1>3, SameDocument DEF FieldsInv
  <1>5. AtMeta("in") /\ Offset("in") \in Nat /\ tok.have \in Seq(MetaCell) /\ m_meta = NoMeta /\ field = 1
    BY <1>2 DEF ParseInv
  <1>6. /\ Ahead("in", Buf) \in Seq(MetaCell) /\ count \in Nat
        /\ AtMeta("in")' /\ Offset("in")' = Offset("in") + count
        /\ Short /\ Offset("in") = 0 => count = Len(OnDisk) /\ Ahead("in", Buf) = OnDisk
        /\ Offset("in") = Len(OnDisk) => count = 0
    BY <1>1, <1>2, <1>5, ReadsAhead
  <1>7. cells \in Seq(MetaCell)
    BY <1>5, <1>6
  <1>8. /\ OnDisk \in Seq(MetaCell) /\ Len(OnDisk) \in Nat
        /\ Ket \in Range(OnDisk) => Whole(OnDisk)
        /\ Whole(OnDisk) => Ket \in Range(OnDisk) /\ OnDisk # <<>>
    <2>1. Ket \in Range(OnDisk) => OnDisk # <<>>
      BY DEF Range
    <2> QED BY <1>2, <2>1 DEF DocumentInv, Whole
  <1>9. JsonInv /\ JsonInv' /\ "raw" \in Var /\ var \in [Var -> Obj \cup {None}]
    BY Names, Typed DEF LeftInv
  <1>10. CASE count = 0
    <2>1. pc' = "parsed" /\ tok' = tok /\ UNCHANGED jsonVars
      BY <1>10 DEF Parse, Goto
    <2>2. ScalarInv' /\ var' = var /\ heap' = heap
      BY <1>2, <2>1, SameScalars DEF jsonVars
    <2>4. ASSUME Short
          PROVE  \/ ~Whole(OnDisk) /\ var["raw"] = None
                 \/ /\ Whole(OnDisk) /\ tok.err = "success"
                    /\ IsFields(heap, var["raw"], FieldsOf(OnDisk))
      <3>1. CASE Offset("in") = 0 /\ var["raw"] = None
        <4>1. Len(OnDisk) = 0
          BY <1>6, <1>10, <2>4, <3>1
        <4> QED BY <1>8, <3>1, <4>1
      <3>2. CASE ~(Offset("in") = 0 /\ var["raw"] = None)
        BY <1>2, <2>4, <3>2 DEF ParseInv
      <3> QED BY <3>1, <3>2
    <2>5. tok.err = "success"
      BY <1>2 DEF ParseInv
    <2>6. ParsedInv'
      BY <1>1, <1>4, <1>5, <2>1, <2>2, <2>4, <2>5 DEF ParsedInv, NoMeta
    <2> QED BY <1>4, <2>1, <2>2, <2>6 DEF MetaInv, LabelInv
  <1>11. CASE count # 0
    <2>1. /\ tok' = Scanned(cells)
          /\ IF tok'.err = "success"
             THEN Tokenize("raw", FieldsOf(cells)) /\ pc' = "parse"
             ELSE Forget /\ heap' = heap /\ pc' = "parsed"
      BY <1>11 DEF Parse, Goto
    <2>2. Short => cells = OnDisk /\ Offset("in") = 0 /\ count = Len(OnDisk)
      <3>1. ASSUME Short PROVE Offset("in") = 0 /\ tok.have = <<>>
        BY <1>2, <1>6, <1>11, <3>1 DEF ParseInv
      <3>2. <<>> \o OnDisk = OnDisk
        BY <1>8
      <3> QED BY <1>6, <3>1, <3>2
    <2> HIDE DEF cells, count
    <2>3. /\ tok'.have \in Seq(MetaCell)
          /\ tok'.err \in {"success", "continue"}
          /\ tok'.err = "success" <=> Ket \in Range(cells)
      BY <1>7, <2>1, ScannedIs
    <2>4. CASE tok'.err = "success"
      <3>1. Tokenize("raw", FieldsOf(cells)) /\ pc' = "parse"
        BY <2>1, <2>4
      <3>2. \A k \in DOMAIN FieldsOf(cells) : FieldsOf(cells)[k] \in Nat
        BY <1>7, FieldsNat
      <3>3. /\ IsFields(heap', Fresh, FieldsOf(cells)) /\ var' = [var EXCEPT !["raw"] = Fresh]
            /\ ScalarInv'
        BY <1>2, <1>9, <3>1, <3>2, TokenizedHeap
      <3>4. IsFields(heap', var'["raw"], FieldsOf(cells))
        BY <1>9, <3>3
      <3>5. Short => /\ Offset("in")' = Len(OnDisk) /\ Whole(OnDisk)
                     /\ IsFields(heap', var'["raw"], FieldsOf(OnDisk))
        BY <1>6, <1>8, <2>2, <2>3, <2>4, <3>4 DEF count
      <3>6. ParseInv'
        BY <1>1, <1>4, <1>5, <1>6, <2>3, <2>4, <3>5 DEF ParseInv, NoMeta
      <3> QED BY <1>4, <3>1, <3>3, <3>6 DEF MetaInv, LabelInv
    <2>5. CASE tok'.err # "success"
      <3>1. pc' = "parsed" /\ heap' = heap /\ var' = [var EXCEPT !["raw"] = None]
        BY <2>1, <2>5 DEF Forget
      <3>2. var'["raw"] = None /\ ScalarInv'
        BY <1>2, <1>9, <3>1, SameScalars
      <3>3. Short => ~Whole(OnDisk)
        BY <1>8, <2>2, <2>3, <2>5
      <3>4. ParsedInv'
        BY <1>1, <1>4, <1>5, <2>3, <3>2, <3>3 DEF ParsedInv, NoMeta
      <3> QED BY <1>4, <3>1, <3>2, <3>4 DEF MetaInv, LabelInv
    <2> QED BY <2>4, <2>5
  <1> QED BY <1>10, <1>11

LEMMA NoneBefore ==
  /\ Before(1) = {}
  /\ \A fields : Partly(fields, 1) = NoMeta
  <1>1. Before(1) = {}
    BY DEF Before
  <1> QED BY <1>1 DEF Partly, NoMeta

LEMMA ParsedLeavesMeta ==
  ASSUME MetaInv, LeftInv, Parsed
  PROVE  MetaInv'
  <1>1. /\ pc = "parsed" /\ UNCHANGED <<m_meta, field, stored, tok>> /\ disk' = disk /\ heap' = heap
    BY DEF Parsed, Stay, fileVars, jsonVars
  <1>2. FieldsInv /\ DocumentInv /\ ScalarInv /\ ParsedInv
    BY <1>1, Handlers DEF LabelInv
  <1>3. OnDisk' = OnDisk /\ Short' = Short /\ DocumentInv' /\ FieldsInv' /\ ScalarInv'
    BY <1>1, <1>2, SameDocument, SameScalars DEF FieldsInv
  <1>4. var \in [Var -> Obj \cup {None}] /\ "raw" \in Var /\ "meta" \in Var
    BY Names, Typed DEF LeftInv
  <1>5. CASE tok.err = "success" /\ InScope("raw")
    <2>1. pc' = "take" /\ var' = [var EXCEPT !["raw"] = None, !["meta"] = var["raw"]]
      BY <1>5 DEF Parsed, Goto
    <2>2. var["raw"] \in Obj
      BY <1>4, <1>5 DEF InScope
    <2>3. var'["meta"] = var["raw"] /\ var'["raw"] = None
      BY <1>4, <2>1
    <2>4. Short => /\ Whole(OnDisk) /\ IsFields(heap, var["raw"], FieldsOf(OnDisk))
      BY <1>2, <1>5 DEF ParsedInv, InScope
    <2>5. m_meta' = NoMeta /\ field' = 1 /\ m_meta' \in Meta
      BY <1>1, <1>2, NoMetaIs DEF ParsedInv
    <2>6. Short => Taking(FieldsOf(OnDisk))'
      BY <1>1, <1>3, <2>3, <2>4, <2>5, NoneBefore DEF Taking
    <2>7. TakeInv'
      BY <1>1, <1>3, <1>5, <2>2, <2>3, <2>5, <2>6 DEF TakeInv
    <2> QED BY <1>3, <2>1, <2>3, <2>7 DEF MetaInv, LabelInv
  <1>6. CASE ~(tok.err = "success" /\ InScope("raw"))
    <2>1. pc' = "caught" /\ var' = var
      BY <1>6 DEF Parsed, Goto, jsonVars
    <2>2. var["raw"] = None
      BY <1>2, <1>6 DEF ParsedInv, InScope
    <2>3. m_meta = NoMeta /\ (Short => ~Whole(OnDisk))
      <3>1. ASSUME Short PROVE ~Whole(OnDisk)
        BY <1>2, <1>6, <2>2, <3>1, JsonAssumption DEF ParsedInv, IsFields
      <3> QED BY <1>2, <3>1 DEF ParsedInv
    <2>4. Short => Deduced(NoMeta) = Answer
      BY <1>2, <2>3, SaidIs DEF DocumentInv, ParsedInv, Answer
    <2>5. DeduceInv'
      BY <1>1, <1>3, <2>3, <2>4, NoMetaIs DEF DeduceInv, Deduced, Answer
    <2> QED BY <1>3, <2>1, <2>2, <2>5 DEF MetaInv, LabelInv
  <1> QED BY <1>5, <1>6

LEMMA BeforeIs ==
  /\ Before(5) = Range(Field)
  /\ \A n \in 1 .. 4 : Before(n + 1) = Before(n) \cup {Field[n]} /\ Field[n] \notin Before(n)
  /\ \A n \in 1 .. 5 : Before(n) \subseteq Range(Field)
  <1>1. ASSUME NEW n \in 1 .. 4
        PROVE  Before(n + 1) = Before(n) \cup {Field[n]} /\ Field[n] \notin Before(n)
    <2>1. 1 .. n + 1 - 1 = (1 .. n - 1) \cup {n} /\ 1 .. n - 1 \subseteq 1 .. 4 /\ n \notin 1 .. n - 1
      OBVIOUS
    <2>2. \A i \in 1 .. n - 1 : i \in 1 .. 4 /\ Field[i] # Field[n]
      BY <2>1, FieldIs
    <2> QED BY <2>1, <2>2 DEF Before
  <1>2. Before(5) = Range(Field)
    <2>1. 5 - 1 = 4
      OBVIOUS
    <2> QED BY <2>1, FieldIs DEF Before, Range
  <1>3. ASSUME NEW n \in 1 .. 5 PROVE Before(n) \subseteq Range(Field)
    <2>1. 1 .. n - 1 \subseteq 1 .. 4
      OBVIOUS
    <2> QED BY <2>1, FieldIs DEF Before
  <1> QED BY <1>1, <1>2, <1>3

(* LoadMeta gives up at the first field a document lacks, and then has all *)
(* that a document without a gap says.                                     *)
LEMMA SaidTaken ==
  ASSUME NEW cells \in Seq(MetaCell), Whole(cells), ~Gap(cells), NEW n \in 1 .. 5,
         Before(n) \subseteq DOMAIN FieldsOf(cells), n = 5 \/ Field[n] \notin DOMAIN FieldsOf(cells)
  PROVE  Said(cells) = Deduced(Partly(FieldsOf(cells), n))
  <1> DEFINE fields == FieldsOf(cells)
             said == [k \in Range(Field) |->
                        IF Whole(cells) /\ k \in DOMAIN fields THEN fields[k] ELSE 0]
  <1>1. Said(cells) = Deduced(said)
    BY DEF Said
  <1>2. \A i, j \in 1 .. 4 : i < j /\ Field[i] \notin DOMAIN fields => Field[j] \notin DOMAIN fields
    BY FieldIs DEF Gap
  <1> HIDE DEF fields
  <1>3. ASSUME NEW k \in Range(Field) PROVE k \in DOMAIN fields <=> k \in Before(n)
    <2>1. PICK i \in 1 .. 4 : Field[i] = k
      BY FieldIs
    <2>2. CASE i < n
      BY <2>1, <2>2 DEF Before, fields
    <2>3. CASE ~(i < n)
      <3>1. n \in 1 .. 4 /\ (i = n \/ n < i) /\ Field[n] \notin DOMAIN fields
        BY <2>3 DEF fields
      <3>2. k \notin DOMAIN fields
        BY <1>2, <2>1, <3>1
      <3> QED BY <3>2 DEF fields
    <2> QED BY <2>2, <2>3
  <1>4. said = Partly(fields, n)
    BY <1>3 DEF Partly
  <1> QED BY <1>1, <1>4 DEF fields

LEMMA TakeLeavesMeta ==
  ASSUME MetaInv, LeftInv, LeftInv', Take
  PROVE  MetaInv'
  <1>1. /\ pc = "take" /\ UNCHANGED <<m_meta, field, tok, stored>> /\ disk' = disk
    BY DEF Take, Stay, fileVars
  <1>2. FieldsInv /\ DocumentInv /\ ScalarInv /\ TakeInv /\ var["raw"] = None
    BY <1>1, Handlers DEF LabelInv
  <1>3. OnDisk' = OnDisk /\ Short' = Short /\ DocumentInv' /\ FieldsInv'
    BY <1>1, <1>2, SameDocument DEF FieldsInv
  <1>4. /\ var \in [Var -> Obj \cup {None}] /\ "raw" \in Var /\ "meta" \in Var /\ "tmp" \in Var
        /\ JsonInv /\ JsonInv' /\ var["meta"] \in Obj /\ InScope("meta") /\ field \in 1 .. 5
    BY <1>2, Names, Typed, JsonAssumption, FieldIs DEF LeftInv, TakeInv, InScope, FieldsInv
  <1>5. CASE field <= Len(Field) /\ Member("meta", Field[field]) # {}
    <2> DEFINE key == Field[field]
    <2>1. pc' = "taken" /\ Subscript("tmp", "meta", key) /\ field <= Len(Field)
      BY <1>5 DEF Take, Goto
    <2>2. PICK x \in Member("meta", key) : Own("tmp", x)
      BY <2>1 DEF Subscript
    <2>3. heap' = GetAll(heap, <<x>>) /\ var' = [var EXCEPT !["tmp"] = x]
      BY <2>2 DEF Own
    <2>4. key \in DOMAIN heap[var["meta"]].held /\ x = heap[var["meta"]].held[key]
      BY <2>2 DEF Member, At
    <2>5. Alive(x)
      BY <1>4, <2>2, HeldAlive
    <2>6. var'["meta"] = var["meta"] /\ var'["raw"] = None /\ var'["tmp"] = x
      BY <1>2, <1>4, <2>3
    <2>7. Kept
      BY <1>4, <2>3, <2>5, GotKept
    <2>8. heap'[x].type # "freed" /\ heap'[var["meta"]].type # "freed"
      BY <1>4, <2>5, <2>6, VarsAlive DEF Alive
    <2>9. IsScalar(heap, x)
      BY <1>2, <1>4, <2>4, <2>5 DEF ScalarInv, IsScalar, Alive
    <2> HIDE DEF key
    <2>10. IsScalar(heap', x) /\ heap'[x].text = heap[x].text
      BY <1>4, <2>7, <2>8, <2>9, FieldsKept
    <2>11. \A fields : IsFields(heap, var["meta"], fields) => IsFields(heap', var["meta"], fields)
      BY <1>4, <2>7, <2>8, FieldsKept
    <2>12. ScalarInv'
      BY <1>2, <1>4, <2>7, ScalarsKept
    <2>13. TakeInv'
      BY <1>1, <1>2, <1>3, <2>6, <2>11 DEF TakeInv, Taking
    <2>14. Short => key \in DOMAIN FieldsOf(OnDisk) /\ heap[x].text = FieldsOf(OnDisk)[key]
      BY <1>2, <2>4 DEF TakeInv, Taking, IsFields
    <2>15. TakenInv'
      BY <1>1, <1>3, <2>1, <2>6, <2>10, <2>13, <2>14 DEF TakenInv, key, Field
    <2> QED BY <1>3, <2>1, <2>6, <2>12, <2>15 DEF MetaInv, LabelInv
  <1>6. CASE ~(field <= Len(Field) /\ Member("meta", Field[field]) # {})
    <2>1. pc' = "caught" /\ Destroy("meta")
      BY <1>6 DEF Take, Goto
    <2>2. heap' = heap /\ var' = [var EXCEPT !["meta"] = None]
      BY <2>1 DEF Destroy
    <2>3. ScalarInv' /\ var'["raw"] = None
      BY <1>2, <1>4, <2>2, SameScalars
    <2>4. ASSUME Short PROVE Deduced(m_meta) = Answer
      <3>1. Taking(FieldsOf(OnDisk))
        BY <1>2, <2>4 DEF TakeInv
      <3>2. field = 5 \/ Field[field] \notin DOMAIN FieldsOf(OnDisk)
        BY <1>4, <1>6, <3>1, FieldIs DEF Taking, IsFields, Member, Is, At
      <3>3. Said(OnDisk) = Deduced(Partly(FieldsOf(OnDisk), field))
        BY <1>2, <1>4, <2>4, <3>1, <3>2, SaidTaken DEF Taking, DocumentInv, Short
      <3> QED BY <1>2, <3>1, <3>3 DEF Taking, DocumentInv, TakeInv, Answer
    <2>5. DeduceInv'
      BY <1>1, <1>2, <1>3, <2>4 DEF DeduceInv, TakeInv, Deduced, Answer
    <2> QED BY <1>3, <2>1, <2>3, <2>5 DEF MetaInv, LabelInv
  <1> QED BY <1>5, <1>6

LEMMA TakenLeavesMeta ==
  ASSUME MetaInv, LeftInv, Taken
  PROVE  MetaInv'
  <1> DEFINE key == Field[field]
             text == heap[var["tmp"]].text
  <1>1. /\ pc = "taken" /\ pc' = "take" /\ UNCHANGED <<stored, tok>> /\ disk' = disk
        /\ m_meta' = [m_meta EXCEPT ![key] = text] /\ field' = field + 1 /\ Destroy("tmp")
    BY DEF Taken, Goto, fileVars
  <1>2. FieldsInv /\ DocumentInv /\ ScalarInv /\ TakenInv /\ var["raw"] = None
    BY <1>1, Handlers DEF LabelInv
  <1>3. OnDisk' = OnDisk /\ Short' = Short /\ DocumentInv'
    BY <1>1, <1>2, SameDocument
  <1>4. heap' = heap /\ var' = [var EXCEPT !["tmp"] = None]
    BY <1>1 DEF Destroy
  <1>5. /\ var \in [Var -> Obj \cup {None}] /\ "raw" \in Var /\ "meta" \in Var /\ "tmp" \in Var
    BY Names, Typed DEF LeftInv
  <1>6. var'["meta"] = var["meta"] /\ var'["raw"] = None /\ ScalarInv'
    BY <1>2, <1>4, <1>5, SameScalars
  <1>7. field \in 1 .. 4 /\ key \in Range(Field) /\ text \in Nat /\ m_meta \in Meta /\ var["meta"] \in Obj
    BY <1>2, FieldIs DEF TakenInv, TakeInv, FieldsInv, IsScalar, ScalarInv
  <1> HIDE DEF key, text
  <1>8. m_meta' \in Meta
    BY <1>1, <1>7 DEF Meta
  <1>9. FieldsInv'
    BY <1>1, <1>2, <1>7, <1>8, FieldIs DEF FieldsInv
  <1>10. ASSUME Short PROVE Taking(FieldsOf(OnDisk))'
    <2> DEFINE fields == FieldsOf(OnDisk)
    <2>1. /\ Taking(fields) /\ key \in DOMAIN fields /\ text = fields[key]
      BY <1>2, <1>10 DEF TakenInv, TakeInv, key, text
    <2> HIDE DEF fields
    <2>2. Before(field + 1) = Before(field) \cup {key} /\ key \notin Before(field)
      BY <1>7, BeforeIs DEF key
    <2>3. m_meta' = Partly(fields, field + 1)
      <3>1. m_meta = Partly(fields, field) /\ m_meta' \in [Range(Field) -> Nat]
        BY <1>8, <2>1 DEF Taking, Meta
      <3>2. ASSUME NEW k \in Range(Field)
            PROVE  m_meta'[k] = IF k \in Before(field + 1) THEN fields[k] ELSE 0
        BY <1>1, <1>7, <2>1, <2>2, <3>1 DEF Partly
      <3> QED BY <3>1, <3>2 DEF Partly
    <2>4. fields = FieldsOf(OnDisk)'
      BY <1>3 DEF fields
    <2>5. Before(field)' \subseteq DOMAIN fields /\ Partly(fields, field + 1) = Partly(fields, field')
      BY <1>1, <2>1, <2>2 DEF Taking, Before
    <2>6. IsFields(heap', var'["meta"], fields) /\ Whole(OnDisk)'
      BY <1>3, <1>4, <1>6, <2>1 DEF Taking
    <2> QED BY <2>3, <2>4, <2>5, <2>6 DEF Taking
  <1>11. TakeInv'
    BY <1>1, <1>2, <1>3, <1>6, <1>7, <1>8, <1>10 DEF TakeInv, TakenInv
  <1> QED BY <1>1, <1>3, <1>6, <1>9, <1>11 DEF MetaInv, LabelInv

LEMMA NonZero ==
  ASSUME NEW meta, Complete(meta)
  PROVE  meta \in Meta /\ \A k \in Range(Field) : k # "sequence" => meta[k] # 0
  <1>1. meta \in Meta /\ Deduced(meta) = meta
    BY DEF Complete
  <1> QED BY <1>1, DeducedIs

LEMMA CaughtLeavesMeta ==
  ASSUME MetaInv, StorageInv, Caught \/ Deduce
  PROVE  MetaInv'
  <1>1. /\ pc \in {"caught", "deduce"} /\ UNCHANGED <<field, tok, stored>>
        /\ UNCHANGED jsonVars /\ disk' = disk
    BY DEF Caught, Deduce, Stay, Close, fileVars
  <1>2. FieldsInv /\ DocumentInv /\ ScalarInv /\ DeduceInv /\ var["raw"] = None
    BY <1>1, Handlers DEF LabelInv
  <1>3. OnDisk' = OnDisk /\ Short' = Short /\ DocumentInv' /\ ScalarInv' /\ var'["raw"] = None
    BY <1>1, <1>2, SameDocument, SameScalars DEF jsonVars
  <1>4. CASE Caught
    <2>1. pc' = "deduce" /\ m_meta' = m_meta
      BY <1>4 DEF Caught, Goto, Stay
    <2>2. FieldsInv'
      BY <1>1, <1>2, <2>1 DEF FieldsInv
    <2>3. DeduceInv'
      BY <1>1, <1>2, <1>3, <2>1 DEF DeduceInv, Answer, Deduced
    <2> QED BY <1>3, <2>1, <2>2, <2>3 DEF MetaInv, LabelInv
  <1>5. CASE Deduce
    <2>1. pc' = "loaded" /\ m_meta' = Deduced(m_meta) /\ m_meta \in Meta
      BY <1>2, <1>5 DEF Deduce, Goto, DeduceInv
    <2>2. Complete(m_meta') /\ m_meta' \in Meta
      BY <2>1, DeducedIs DEF Complete
    <2>3. FieldsInv'
      BY <1>1, <1>2, <2>2 DEF FieldsInv
    <2>4. Complete(m_meta)'
      BY <2>2 DEF Complete, Deduced
    <2>5. LoadedInv'
      BY <1>1, <1>2, <1>3, <2>1, <2>4 DEF LoadedInv, DeduceInv, Answer
    <2> QED BY <1>3, <2>1, <2>3, <2>5 DEF MetaInv, LabelInv
  <1> QED BY <1>4, <1>5

------------------------------------------------------------------------------
(* The steps of SaveMeta.                                                  *)
LEMMA NewIs ==
  ASSUME JsonInv, ScalarInv, NEW v \in Var, NEW type \in {"object", "scalar"}, NEW text,
         type = "scalar" => text \in Nat, New(v, Node(type, <<>>, text))
  PROVE  /\ Fresh \in Obj /\ var' = [var EXCEPT ![v] = Fresh]
         /\ heap'[Fresh].type = type /\ heap'[Fresh].held = <<>> /\ heap'[Fresh].text = text
         /\ \A z \in Obj : Alive(z) => SameValue(heap, heap', z)
         /\ ScalarInv'
  <1> DEFINE node == Node(type, <<>>, text)
             g == GetAll(heap, <<>>)
  <1>1. node.type = type /\ node.held = <<>> /\ node.text = text
    BY DEF Node
  <1>2. /\ Spare # {} /\ var' = [var EXCEPT ![v] = Fresh]
        /\ heap' = [GetAll(heap, node.held) EXCEPT ![Fresh] = node]
    BY DEF New
  <1>3. heap' = [g EXCEPT ![Fresh] = node]
    BY <1>1, <1>2
  <1>4. Fresh \in Obj /\ ~Alive(Fresh)
    BY <1>2, FreshIs
  <1>5. HeapOK(g) /\ \A z \in Obj : SameValue(heap, g, z)
    <2>1. HeapOK(heap) /\ DOMAIN <<>> = {} /\ IsFiniteSet({})
      BY Typed, FS_EmptySet
    <2> QED BY <2>1, Gets DEF SameValue
  <1> HIDE DEF node, g
  <1>6. heap'[Fresh] = node /\ \A z \in Obj : z # Fresh => heap'[z] = g[z]
    BY <1>3, <1>4, <1>5 DEF HeapOK
  <1>7. \A z \in Obj : z # Fresh => SameValue(heap, heap', z)
    BY <1>5, <1>6 DEF SameValue
  <1>8. ASSUME NEW z \in Obj, NEW k \in DOMAIN heap'[z].held
        PROVE  heap'[heap'[z].held[k]].type = "scalar"
    <2>1. z # Fresh
      BY <1>1, <1>6, <1>8
    <2>2. heap'[z].held = heap[z].held
      BY <1>7, <2>1 DEF SameValue
    <2>3. Alive(heap[z].held[k]) /\ heap[heap[z].held[k]].type = "scalar"
      BY <1>8, <2>2, AliveIs DEF AllAlive, ScalarInv
    <2> QED BY <1>4, <1>7, <2>2, <2>3 DEF SameValue, Alive
  <1>9. ASSUME NEW z \in Obj, heap'[z].type = "scalar" PROVE heap'[z].text \in Nat
    BY <1>1, <1>6, <1>7, <1>9 DEF SameValue, ScalarInv
  <1>10. ScalarInv'
    BY <1>8, <1>9 DEF ScalarInv
  <1> QED BY <1>1, <1>2, <1>4, <1>6, <1>7, <1>10

LEMMA FieldsStay ==
  ASSUME JsonInv, \A z \in Obj : Alive(z) => SameValue(heap, heap', z),
         NEW x, Alive(x), NEW fields, IsFields(heap, x, fields)
  PROVE  IsFields(heap', x, fields)
  <1>1. SameValue(heap, heap', x) /\ x \in Obj
    BY DEF Alive
  <1>2. \A k \in DOMAIN heap[x].held : Alive(heap[x].held[k])
    BY <1>1, AliveIs DEF AllAlive
  <1>3. \A k \in DOMAIN fields : SameValue(heap, heap', heap[x].held[k])
    BY <1>2 DEF IsFields, Alive
  <1> QED BY <1>1, <1>3 DEF IsFields, SameValue

LEMMA LoadedLeavesMeta ==
  ASSUME MetaInv, LeftInv, Loaded
  PROVE  MetaInv'
  <1>1. pc = "loaded" /\ stored' = stored /\ disk' = disk
    BY DEF Loaded, fileVars
  <1>2. FieldsInv /\ DocumentInv /\ ScalarInv /\ LoadedInv /\ var["raw"] = None
    BY <1>1, Handlers DEF LabelInv
  <1>3. DocumentInv'
    BY <1>1, <1>2, SameDocument
  <1>4. CASE goal = "load"
    <2>1. m_meta' = None /\ pc' = "idle" /\ UNCHANGED jsonVars /\ field' = field
      BY <1>4 DEF Loaded, Goto
    <2>2. FieldsInv' /\ ScalarInv' /\ var'["raw"] = None
      BY <1>1, <1>2, <2>1, SameScalars DEF FieldsInv, jsonVars
    <2> QED BY <1>3, <2>1, <2>2, NoLabel DEF Elsewise
  <1>5. CASE goal # "load"
    <2>1. /\ m_meta' = [m_meta EXCEPT !["sequence"] = @ + 1, !["last-modified"] = 2]
          /\ New("meta", Node("object", <<>>, None)) /\ field' = 1 /\ pc' = "value"
      BY <1>5 DEF Loaded, Goto, NewObject
    <2>2. /\ var \in [Var -> Obj \cup {None}] /\ "raw" \in Var /\ "meta" \in Var /\ JsonInv
      BY Names, Typed DEF LeftInv
    <2>3. m_meta \in [Range(Field) -> Nat] /\ \A k \in Range(Field) : k # "sequence" => m_meta[k] # 0
      BY <1>2, NonZero DEF LoadedInv, Meta
    <2>4. "sequence" \in Range(Field) /\ "last-modified" \in Range(Field)
      BY FieldIs
    <2>5. m_meta["sequence"] + 1 \in Nat /\ 2 \in Nat
      BY <2>3, <2>4
    <2>6. m_meta' \in Meta
      BY <2>1, <2>3, <2>5 DEF Meta
    <2>7. \A k \in Range(Field) : k # "sequence" => m_meta'[k] # 0
      BY <2>1, <2>3, <2>4
    <2>8. Complete(m_meta)'
      <3>1. Complete(m_meta')
        BY <2>6, <2>7, CompleteIs
      <3> QED BY <3>1 DEF Complete, Deduced
    <2>9. /\ Fresh \in Obj /\ var' = [var EXCEPT !["meta"] = Fresh] /\ ScalarInv'
          /\ heap'[Fresh].type = "object" /\ heap'[Fresh].held = <<>>
      BY <1>2, <2>1, <2>2, NewIs
    <2>10. var'["meta"] = Fresh /\ var'["raw"] = None
      BY <1>2, <2>2, <2>9
    <2>11. ASSUME NEW fields, DOMAIN fields = {} PROVE IsFields(heap', Fresh, fields)
      BY <2>9, <2>11 DEF IsFields
    <2>12. IsFields(heap, var["meta"], [k \in Before(field) |-> m_meta[k]])'
      <3>1. Before(field') = {}
        BY <2>1, NoneBefore
      <3>2. Before(field)' = Before(field')
        BY DEF Before
      <3>3. IsFields(heap', Fresh, [k \in Before(field)' |-> m_meta'[k]])
        BY <2>11, <3>1, <3>2
      <3> QED BY <2>10, <3>3
    <2>13. ValueInv(field)'
      BY <2>8, <2>12 DEF ValueInv
    <2>14. FieldsInv'
      BY <1>1, <1>2, <2>1, <2>6, FieldIs DEF FieldsInv
    <2> QED BY <1>3, <2>1, <2>9, <2>10, <2>13, <2>14 DEF MetaInv, LabelInv
  <1> QED BY <1>4, <1>5

LEMMA MakeLeavesMeta ==
  ASSUME MetaInv, LeftInv, Make
  PROVE  MetaInv'
  <1>1. /\ pc = "value" /\ pc' = "add" /\ field <= Len(Field)
        /\ UNCHANGED <<stored, m_meta, field>> /\ disk' = disk
        /\ New("tmp", Node("scalar", <<>>, m_meta[Field[field]]))
    BY DEF Make, Goto, Stay, fileVars, NewScalar
  <1>2. FieldsInv /\ DocumentInv /\ ScalarInv /\ ValueInv(field) /\ var["raw"] = None
    BY <1>1, Handlers DEF LabelInv
  <1>3. DocumentInv' /\ FieldsInv'
    BY <1>1, <1>2, SameDocument DEF FieldsInv
  <1>4. /\ var \in [Var -> Obj \cup {None}] /\ "raw" \in Var /\ "meta" \in Var /\ "tmp" \in Var
        /\ JsonInv
    BY Names, Typed DEF LeftInv
  <1> DEFINE text == m_meta[Field[field]]
             fields == [k \in Before(field) |-> m_meta[k]]
  <1>5. field \in 1 .. 4 /\ text \in Nat
    BY <1>1, <1>2, FieldIs DEF FieldsInv, ValueInv, Complete, Meta
  <1>6. IsFields(heap, var["meta"], fields) /\ Complete(m_meta)
    BY <1>2 DEF ValueInv
  <1> HIDE DEF text, fields
  <1>7. /\ Fresh \in Obj /\ var' = [var EXCEPT !["tmp"] = Fresh] /\ ScalarInv'
        /\ heap'[Fresh].type = "scalar" /\ heap'[Fresh].text = text
        /\ \A z \in Obj : Alive(z) => SameValue(heap, heap', z)
    BY <1>1, <1>2, <1>4, <1>5, NewIs DEF text
  <1>8. var'["tmp"] = Fresh /\ var'["meta"] = var["meta"] /\ var'["raw"] = None
    BY <1>2, <1>4, <1>7
  <1>9. Alive(var["meta"])
    BY <1>4, <1>6, AliveIs DEF AllAlive, IsFields
  <1>10. IsFields(heap', var["meta"], fields)
    BY <1>4, <1>6, <1>7, <1>9, FieldsStay
  <1>11. ValueInv(field)'
    BY <1>1, <1>6, <1>8, <1>10 DEF ValueInv, Complete, Deduced, fields, Before
  <1>12. IsScalar(heap, var["tmp"])' /\ heap'[var'["tmp"]].text = m_meta'[Field[field']]
    BY <1>1, <1>7, <1>8 DEF IsScalar, text
  <1>13. AddInv'
    BY <1>1, <1>11, <1>12 DEF AddInv, Field
  <1> QED BY <1>1, <1>3, <1>7, <1>8, <1>13 DEF MetaInv, LabelInv

LEMMA GotAndPut ==
  ASSUME JsonInv, NEW y, Alive(y), NEW x, Alive(x), NEW held, heap' = GetPut(y, x, held)
  PROVE  /\ heap'[y].type = heap[y].type /\ heap'[y].held = held /\ heap'[y].text = heap[y].text
         /\ \A z \in Obj : z # y => SameValue(heap, heap', z)
  <1> DEFINE g == GetAll(heap, <<x>>)
             m == [g[y] EXCEPT !.held = held]
  <1>1. HeapOK(g) /\ \A z \in Obj : SameValue(heap, g, z)
    <2>1. <<x>> \in Seq(Obj) /\ \A i \in DOMAIN <<x>> : <<x>>[i] = x
      BY DEF Alive
    <2> QED BY <2>1, SeqDomain, Typed, Gets DEF SameValue
  <1>2. heap' = [g EXCEPT ![y] = m]
    BY DEF GetPut
  <1>3. y \in Obj
    BY DEF Alive
  <1> HIDE DEF g
  <1>4. g = [z \in Obj |-> g[z]] /\ NodeOK(g[y])
    BY <1>1, <1>3 DEF HeapOK
  <1>5. m.type = g[y].type /\ m.held = held /\ m.text = g[y].text
    <2> DEFINE n == g[y]
    <2>1. n = [type |-> n.type, refs |-> n.refs, held |-> n.held, text |-> n.text]
      BY <1>4 DEF NodeOK
    <2> HIDE DEF n
    <2>2. /\ [n EXCEPT !.held = held].type = n.type /\ [n EXCEPT !.held = held].held = held
          /\ [n EXCEPT !.held = held].text = n.text
      BY <2>1
    <2> QED BY <2>2 DEF n
  <1> HIDE DEF m
  <1>6. heap'[y] = m /\ \A z \in Obj : z # y => heap'[z] = g[z]
    BY <1>2, <1>3, <1>4
  <1> QED BY <1>1, <1>3, <1>5, <1>6 DEF SameValue

LEMMA AddLeavesMeta ==
  ASSUME MetaInv, LeftInv, Add
  PROVE  MetaInv'
  <1> DEFINE y == var["meta"]
             x == var["tmp"]
             key == Field[field]
             old == heap[y].held
             held == [j \in DOMAIN old \cup {key} |-> IF j = key THEN x ELSE old[j]]
             fields == [k \in Before(field + 1) |-> m_meta[k]]
  <1>1. /\ pc = "add" /\ pc' = "added" /\ UNCHANGED <<stored, m_meta, field>> /\ disk' = disk
        /\ AddMember("meta", key, "tmp")
    BY DEF Add, Goto, Stay, fileVars
  <1>2. FieldsInv /\ DocumentInv /\ ScalarInv /\ AddInv /\ var["raw"] = None
    BY <1>1, Handlers DEF LabelInv
  <1>3. DocumentInv' /\ FieldsInv'
    BY <1>1, <1>2, SameDocument DEF FieldsInv
  <1>4. JsonInv /\ "meta" \in Var /\ "tmp" \in Var
    BY Names DEF LeftInv
  <1>5. heap' = GetPut(y, x, held) /\ var' = var
    BY <1>1 DEF AddMember, GetPut
  <1>6. /\ field \in 1 .. 4 /\ Complete(m_meta)
        /\ y \in Obj /\ heap[y].type = "object" /\ DOMAIN old = Before(field)
        /\ \A k \in Before(field) : heap[old[k]].text = m_meta[k]
        /\ x \in Obj /\ heap[x].type = "scalar" /\ heap[x].text = m_meta[key]
    BY <1>2, FieldIs DEF FieldsInv, AddInv, ValueInv, IsFields, IsScalar
  <1>7. Alive(y) /\ Alive(x) /\ x # y
    BY <1>4, <1>6, AliveIs DEF AllAlive
  <1>8. /\ Before(field + 1) = Before(field) \cup {key} /\ key \notin Before(field)
    BY <1>6, BeforeIs
  <1>9. DOMAIN held = Before(field + 1) /\ held[key] = x /\ \A j \in Before(field) : held[j] = old[j]
    BY <1>6, <1>8
  <1>10. \A z \in Obj : \A k \in DOMAIN heap[z].held :
           Alive(heap[z].held[k]) /\ heap[heap[z].held[k]].type = "scalar"
    BY <1>2, <1>4, AliveIs DEF AllAlive, ScalarInv
  <1> HIDE DEF held
  <1>11. /\ heap'[y].type = "object" /\ heap'[y].held = held
         /\ \A z \in Obj : z # y => SameValue(heap, heap', z)
    BY <1>4, <1>5, <1>6, <1>7, GotAndPut
  <1>12. \A j \in Before(field + 1) : held[j] \in Obj /\ heap[held[j]].type = "scalar"
    <2>1. \A j \in Before(field) : Alive(old[j]) /\ heap[old[j]].type = "scalar"
      BY <1>6, <1>10
    <2> QED BY <1>6, <1>8, <1>9, <2>1 DEF Alive
  <1>13. \A z \in Obj : heap[z].type = "scalar" => SameValue(heap, heap', z)
    BY <1>6, <1>11
  <1>14. ScalarInv'
    <2>1. ASSUME NEW z \in Obj, NEW k \in DOMAIN heap'[z].held
          PROVE  heap'[heap'[z].held[k]].type = "scalar"
      <3>1. CASE z = y
        BY <1>9, <1>11, <1>12, <1>13, <2>1, <3>1 DEF SameValue
      <3>2. CASE z # y
        <4>1. heap'[z].held = heap[z].held
          BY <1>11, <3>2 DEF SameValue
        <4>2. heap[z].held[k] \in Obj /\ heap[heap[z].held[k]].type = "scalar"
          BY <1>10, <2>1, <4>1 DEF Alive
        <4> QED BY <1>13, <4>1, <4>2 DEF SameValue
      <3> QED BY <3>1, <3>2
    <2>2. ASSUME NEW z \in Obj, heap'[z].type = "scalar" PROVE heap'[z].text \in Nat
      BY <1>2, <1>11, <2>2 DEF SameValue, ScalarInv
    <2> QED BY <2>1, <2>2 DEF ScalarInv
  <1>15. IsFields(heap', y, fields)
    <2>1. DOMAIN fields = Before(field + 1) /\ \A k \in Before(field + 1) : fields[k] = m_meta[k]
      OBVIOUS
    <2>2. \A k \in Before(field + 1) : heap[held[k]].text = m_meta[k]
      BY <1>6, <1>8, <1>9
    <2>3. \A k \in Before(field + 1) : heap'[held[k]].text = m_meta[k]
      BY <1>12, <1>13, <2>2 DEF SameValue
    <2> HIDE DEF fields, y
    <2> QED BY <1>6, <1>9, <1>11, <2>1, <2>3 DEF IsFields, y
  <1>16. ValueInv(field + 1)'
    BY <1>1, <1>5, <1>6, <1>15 DEF ValueInv, Complete, Deduced, Before
  <1>17. AddedInv'
    BY <1>1, <1>2, <1>16 DEF AddedInv, AddInv, Field, ValueInv, Before
  <1> QED BY <1>1, <1>2, <1>3, <1>5, <1>14, <1>17 DEF MetaInv, LabelInv

LEMMA AddedLeavesMeta ==
  ASSUME MetaInv, LeftInv, Added
  PROVE  MetaInv'
  <1>1. /\ pc = "added" /\ pc' = "value" /\ UNCHANGED <<stored, m_meta>> /\ field' = field + 1
        /\ disk' = disk /\ Destroy("tmp")
    BY DEF Added, Goto, fileVars
  <1>2. FieldsInv /\ DocumentInv /\ ScalarInv /\ AddedInv /\ var["raw"] = None
    BY <1>1, Handlers DEF LabelInv
  <1>3. DocumentInv'
    BY <1>1, <1>2, SameDocument
  <1>4. FieldsInv'
    BY <1>1, <1>2, FieldIs DEF FieldsInv, AddedInv
  <1>5. heap' = heap /\ var' = [var EXCEPT !["tmp"] = None]
    BY <1>1 DEF Destroy
  <1>6. /\ var \in [Var -> Obj \cup {None}] /\ "raw" \in Var /\ "meta" \in Var /\ "tmp" \in Var
    BY Names, Typed DEF LeftInv
  <1>7. var'["meta"] = var["meta"] /\ var'["raw"] = None /\ ScalarInv'
    BY <1>2, <1>5, <1>6, SameScalars
  <1>8. ValueInv(field + 1)
    BY <1>2 DEF AddedInv
  <1>9. ValueInv(field)'
    BY <1>1, <1>5, <1>7, <1>8 DEF ValueInv, Complete, Deduced, Before
  <1> QED BY <1>1, <1>3, <1>4, <1>7, <1>9 DEF MetaInv, LabelInv

LEMMA EmptyFile ==
  /\ <<>> \in Seq(MetaCell) /\ Ket \notin Range(<<>>) /\ ~Whole(<<>>)
  /\ Said(<<>>) = Deduced(NoMeta) /\ Deduced(NoMeta) \in Meta
  <1>1. <<>> \in Seq(MetaCell) /\ Ket \notin Range(<<>>) /\ ~Whole(<<>>)
    BY DEF Whole, Range
  <1> QED BY <1>1, SaidIs

LEMMA CreateMetaLeavesMeta ==
  ASSUME MetaInv, StorageInv, CreateMeta
  PROVE  MetaInv'
  <1>1. /\ pc = "value" /\ pc' = "write" /\ field > Len(Field) /\ stored' = Deduced(NoMeta)
        /\ UNCHANGED <<m_meta, field>> /\ UNCHANGED jsonVars
        /\ OpenForWrite("out", MetaPath)
    BY DEF CreateMeta, Goto
  <1>2. FieldsInv /\ DocumentInv /\ ScalarInv /\ ValueInv(field) /\ var["raw"] = None
    BY <1>1, Handlers DEF LabelInv
  <1>3. Open("out", MetaPath) /\ disk' = With(disk, MetaPath, <<>>)
    BY <1>1 DEF OpenForWrite
  <1>4. MetaPath \in DOMAIN disk' /\ OnDisk' = <<>>
    <2>1. MetaPath' = MetaPath
      BY DEF MetaPath
    <2> HIDE DEF MetaPath
    <2> QED BY <1>3, <2>1 DEF With, OnDisk
  <1>5. DocumentInv' /\ FieldsInv'
    <2>1. Said(<<>>) = stored' /\ stored' \in Meta
      BY <1>1, EmptyFile
    <2>2. Said(OnDisk)' = Said(OnDisk')
      BY DEF Said, Whole, FieldsOf, Deduced
    <2>3. DocumentInv'
      BY <1>4, <2>1, <2>2, EmptyFile DEF DocumentInv
    <2> QED BY <1>1, <1>2, <2>1, <2>3 DEF FieldsInv
  <1>6. ScalarInv' /\ var' = var /\ heap' = heap
    BY <1>1, <1>2, SameScalars DEF jsonVars
  <1>7. /\ m_fd'["out"] \in DOMAIN kernel'
        /\ kernel'[m_fd'["out"]] = [path |-> MetaPath, offset |-> 0]
    BY <1>3, StorageSizes, Opens DEF StorageInv
  <1>8. AtMeta("out")' /\ Offset("out")' = 0
    BY <1>4, <1>7 DEF AtMeta, MetaPath, Offset
  <1>9. field = Len(Field) + 1
    BY <1>1, <1>2, FieldIs DEF FieldsInv
  <1>10. ValueInv(Len(Field) + 1)'
    BY <1>1, <1>2, <1>6, <1>9 DEF ValueInv, Complete, Deduced, Before, Field
  <1>11. WriteInv'
    BY <1>4, <1>8, <1>10 DEF WriteInv
  <1> QED BY <1>1, <1>2, <1>5, <1>6, <1>11 DEF MetaInv, LabelInv

(* What a reader should see of a document cut after count cells.           *)
LEMMA CutText ==
  ASSUME NEW meta, Complete(meta), NEW count \in 1 .. Len(Text(meta))
  PROVE  LET cut == [i \in 1 .. count |-> Text(meta)[i]]
         IN /\ cut \in Seq(MetaCell) /\ cut[1] = Bra
            /\ Said(cut) = IF count = Len(Text(meta)) THEN meta ELSE Deduced(NoMeta)
  <1> DEFINE text == Text(meta)
             cut == [i \in 1 .. count |-> text[i]]
  <1>1. meta \in Meta /\ Deduced(meta) = meta
    BY DEF Complete
  <1>2. /\ text \in Seq(MetaCell) /\ text[1] = Bra /\ Len(text) = 6
        /\ \A i \in 1 .. Len(text) - 1 : text[i] # Ket
        /\ Said(text) = meta
    BY <1>1, TextIs
  <1> HIDE DEF text
  <1>3. count \in Nat /\ count >= 1 /\ count <= 6
    BY <1>2 DEF text
  <1>4. cut \in Seq(MetaCell)
    <2>1. ASSUME NEW i \in 1 .. count PROVE text[i] \in MetaCell
      <3>1. i \in 1 .. Len(text)
        BY <1>2, <1>3
      <3> QED BY <1>2, <3>1, ElementOfSeq
    <2>2. cut \in [1 .. count -> MetaCell]
      BY <2>1
    <2> QED BY <1>3, <2>2
  <1>5. cut[1] = Bra
    BY <1>2, <1>3
  <1>6. CASE count = 6
    <2>1. cut = text
      BY <1>2, <1>4, <1>6
    <2> QED BY <1>2, <1>4, <1>5, <1>6, <2>1 DEF text
  <1>7. CASE count # 6
    <2>1. \A i \in 1 .. count : cut[i] # Ket
      BY <1>2, <1>3, <1>7
    <2>2. DOMAIN cut = 1 .. count
      OBVIOUS
    <2> HIDE DEF cut
    <2>3. Ket \notin Range(cut)
      BY <2>1, <2>2 DEF Range
    <2>4. Said(cut) = Deduced(NoMeta)
      BY <1>4, <2>3, SaidIs DEF Whole
    <2> QED BY <1>2, <1>4, <1>5, <1>7, <2>4 DEF cut, text
  <1> QED BY <1>6, <1>7

LEMMA WriteMetaLeavesMeta ==
  ASSUME MetaInv, LeftInv, WriteMeta
  PROVE  MetaInv'
  <1> DEFINE members == heap[var["meta"]].held
             text == Text([k \in DOMAIN members |-> heap[members[k]].text])
  <1>1. /\ pc = "write" /\ pc' = "close" /\ UNCHANGED <<m_meta, field>> /\ UNCHANGED jsonVars
    BY DEF WriteMeta, Goto
  <1>2. FieldsInv /\ DocumentInv /\ ScalarInv /\ WriteInv /\ var["raw"] = None
    BY <1>1, Handlers DEF LabelInv
  <1>3. PICK count \in Counts(text) :
          Write("out", text, count, Space) /\ stored' = IF count = Len(text) THEN m_meta ELSE stored
    BY DEF WriteMeta
  <1>4. /\ AtMeta("out") /\ Offset("out") = 0 /\ OnDisk = <<>>
        /\ Complete(m_meta) /\ m_meta \in [Range(Field) -> Nat]
        /\ IsFields(heap, var["meta"], [k \in Range(Field) |-> m_meta[k]])
    BY <1>2, FieldIs, BeforeIs, SMTT(30) DEF WriteInv, ValueInv, Complete, Meta
  <1>5. text = Text(m_meta)
    <2>1. /\ DOMAIN members = Range(Field)
          /\ \A k \in Range(Field) : heap[members[k]].text = m_meta[k]
      BY <1>4 DEF IsFields
    <2> HIDE DEF members
    <2>2. [k \in DOMAIN members |-> heap[members[k]].text] = m_meta
      BY <1>4, <2>1
    <2> QED BY <2>2
  <1> HIDE DEF text
  <1>6. text \in Seq(MetaCell) /\ Len(text) = 6 /\ count \in 1 .. Len(text)
    <2>1. text \in Seq(MetaCell) /\ Len(text) = 6
      BY <1>4, <1>5, TextIs DEF Complete
    <2> QED BY <1>3, <2>1 DEF Counts
  <1> DEFINE cut == [i \in 1 .. count |-> text[i]]
  <1>7. PathOf("out") = MetaPath /\ Content("out") = <<>> /\ MetaPath \in DOMAIN disk
    BY <1>4 DEF AtMeta, PathOf, Content, OnDisk
  <1>8. disk' = [disk EXCEPT ![MetaPath] = cut]
    <2>1. disk' = [disk EXCEPT ![MetaPath] =
            [i \in 1 .. (IF 0 + count < Len(<<>>) THEN Len(<<>>) ELSE 0 + count) |->
               IF i > 0 /\ i <= 0 + count THEN text[i - 0]
               ELSE IF i <= Len(<<>>) THEN <<>>[i] ELSE Space]]
      BY <1>3, <1>4, <1>7 DEF Write
    <2>2. Len(<<>>) = 0 /\ count \in Nat /\ 0 + count = count /\ ~(count < 0)
      BY <1>6
    <2>3. [i \in 1 .. (IF 0 + count < Len(<<>>) THEN Len(<<>>) ELSE 0 + count) |->
               IF i > 0 /\ i <= 0 + count THEN text[i - 0]
               ELSE IF i <= Len(<<>>) THEN <<>>[i] ELSE Space] = cut
      <3>1. \A i \in 1 .. count : i > 0 /\ i <= 0 + count /\ i - 0 = i
        BY <2>2
      <3> QED BY <2>2, <3>1
    <2> QED BY <2>1, <2>3
  <1>9. OnDisk' = cut
    <2>1. MetaPath' = MetaPath
      BY DEF MetaPath
    <2> HIDE DEF MetaPath
    <2> QED BY <1>7, <1>8, <2>1 DEF OnDisk
  <1>10. stored = Deduced(NoMeta)
    BY <1>2, <1>4, EmptyFile DEF DocumentInv
  <1>11. /\ cut \in Seq(MetaCell) /\ cut[1] = Bra /\ Said(cut) = stored'
    <2>1. count \in 1 .. Len(Text(m_meta)) /\ cut = [i \in 1 .. count |-> Text(m_meta)[i]]
      BY <1>5, <1>6
    <2> HIDE DEF cut
    <2>2. /\ cut \in Seq(MetaCell) /\ cut[1] = Bra
          /\ Said(cut) = IF count = Len(Text(m_meta)) THEN m_meta ELSE Deduced(NoMeta)
      BY <1>4, <2>1, CutText
    <2> QED BY <1>3, <1>5, <1>10, <2>2
  <1>12. DocumentInv'
    <2>1. Said(OnDisk)' = Said(OnDisk')
      BY DEF Said, Whole, FieldsOf, Deduced
    <2> HIDE DEF cut
    <2> QED BY <1>9, <1>11, <2>1 DEF DocumentInv
  <1>13. FieldsInv'
    BY <1>1, <1>2, <1>3, <1>4 DEF FieldsInv, Complete
  <1>14. ScalarInv' /\ var'["raw"] = None
    BY <1>1, <1>2, SameScalars DEF jsonVars
  <1> QED BY <1>1, <1>12, <1>13, <1>14, NoLabel DEF Elsewise

LEMMA CloseMetaLeavesMeta ==
  ASSUME MetaInv, LeftInv, CloseMeta
  PROVE  MetaInv'
  <1>1. /\ pc = "close" /\ pc' = "idle" /\ m_meta' = None /\ UNCHANGED <<field, stored>>
        /\ disk' = disk /\ Destroy("meta")
    BY DEF CloseMeta, Goto, Close
  <1>2. FieldsInv /\ DocumentInv /\ ScalarInv /\ var["raw"] = None
    BY <1>1, Handlers
  <1>3. heap' = heap /\ var' = [var EXCEPT !["meta"] = None]
    BY <1>1 DEF Destroy
  <1>4. var \in [Var -> Obj \cup {None}] /\ "raw" \in Var /\ "meta" \in Var
    BY Names, Typed DEF LeftInv
  <1>5. ScalarInv' /\ var'["raw"] = None
    BY <1>2, <1>3, <1>4, SameScalars
  <1>6. DocumentInv' /\ FieldsInv'
    BY <1>1, <1>2, SameDocument DEF FieldsInv
  <1> QED BY <1>1, <1>5, <1>6, NoLabel DEF Elsewise

(* Nothing but freed memory. *)
LEMMA NoScalarsNow == ASSUME heap = [x \in Obj |-> Freed] PROVE ScalarInv
  <1>1. \A x \in Obj : heap[x].type = "freed" /\ heap[x].held = <<>>
    BY DEF Freed
  <1> QED BY <1>1 DEF ScalarInv

LEMMA NoScalars == ASSUME heap' = [x \in Obj |-> Freed] PROVE ScalarInv'
  <1>1. \A x \in Obj : heap'[x].type = "freed" /\ heap'[x].held = <<>>
    BY DEF Freed
  <1> QED BY <1>1 DEF ScalarInv

LEMMA DieLeavesMeta ==
  ASSUME MetaInv, Die
  PROVE  MetaInv'
  <1>1. /\ pc \notin {"json", "sha", "file"} /\ pc' = "idle" /\ m_meta' = None
        /\ UNCHANGED <<field, stored>> /\ disk' = disk
        /\ heap' = [x \in Obj |-> Freed] /\ var' = [v \in Var |-> None]
    BY DEF Die, Goto, CloseAll
  <1>2. FieldsInv /\ DocumentInv
    BY <1>1, Handlers
  <1>3. ScalarInv' /\ var'["raw"] = None
    BY <1>1, NoScalars, Names
  <1>4. DocumentInv' /\ FieldsInv'
    BY <1>1, <1>2, SameDocument DEF FieldsInv
  <1> QED BY <1>1, <1>3, <1>4, NoLabel DEF Elsewise

LEMMA FreeLeavesMeta ==
  ASSUME MetaInv, AnyJson \/ AnySha \/ AnyFile
  PROVE  MetaInv'
  <1>1. pc \in {"json", "sha", "file"} /\ UNCHANGED <<pc, field, stored, m_meta>>
    BY DEF AnyJson, AnySha, AnyFile, handlerVars
  <1> QED BY <1>1 DEF MetaInv, FieldsInv

(* What the metadata file may hold when the server starts.                 *)
LEMMA FirstIs ==
  ASSUME NEW first \in FirstMeta, first # None
  PROVE  first \in Seq(MetaCell) /\ (Ket \in Range(first) => first[1] = Bra)
  <1>1. /\ first \in Seq([k : STRING, v : Nat])
        /\ \A i \in DOMAIN first : first[i].k = "}" => first[1] = [k |-> "{", v |-> 0]
    BY StorageAssumption
  <1>2. [k : STRING, v : Nat] \subseteq MetaCell
    BY DEF MetaCell, Key
  <1>3. first \in Seq(MetaCell)
    <2>1. /\ Len(first) \in Nat /\ first = [i \in 1 .. Len(first) |-> first[i]]
          /\ \A i \in 1 .. Len(first) : first[i] \in [k : STRING, v : Nat]
      <3> DEFINE R == [k : STRING, v : Nat]
      <3>1. first \in Seq(R)
        BY <1>1
      <3> HIDE DEF R
      <3>2. Len(first) \in Nat /\ first \in [1 .. Len(first) -> R]
        BY <3>1, LenProperties
      <3> QED BY <3>2 DEF R
    <2>2. \A i \in 1 .. Len(first) : first[i] \in MetaCell
      BY <1>2, <2>1
    <2>3. first \in [1 .. Len(first) -> MetaCell]
      BY <2>1, <2>2
    <2> QED BY <2>1, <2>3
  <1>4. Ket.k = "}"
    BY DEF Ket
  <1> QED BY <1>1, <1>3, <1>4 DEF Range, Bra

LEMMA MetaInits == ASSUME Init PROVE MetaInv
  <1>1. /\ heap = [x \in Obj |-> Freed] /\ var = [v \in Var |-> None]
        /\ m_meta = None /\ field = 1 /\ pc \in {"idle", "json", "sha", "file"}
    BY DEF Init, JsonInit
  <1>2. PICK first \in IF pc = "idle" THEN FirstMeta ELSE {None} :
          /\ disk = IF first = None THEN <<>> ELSE [p \in {MetaPath} |-> first]
          /\ stored = IF first = None THEN Deduced(NoMeta) ELSE Said(first)
    BY DEF Init, FileInit
  <1>3. CASE first = None
    <2>1. disk = <<>> /\ stored = Deduced(NoMeta)
      BY <1>2, <1>3
    <2>2. OnDisk = <<>>
      BY <2>1 DEF OnDisk
    <2>3. stored \in Meta /\ DocumentInv
      BY <2>1, <2>2, EmptyFile DEF DocumentInv
    <2> QED BY <2>3, <1>1, NoScalarsNow, Names, FieldIs DEF MetaInv, FieldsInv, LabelInv
  <1>4. CASE first # None
    <2>1. first \in FirstMeta /\ disk = [p \in {MetaPath} |-> first] /\ stored = Said(first)
      BY <1>2, <1>4
    <2>2. OnDisk = first
      BY <2>1 DEF OnDisk
    <2>3. first \in Seq(MetaCell) /\ (Ket \in Range(first) => first[1] = Bra)
      BY <1>4, <2>1, FirstIs
    <2>4. stored \in Meta /\ DocumentInv
      BY <2>1, <2>2, <2>3, SaidIs DEF DocumentInv
    <2> QED BY <2>4, <1>1, NoScalarsNow, Names, FieldIs DEF MetaInv, FieldsInv, LabelInv
  <1> QED BY <1>3, <1>4

LEMMA MetaSteps == MetaInv /\ StorageInv /\ LeftInv /\ LeftInv' /\ [Next]_vars => MetaInv'
  <1> SUFFICES ASSUME MetaInv, StorageInv, LeftInv, LeftInv', [Next]_vars PROVE MetaInv'
    OBVIOUS
  <1>0. JsonInv /\ JsonInv' /\ var \in [Var -> Obj \cup {None}]
    BY Typed DEF LeftInv
  <1>1. CASE Release /\ UNCHANGED <<digestVars, fileVars, handlerVars>>
    <2>1. Kept /\ UNCHANGED <<var, disk, kernel, m_fd, handlerVars>>
      BY <1>0, <1>1, ReleasedKept DEF Release, fileVars
    <2> QED BY <1>0, <2>1, SameLabels
  <1>2. CASE Handler
    <2>1. CASE Update \/ Dump \/ Flush \/ Hash \/ TakeResult \/ ToAttic
      BY <2>1, AtticLeavesMeta
    <2>2. CASE LoadMeta("load") \/ LoadMeta("save")
      BY <2>2, LoadMetaLeavesMeta
    <2>3. CASE Parse \/ Parsed \/ Take \/ Taken \/ Caught \/ Deduce \/ Loaded
      BY <2>3, ParseLeavesMeta, ParsedLeavesMeta, TakeLeavesMeta, TakenLeavesMeta, CaughtLeavesMeta,
         LoadedLeavesMeta
    <2>4. CASE Make \/ Add \/ Added \/ CreateMeta \/ WriteMeta \/ CloseMeta
      BY <2>4, MakeLeavesMeta, AddLeavesMeta, AddedLeavesMeta, CreateMetaLeavesMeta,
         WriteMetaLeavesMeta, CloseMetaLeavesMeta
    <2> QED BY <1>2, <2>1, <2>2, <2>3, <2>4 DEF Handler
  <1>3. CASE Die
    BY <1>3, DieLeavesMeta
  <1>4. CASE AnyJson \/ AnySha \/ AnyFile
    BY <1>4, FreeLeavesMeta
  <1>5. CASE UNCHANGED vars
    <2>1. UNCHANGED <<heap, var, disk, kernel, m_fd, handlerVars>>
      BY <1>5 DEF vars, jsonVars, fileVars
    <2> QED BY <1>0, <2>1, SameHeap, SameLabels
  <1> QED BY <1>1, <1>2, <1>3, <1>4, <1>5 DEF Next

(* LoadMeta returns what SaveMeta stored last, or what the first file says,*)
(* and deduces all of the fields where a process died, the disk was full or*)
(* the file cannot be opened: whatever the first file without a gap was,   *)
(* the buffer's size, and whoever dies at which call.                      *)
THEOREM ReadsWhatWasStored == Spec => []MetaRead
  <1>1. Init => StorageInv /\ LeftInv /\ MetaInv
    BY StorageInits, LeftInits, MetaInits
  <1>2. MetaInv => MetaRead
    BY DEF MetaInv, LabelInv, LoadedInv, MetaRead, Short
  <1> QED BY <1>1, StorageSteps, LeftSteps, MetaSteps, <1>2, PTL DEF Spec

(* The types of everything Resource and the classes below it keep.         *)
THEOREM StoredTypes == Spec => []StoredTypeOK
  <1>1. Init => StorageInv /\ LeftInv /\ MetaInv
    BY StorageInits, LeftInits, MetaInits
  <1>2. StorageInv /\ LeftInv /\ MetaInv => StoredTypeOK
    <2> SUFFICES ASSUME StorageInv, LeftInv, MetaInv PROVE StoredTypeOK
      OBVIOUS
    <2>1. DigestTypeOK
      BY DEF StorageInv, DigestInv
    <2>2. \A x \in Obj : heap[x].refs \in Nat /\ heap[x].type \in Type \cup {"freed"}
      BY Typed DEF LeftInv, HeapOK, NodeOK
    <2>3. var \in [Var -> Obj \cup {None}]
      BY Typed DEF LeftInv
    <2>4. DOMAIN kernel \subseteq Fd /\ m_fd \in [Handle -> Fd \cup {NotOpen}]
      BY DEF LeftInv, FileInv
    <2>5. FieldsInv
      BY DEF MetaInv
    <2> QED BY <2>1, <2>2, <2>3, <2>4, <2>5 DEF StoredTypeOK, DigestTypeOK, Context, FieldsInv
  <1> QED BY <1>1, StorageSteps, LeftSteps, MetaSteps, <1>2, PTL DEF Spec
=============================================================================
