------------------------------- MODULE Digest -------------------------------
(***************************************************************************)
(* SHA-1 as src/core/crypto/sha1.c and SHA1.cc feed it: octets collect in  *)
(* a message block, full blocks are compressed, and Result pads the last   *)
(* one with the length.  The compression function is taken as injective,   *)
(* so the intermediate hash is the sequence of the blocks compressed so    *)
(* far; the eight octets of the length hold one number.                    *)
(***************************************************************************)
EXTENDS Naturals, Sequences

CONSTANTS
  Octet,      \* the values of an octet; 0 and One among them
  One,        \* the octet that ends the message, 0x80
  BlockSize,  \* octets in a block, 64
  LengthAt,   \* where the length starts in the last block, 56
  OctetBits,  \* bits in an octet, 8
  Word        \* values of a length word, 2^32

ASSUME DigestAssumption ==
  /\ Octet \subseteq Nat /\ 0 \in Octet /\ One \in Octet
  /\ BlockSize \in Nat /\ LengthAt \in Nat /\ LengthAt \in 1 .. BlockSize - 1
  /\ OctetBits \in Nat \ {0} /\ Word \in Nat /\ OctetBits < Word
  /\ \E n \in 1 .. Word : Word = n * OctetBits

shaSuccess == 0
shaNull == 1        \* also what SHA1Input stores for a message too long
shaStateError == 3

VARIABLES
  ctx,   \* the SHA1Context
  rest,  \* octets of the present SHA1Input call that are still to come
  msg    \* the octets taken since Reset (not a variable of the program)

digestVars == <<ctx, rest, msg>>

Cell == 0 .. BlockSize - 1
(* The octets of the length, apart from all other octets. *)
LengthCell(bits) == [length |-> bits]
Plain(o) == [octet |-> o]

(* SHA1Reset leaves the block as it is. *)
ResetContext(c) ==
  [c EXCEPT !.index = 0, !.low = 0, !.high = 0, !.hash = <<>>,
            !.computed = FALSE, !.corrupted = shaSuccess]

\* mutant: the index is not set back, so the next octet lands behind the block
ProcessMessageBlockStays(c) == [c EXCEPT !.hash = Append(@, c.block)]

ProcessMessageBlock(c) == [c EXCEPT !.hash = Append(@, c.block), !.index = 0]

(* One round of SHA1Input's loop.  Low bits wrap into the high word; the   *)
(* message is too long when that wraps as well.                            *)
PutOctet(c, o) ==
  LET low  == (c.low + OctetBits) % Word
      high == IF low = 0 THEN (c.high + 1) % Word ELSE c.high
      d == [c EXCEPT !.block[c.index] = Plain(o), !.index = @ + 1,
                     !.low = low, !.high = high,
                     !.corrupted = IF low = 0 /\ high = 0 THEN shaNull ELSE @]
  IN IF d.index = BlockSize THEN ProcessMessageBlock(d) ELSE d

(* The zeros written from the index up to, and without, the cell to. *)
ZeroUpTo(c, to) ==
  [c EXCEPT !.block = [i \in Cell |-> IF i \in c.index .. to - 1 THEN Plain(0) ELSE @[i]],
            !.index = to]

PadMessage(c) ==
  LET ended == [c EXCEPT !.block[c.index] = Plain(One), !.index = @ + 1]
      zeroed == IF c.index > LengthAt - 1
                THEN ZeroUpTo(ProcessMessageBlock(ZeroUpTo(ended, BlockSize)), LengthAt)
                ELSE ZeroUpTo(ended, LengthAt)
      full == [zeroed EXCEPT
                 !.block = [i \in Cell |-> IF i < LengthAt THEN @[i]
                                           ELSE LengthCell(c.high * Word + c.low)]]
  IN ProcessMessageBlock(full)

Blank(c) == [c EXCEPT !.block = [i \in Cell |-> Plain(0)], !.low = 0, !.high = 0,
                      !.computed = TRUE]

------------------------------------------------------------------------------
DigestInit ==
  /\ ctx = [block |-> [i \in Cell |-> Plain(0)], index |-> 0, low |-> 0, high |-> 0,
            hash |-> <<>>, computed |-> FALSE, corrupted |-> shaSuccess]
  /\ rest = <<>>
  /\ msg = <<>>

Reset ==
  /\ rest = <<>>
  /\ ctx' = ResetContext(ctx)
  /\ msg' = <<>>
  /\ UNCHANGED rest

(* SHA1::Input throws on any error; no octets at all are no error.         *)
Refuses == ctx.computed \/ ctx.corrupted # shaSuccess
Input(data) ==
  /\ rest = <<>>
  /\ data # <<>>
  /\ rest' = IF Refuses THEN <<>> ELSE data
  /\ ctx' = IF ctx.computed THEN [ctx EXCEPT !.corrupted = shaStateError] ELSE ctx
  /\ UNCHANGED msg

NextOctet ==
  /\ rest # <<>>
  /\ ctx.corrupted = shaSuccess
  /\ ctx' = PutOctet(ctx, Head(rest))
  /\ msg' = Append(msg, Head(rest))
  /\ rest' = Tail(rest)

(* The loop ends early, and SHA1Input still reports success. *)
TooLong ==
  /\ rest # <<>>
  /\ ctx.corrupted # shaSuccess
  /\ rest' = <<>>
  /\ UNCHANGED <<ctx, msg>>

(* SHA1::Result ignores the error code: the value is then what was in the  *)
(* caller's memory.                                                        *)
Result ==
  /\ rest = <<>>
  /\ ctx' = IF ctx.corrupted # shaSuccess \/ ctx.computed THEN ctx ELSE Blank(PadMessage(ctx))
  /\ UNCHANGED <<rest, msg>>

DigestNext(chunks) ==
  \/ Reset
  \/ \E data \in chunks : Input(data)
  \/ NextOctet
  \/ TooLong
  \/ Result

DigestSpec == DigestInit /\ [][DigestNext(Seq(Octet))]_digestVars

------------------------------------------------------------------------------
(* The blocks the standard asks for: the message, One, as few zeros as     *)
(* bring the length to the end of a block, and the length in bits.         *)
IsPadding(hash, m) ==
  LET room == Len(m) + 1 + (BlockSize - LengthAt)
  IN /\ room <= Len(hash) * BlockSize
     /\ Len(hash) * BlockSize < room + BlockSize
     /\ \A j \in 1 .. Len(hash), i \in Cell :
          hash[j][i] =
            LET at == (j - 1) * BlockSize + i + 1
            IN IF at <= Len(m) THEN Plain(m[at])
               ELSE IF at = Len(m) + 1 THEN Plain(One)
               ELSE IF j = Len(hash) /\ i >= LengthAt THEN LengthCell(OctetBits * Len(m))
               ELSE Plain(0)

(* Whatever the sizes of the pieces a message comes in, and however often  *)
(* Result is asked for, what it returns without an error is the digest of  *)
(* exactly the octets taken since Reset (SHA1Input, SHA1PadMessage).       *)
Digested ==
  ctx.computed /\ ctx.corrupted = shaSuccess => IsPadding(ctx.hash, msg)
=============================================================================
