------------------------------ MODULE MCData ------------------------------
(* The parts that share nothing with the fibers or each other, checked in  *)
(* one run: a behaviour is one of the Pipe, of an LRU cache, of a map, of  *)
(* pointers and so on, and the other parts stay as they were at first.     *)
EXTENDS Pipe, LRUCache, AVL, VarInt, RCPtr, GoSlice, Err, Str, StrFns, TokenBucket

CONSTANT Parts

VARIABLE part

Ends == {2, 3, 6}

\* 2^k - 1 and 2^k at the limits of the forms and next to them, and the
\* complements -2^k and -2^k - 1.
Powers ==
  LET Bits == {0, 5, 6, 7, 8, 12, 13, 14, 20, 21, 22, 27, 28, 29, 42, 43, 44, 45, 62, 63}
      Pow(k)  == [i \in 1..8 |-> IF i = 8 - (k \div 8) THEN 2^(k % 8) ELSE 0]
      Ones(k) == [i \in 1..8 |-> IF i > 8 - (k \div 8) THEN 255
                                ELSE IF i = 8 - (k \div 8) THEN 2^(k % 8) - 1 ELSE 0]
      positive == {Pow(k) : k \in Bits} \cup {Ones(k) : k \in Bits}
  IN  positive \cup {Complement(n) : n \in positive}

\* Every first byte, with none to eight bytes of one kind after it.
Strings ==
  {<<b>> \o [i \in 1..len |-> c] : b \in Byte, c \in {0, 1, 255}, len \in 0..8}

OneString == {<<128>>}

\* What a Str is given, and texts of 0, white space, signs, digits, letters.
Given == {<<1, 2>>}
Lines == UNION {[1..n -> {0, 10, 32, 45, 49, 97}] : n \in 0..3}
Words == {<<>>, <<0>>, <<32>>, <<49>>, <<97>>, <<97, 97>>, <<49, 97>>, <<65>>, <<45, 49>>}

\* Arguments of a token bucket, within its limits and without.
Speeds == {-1, 1, 2, 5, NaN}
Capacities == {-1, 0, 3, 5, NaN}
Costs == {-1, 0, 1, 2, 5}

DataInit ==
  /\ PipeInit /\ LRUInit /\ AVLInit /\ VarIntInit
  /\ RCInit /\ SliceInit /\ ErrInit /\ StrInit /\ StrFnsInit /\ BucketInit
  /\ part \in Parts

DataNext ==
  /\ \/ /\ part = "pipe" /\ PipeNext
        /\ UNCHANGED <<lruVars, avlVars, varIntVars, rcVars, sliceVars, errVars, strVars, asked, bucketVars>>
     \/ /\ part = "lru" /\ LRUNext
        /\ UNCHANGED <<pipeVars, avlVars, varIntVars, rcVars, sliceVars, errVars, strVars, asked, bucketVars>>
     \/ /\ part = "map" /\ MapNext
        /\ UNCHANGED <<pipeVars, lruVars, varIntVars, rcVars, sliceVars, errVars, strVars, asked, bucketVars>>
     \/ /\ part = "list" /\ ListNext
        /\ UNCHANGED <<pipeVars, lruVars, varIntVars, rcVars, sliceVars, errVars, strVars, asked, bucketVars>>
     \/ /\ part = "varint" /\ VarIntNext
        /\ UNCHANGED <<pipeVars, lruVars, avlVars, rcVars, sliceVars, errVars, strVars, asked, bucketVars>>
     \/ /\ part = "rc" /\ RCNext
        /\ UNCHANGED <<pipeVars, lruVars, avlVars, varIntVars, sliceVars, errVars, strVars, asked, bucketVars>>
     \/ /\ part = "slice" /\ SliceNext
        /\ UNCHANGED <<pipeVars, lruVars, avlVars, varIntVars, rcVars, errVars, strVars, asked, bucketVars>>
     \/ /\ part = "err" /\ ErrNext
        /\ UNCHANGED <<pipeVars, lruVars, avlVars, varIntVars, rcVars, sliceVars, strVars, asked, bucketVars>>
     \/ /\ part = "str" /\ StrNext
        /\ UNCHANGED <<pipeVars, lruVars, avlVars, varIntVars, rcVars, sliceVars, errVars, asked, bucketVars>>
     \/ /\ part = "strfns" /\ StrFnsNext
        /\ UNCHANGED <<pipeVars, lruVars, avlVars, varIntVars, rcVars, sliceVars, errVars, strVars, bucketVars>>
     \/ /\ part = "bucket" /\ BucketNext
        /\ UNCHANGED <<pipeVars, lruVars, avlVars, varIntVars, rcVars, sliceVars, errVars, strVars, asked>>
  /\ UNCHANGED part

DataVars ==
  <<pipeVars, lruVars, avlVars, varIntVars, rcVars, sliceVars, errVars, strVars, asked, bucketVars, part>>

DataSpec == DataInit /\ [][DataNext]_DataVars

=============================================================================
