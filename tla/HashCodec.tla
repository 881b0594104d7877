----------------------------- MODULE HashCodec -----------------------------
(***************************************************************************)
(* Hashes as addr_and_hash.c stores them: an array of 16-bit words, the    *)
(* most significant first, read from a text of hexadecimal digits.  A text *)
(* is a sequence of digits 0 to 15; any other character is a number above. *)
(***************************************************************************)
EXTENDS Integers, Sequences

CONSTANTS
  HASH_LENGTH,  \* the words of a hash (36 in the code)
  NULL,
  Text          \* the texts that occur

Digit == 0..15

ASSUME HashCodecAssumption ==
  /\ HASH_LENGTH \in Nat \ {0}
  /\ NULL \notin [1..HASH_LENGTH -> Nat]
  /\ \A text \in Text : text \in Seq(0..16) /\ Len(text) <= 4 * HASH_LENGTH

\* The number a sequence of digits writes in base 16.
strtol(digits) ==
  LET upTo[n \in 0..Len(digits)] ==
        IF n = 0 THEN 0 ELSE 16 * upTo[n - 1] + digits[n]
  IN  upTo[Len(digits)]

\* Mutant: a text is cut into words from its first digit on in any case.
char_to_uint16_t_hash_left(text) ==
  LET words == (Len(text) + 3) \div 4
      skip == HASH_LENGTH - words
  IN  IF \E i \in 1..Len(text) : text[i] \notin Digit THEN NULL
      ELSE [i \in 1..HASH_LENGTH |->
              IF i <= skip THEN 0
              ELSE strtol(SubSeq(text, 4 * (i - skip) - 3,
                                 IF 4 * (i - skip) < Len(text) THEN 4 * (i - skip)
                                                               ELSE Len(text)))]

(***************************************************************************)
(* The words at the end of the array are filled, the ones in front are     *)
(* zero.  When the length is no multiple of four the first word is made of *)
(* the Len(text) % 4 digits that are left over.  The code does not look at *)
(* texts of more digits than the array has; here they are not words of it. *)
(***************************************************************************)
char_to_uint16_t_hash(text) ==
  LET odd == Len(text) % 4
      words == Len(text) \div 4 + (IF odd = 0 THEN 0 ELSE 1)
      skip == HASH_LENGTH - words
      tmp(j) == IF odd = 0 THEN SubSeq(text, 4 * j + 1, 4 * j + 4)
                ELSE IF j = 0 THEN SubSeq(text, 1, odd)
                ELSE SubSeq(text, odd + 4 * (j - 1) + 1, odd + 4 * j)
  IN  IF \E i \in 1..Len(text) : text[i] \notin Digit THEN NULL
      ELSE [i \in 1..HASH_LENGTH |-> IF i <= skip THEN 0 ELSE strtol(tmp(i - skip - 1))]

\* Four digits for every word, zeros included.
uint16_t_to_char_hash(hash) ==
  [k \in 1..4 * HASH_LENGTH |->
     (hash[(k + 3) \div 4] \div 16 ^ ((4 * HASH_LENGTH - k) % 4)) % 16]

\* Mutant: the words are compared from the last one on.
compare_hash_last(h1, h2) ==
  IF h1 = h2 THEN 0
  ELSE IF \E i \in 1..HASH_LENGTH :
            h1[i] < h2[i] /\ \A j \in i + 1..HASH_LENGTH : h1[j] = h2[j]
  THEN -1 ELSE 1

\* The first word in which the two differ decides.
compare_hash(h1, h2) ==
  IF h1 = h2 THEN 0
  ELSE IF \E i \in 1..HASH_LENGTH : h1[i] < h2[i] /\ \A j \in 1..i - 1 : h1[j] = h2[j]
  THEN -1 ELSE 1

-----------------------------------------------------------------------------
(***************************************************************************)
(* Properties                                                              *)
(***************************************************************************)

\* The texts that are read, those of hexadecimal digits only.
Numerals == {text \in Text : \A i \in 1..Len(text) : text[i] \in Digit}

Sign(n) == IF n = 0 THEN 0 ELSE IF n < 0 THEN -1 ELSE 1

\* A text is refused exactly when it holds anything but digits.
OthersAreRefused ==
  \A text \in Text : char_to_uint16_t_hash(text) # NULL <=> text \in Numerals

\* compare_hash orders what is read from two texts as strtol orders the texts, and
\* what is printed of a hash writes the same number and is read as the same hash.
NumbersAreRead ==
  \A text \in Numerals :
    LET hash == char_to_uint16_t_hash(text)
        printed == uint16_t_to_char_hash(hash)
    IN  /\ strtol(printed) = strtol(text)
        /\ char_to_uint16_t_hash(printed) = hash
        /\ \A other \in Numerals :
             compare_hash(hash, char_to_uint16_t_hash(other))
               = Sign(strtol(text) - strtol(other))
=============================================================================
