---------------------------- MODULE RandomString ----------------------------
(***************************************************************************)
(* RandomString: backend/libs/shared/src/crypto/random-string.ts.  A       *)
(* selector is a 16-bit number of the entropy, here one below Selectors; a *)
(* character is its place in the list of characters.                       *)
(***************************************************************************)
EXTENDS Naturals, Sequences, FiniteSets

CONSTANTS
    Selectors,  \* 0x10000
    Lengths,    \* lengths that are asked for
    Counts      \* how many characters there are to choose from

ASSUME RandomStringAssumption ==
    Selectors \in Nat \ {0} /\ Lengths \subseteq Nat /\ Counts \subseteq 1 .. Selectors

VARIABLES
    length,     \* the length asked for
    count,      \* characterCount
    string,     \* the characters so far
    entropy     \* selectors of the block that are not used yet, or drawn next

stringVars == <<length, count, string, entropy>>

RandomStringTypeOK ==
    /\ length \in Lengths /\ count \in Counts
    /\ string \in Seq(Nat) /\ entropy \in Nat

RandomStringInit ==
    /\ length \in Lengths /\ count \in Counts
    /\ string = <<>> /\ entropy = 0

(* A definition whose name ends in _Bug is a plausible mistake in the      *)
(* definition after it; no specification uses it.                          *)

MaxValidSelector_Bug(n) == (Selectors \div n) * n

MaxValidSelector(n) == (Selectors \div n) * n - 1

(* Selectors that fit in a block: entropyLength / 2.                       *)
BlockSize(len) == (11 * len + 9) \div 10

(* randomBytes(entropyLength).                                             *)
DrawBlock ==
    /\ Len(string) < length /\ entropy = 0
    /\ entropy' = BlockSize(length)
    /\ UNCHANGED <<length, count, string>>

(* The inner loop takes a selector, and skips it above the largest valid.  *)
TakeSelector ==
    /\ Len(string) < length /\ entropy > 0
    /\ entropy' = entropy - 1
    /\ \E selector \in 0 .. Selectors - 1 :
         string' = IF selector > MaxValidSelector(count) THEN string
                   ELSE Append(string, selector % count)
    /\ UNCHANGED <<length, count>>

RandomStringNext == DrawBlock \/ TakeSelector

(* The random bytes and the characters hex and base64 make of them, before *)
(* slice(0, length).                                                       *)
HexChars(len) == 2 * ((len + 1) \div 2)

Base64Bytes(len) == (3 * len + 3) \div 4

Base64Chars(bytes) == (8 * bytes + 5) \div 6    \* without the padding

Accepted16(n) == {selector \in 0 .. Selectors - 1 : selector <= MaxValidSelector(n)}

(* No character is likelier than another: as many of the selectors that    *)
(* are accepted stand for each of them, and only for those there are.      *)
NoCharacterIsLikelier ==
    /\ \A k, l \in 0 .. count - 1 :
         Cardinality({s \in Accepted16(count) : s % count = k})
             = Cardinality({s \in Accepted16(count) : s % count = l})
    /\ \A i \in DOMAIN string : string[i] \in 0 .. count - 1
    /\ Accepted16(count) # {}

(* The string is never longer than asked for, and what hex and base64 cut  *)
(* theirs from is long enough and reaches no padding.                      *)
LengthsAreKept ==
    /\ Len(string) <= length
    /\ HexChars(length) >= length /\ Base64Chars(Base64Bytes(length)) >= length

=============================================================================
