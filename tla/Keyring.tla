------------------------------- MODULE Keyring --------------------------------
(***************************************************************************)
(* The notary key of a process (src/src/keyring.rs) and the hex codec its  *)
(* seed goes through (src/src/hex.rs).  A text is a sequence of            *)
(* characters.  KeyPair::seeded is injective: a key is its seed material.  *)
(***************************************************************************)
EXTENDS Naturals, Sequences

CONSTANTS
    MinSeedBytes,    \* MIN_SEED_BYTES
    DefaultDevSeed,  \* DEFAULT_DEV_SEED
    Rejected,        \* an Err
    Null             \* None, or a variable that is not set

Blank == "blank"  \* any whitespace character

\* str::trim
Trim(text) ==
    LET inked == { i \in DOMAIN text : text[i] # Blank }
        first == CHOOSE i \in inked : \A j \in inked : i <= j
        last  == CHOOSE i \in inked : \A j \in inked : j <= i
    IN  IF inked = {} THEN <<>> ELSE SubSeq(text, first, last)

Lower == <<"0", "1", "2", "3", "4", "5", "6", "7", "8", "9",
           "a", "b", "c", "d", "e", "f">>
Upper == <<"0", "1", "2", "3", "4", "5", "6", "7", "8", "9",
           "A", "B", "C", "D", "E", "F">>

IsNibble(c, n) == Lower[n + 1] = c \/ Upper[n + 1] = c
HexNibble(c) == CHOOSE n \in 0 .. 15 : IsNibble(c, n)

WithoutPrefix(text) ==
    IF Len(text) >= 2 /\ text[1] = "0" /\ text[2] \in {"x", "X"}
    THEN SubSeq(text, 3, Len(text))
    ELSE text

HexDecode(text) ==
    LET body == WithoutPrefix(Trim(text))
    IN  IF /\ Len(body) % 2 = 0
           /\ \A i \in DOMAIN body : \E n \in 0 .. 15 : IsNibble(body[i], n)
        THEN [k \in 1 .. Len(body) \div 2 |->
                 16 * HexNibble(body[2 * k - 1]) + HexNibble(body[2 * k])]
        ELSE Rejected

-----------------------------------------------------------------------------
(* The reference: what a text means, said of its places and not computed.  *)

\* Text has only blanks outside of the places after first and up to last.
BlankOutside(text, first, last) ==
    \A i \in DOMAIN text : i <= first \/ last < i => text[i] = Blank

\* After place d there are n characters and then blanks; up to it there are
\* blanks, or blanks and a prefix.
BodyAt(text, d, n) ==
    /\ d + n <= Len(text)
    /\ \/ BlankOutside(text, d, d + n)
       \/ /\ d >= 2 /\ text[d - 1] = "0" /\ text[d] \in {"x", "X"}
          /\ BlankOutside(text, d - 2, d + n)

\* Text spells bytes, with two hex digits each.
Spells(text, bytes) ==
    \E d \in 0 .. Len(text) :
        /\ BodyAt(text, d, 2 * Len(bytes))
        /\ \A k \in DOMAIN bytes : \E hi, lo \in 0 .. 15 :
              /\ IsNibble(text[d + 2 * k - 1], hi) /\ IsNibble(text[d + 2 * k], lo)
              /\ bytes[k] = 16 * hi + lo

\* Text spells n bytes or more.
SpellsAtLeast(text, n) ==
    \E d \in 0 .. Len(text), m \in n .. Len(text) :
        /\ BodyAt(text, d, 2 * m)
        /\ \A k \in 1 .. 2 * m : \E v \in 0 .. 15 : IsNibble(text[d + k], v)

\* Text is name, up to blanks around it.
Names(text, name) ==
    \E first, last \in DOMAIN text :
        /\ first <= last /\ text[first] # Blank /\ text[last] # Blank
        /\ BlankOutside(text, first - 1, last)
        /\ name = SubSeq(text, first, last)

-----------------------------------------------------------------------------
Dev(seed) ==
    LET named == IF seed # Null /\ Trim(seed) # <<>> THEN Trim(seed) ELSE DefaultDevSeed
    IN  [mode |-> "seeded-dev", key |-> [dev |-> named], dev_seed |-> named]

LongEnough_Over(seed) == Len(seed) > MinSeedBytes
LongEnough(seed) == Len(seed) >= MinSeedBytes

FromEnvSeed(text) ==
    LET seed == HexDecode(Trim(text))
    IN  IF seed # Rejected /\ LongEnough(seed)
        THEN [mode |-> "env-key", key |-> [raw |-> seed], dev_seed |-> Null]
        ELSE Rejected

\* A seed that is set but rejected falls back to the development key.
FromEnvMap(sign_seed, dev_seed) ==
    IF sign_seed # Null /\ Trim(sign_seed) # <<>> /\ FromEnvSeed(sign_seed) # Rejected
    THEN FromEnvSeed(sign_seed)
    ELSE Dev(dev_seed)

\* A key id is derived from the key.
KeyId(key) == [id_of |-> key]

\* GET /keyring
ToJson(keyring) ==
    [mode |-> keyring.mode, key_id |-> KeyId(keyring.key), public |-> keyring.key,
     dev_seed |-> keyring.dev_seed]
==============================================================================
