------------------------------- MODULE Base64 -------------------------------
(***************************************************************************)
(* Base64 as the database's web socket has it (SocketRocket/fbase64.c):    *)
(* f_b64_ntop writes bytes as characters into a buffer of a given size,    *)
(* f_b64_pton reads them again.  Between the two a character of the text   *)
(* may be changed, lost or preceded by white space.                        *)
(*                                                                         *)
(* A character is its place in the alphabet, Pad64, white space or one     *)
(* that is none of them.  A loop takes one turn at a step.                 *)
(***************************************************************************)
EXTENDS Integers, Sequences, SequencesExt

CONSTANTS Sources,         \* the sequences of bytes to encode
          SlackSizes,      \* the encoder's targsize, above what it needs
          DecodeSizes      \* the decoder's targsize, above the bytes encoded

VARIABLES
  src, chars, targsize,    \* the bytes; the text; the size of the target at hand
  spot,                    \* the place reached in src, then in chars
  target, b64state,        \* the decoded bytes, one of them partial; state
  b64phase                 \* encode, wire, decode, one, two: pads to come; done, failed, refused

base64Vars == <<src, chars, targsize, spot, target, b64state, b64phase>>

Pad64 == 64
Space == 65
Bad == 66

EncodedSize(n) == 4 * ((n + 2) \div 3) + 1

(* The four characters of three bytes.                                     *)
Output(a, b, c) ==
  <<a \div 4, (a % 4) * 16 + b \div 16, (b % 16) * 4 + c \div 64, c % 64>>

(* What is left of the source, filled with zeros.                          *)
Input(i) == IF spot + i <= Len(src) THEN src[spot + i] ELSE 0

-----------------------------------------------------------------------------
(* f_b64_ntop                                                              *)

EncodeTriple ==
  /\ b64phase = "encode" /\ Len(src) - spot > 2
  /\ IF Len(chars) + 4 > targsize
     THEN b64phase' = "refused" /\ UNCHANGED <<chars, spot>>
     ELSE /\ chars' = chars \o Output(Input(1), Input(2), Input(3))
          /\ spot' = spot + 3 /\ UNCHANGED b64phase
  /\ UNCHANGED <<src, targsize, target, b64state>>

(* Mutant: the size is not looked at again for the padded characters.      *)
RestFitsAlways == TRUE

RestFits == Len(chars) + 4 <= targsize

EncodeRest ==
  /\ b64phase = "encode" /\ Len(src) - spot \in {1, 2}
  /\ LET output == Output(Input(1), Input(2), 0) IN
     IF ~ RestFits
     THEN b64phase' = "refused" /\ UNCHANGED <<chars, spot>>
     ELSE /\ chars' = chars \o <<output[1], output[2],
                                IF Len(src) - spot = 1 THEN Pad64 ELSE output[3], Pad64>>
          /\ spot' = Len(src) /\ UNCHANGED b64phase
  /\ UNCHANGED <<src, targsize, target, b64state>>

(* The terminator needs a byte too.                                        *)
EncodeEnd ==
  /\ b64phase = "encode" /\ spot = Len(src)
  /\ b64phase' = IF Len(chars) >= targsize THEN "refused" ELSE "wire"
  /\ UNCHANGED <<src, chars, targsize, spot, target, b64state>>

-----------------------------------------------------------------------------
(* The text reaches the decoder, as it was or with one change.             *)
Altered ==
  {chars} \cup UNION {{ReplaceAt(chars, i, c) : c \in {0, 17, 63, Pad64, Bad}}
                       \cup {InsertAt(chars, i, Space), RemoveAt(chars, i)} : i \in DOMAIN chars}

Deliver(text, size) ==
  /\ b64phase = "wire" /\ text \in Altered /\ Len(src) + size >= 0
  /\ chars' = text /\ targsize' = Len(src) + size
  /\ spot' = 0 /\ b64phase' = "decode"
  /\ UNCHANGED <<src, target, b64state>>

-----------------------------------------------------------------------------
(* f_b64_pton                                                              *)

tarindex == IF b64state = 0 THEN Len(target) ELSE Len(target) - 1

(* The byte at tarindex gets the last bits of a character, and the rest    *)
(* starts the next byte.                                                   *)
Split(digit, over) ==
  Append([target EXCEPT ![Len(target)] = @ + digit \div over],
         (digit % over) * (256 \div over))

Store(digit) ==
  CASE b64state = 0 -> Append(target, digit * 4)
    [] b64state = 1 -> Split(digit, 16)
    [] b64state = 2 -> Split(digit, 4)
    [] b64state = 3 -> [target EXCEPT ![Len(target)] = @ + digit]

TooSmall == IF b64state \in {1, 2} THEN tarindex + 1 >= targsize ELSE tarindex >= targsize

DecodeChar ==
  /\ b64phase = "decode" /\ spot < Len(chars) /\ chars[spot + 1] # Pad64
  /\ LET ch == chars[spot + 1] IN
     CASE ch = Space -> spot' = spot + 1 /\ UNCHANGED <<target, b64state, b64phase>>
       [] ch = Bad -> b64phase' = "failed" /\ UNCHANGED <<spot, target, b64state>>
       [] OTHER -> IF TooSmall
                   THEN b64phase' = "failed" /\ UNCHANGED <<spot, target, b64state>>
                   ELSE /\ target' = Store(ch) /\ b64state' = (b64state + 1) % 4
                        /\ spot' = spot + 1 /\ UNCHANGED b64phase
  /\ UNCHANGED <<src, chars, targsize>>

(* The first pad: after two characters another one has to come.            *)
DecodePad ==
  /\ b64phase = "decode" /\ spot < Len(chars) /\ chars[spot + 1] = Pad64
  /\ spot' = spot + 1
  /\ b64phase' = CASE b64state \in {0, 1} -> "failed"
                   [] b64state = 2 -> "two"
                   [] b64state = 3 -> "one"
  /\ UNCHANGED <<src, chars, targsize, target, b64state>>

DecodeSecondPad ==
  /\ b64phase = "two"
  /\ IF spot < Len(chars) /\ chars[spot + 1] \in {Space, Pad64}
     THEN /\ spot' = spot + 1
          /\ b64phase' = IF chars[spot + 1] = Pad64 THEN "one" ELSE "two"
     ELSE b64phase' = "failed" /\ UNCHANGED spot
  /\ UNCHANGED <<src, chars, targsize, target, b64state>>

(* Mutant: the bits past the last byte are not looked at.                  *)
ExtraBitsAllowed == TRUE

NoExtraBits == Last(target) = 0

(* After the pads only white space.                                        *)
DecodeTrailing ==
  /\ b64phase = "one"
  /\ IF spot < Len(chars)
     THEN /\ spot' = spot + 1
          /\ b64phase' = IF chars[spot + 1] = Space THEN "one" ELSE "failed"
     ELSE b64phase' = (IF NoExtraBits THEN "done" ELSE "failed") /\ UNCHANGED spot
  /\ UNCHANGED <<src, chars, targsize, target, b64state>>

DecodeEnd ==
  /\ b64phase = "decode" /\ spot = Len(chars)
  /\ b64phase' = IF b64state = 0 THEN "done" ELSE "failed"
  /\ UNCHANGED <<src, chars, targsize, spot, target, b64state>>

Base64Init ==
  /\ src \in Sources /\ targsize \in {EncodedSize(Len(src)) + s : s \in SlackSizes} \cap Nat
  /\ chars = << >> /\ spot = 0 /\ target = << >> /\ b64state = 0 /\ b64phase = "encode"

Base64Next ==
  \/ EncodeTriple \/ EncodeRest \/ EncodeEnd
  \/ \E size \in DecodeSizes, text \in Altered : Deliver(text, size)
  \/ DecodeChar \/ DecodePad \/ DecodeSecondPad \/ DecodeTrailing \/ DecodeEnd

-----------------------------------------------------------------------------
(* The first tarindex bytes are what f_b64_pton returned.                  *)
Decoded == SubSeq(target, 1, tarindex)
Compact == SelectSeq(chars, LAMBDA ch : ch # Space)

(* The encoding of bytes, place by place.                                  *)
Encoding(bytes) ==
  LET At(i) == IF i <= Len(bytes) THEN bytes[i] ELSE 0 IN
  [k \in 1 .. EncodedSize(Len(bytes)) - 1 |->
     LET i == 3 * ((k - 1) \div 4)
         j == ((k - 1) % 4) + 1
     IN  IF i + j > Len(bytes) + 1 THEN Pad64 ELSE Output(At(i + 1), At(i + 2), At(i + 3))[j]]

(* Whatever was changed on the way, f_b64_pton returns bytes only for      *)
(* their own encoding, white space aside; and it does read an encoding     *)
(* when its target has a byte to spare.                                    *)
DecodedIsText ==
  /\ b64phase = "done" => Compact = Encoding(Decoded)
  /\ b64phase = "failed" => Compact # Encoding(src) \/ targsize <= Len(src)

(* Neither direction writes past the end of its target.                    *)
WithinTarget ==
  /\ b64phase = "encode" => Len(chars) <= targsize
  /\ b64phase = "wire" => Len(chars) < targsize
  /\ b64phase \in {"decode", "one", "two", "done", "failed"} => Len(target) <= targsize

=============================================================================
