----------------------------- MODULE Timestamps -----------------------------
(***************************************************************************)
(* How stored timestamps compare.  helpers.go writes every time as the     *)
(* text time.RFC3339Nano makes of it, which drops trailing zeros of the    *)
(* fraction and, when nothing is left, the point; SQLite then compares     *)
(* texts.  An instant is a number of ticks; a second has Base ^ Places of  *)
(* them, written as Places digits in base Base.                            *)
(***************************************************************************)
EXTENDS Naturals, Sequences

CONSTANTS Base, Places

(* The second line is what ^ means, of which the provers know nothing. *)
ASSUME TimestampAssumption ==
  /\ Base \in Nat \ {0} /\ Places \in Nat
  /\ Base ^ 0 = 1 /\ \A k \in 1..Places : Base ^ k = Base * Base ^ (k - 1)

PerSecond == Base ^ Places

(* The fraction digit at place k, of which trailing zeros are dropped. *)
Digit(t, k) == (t \div Base ^ (Places - k)) % Base

(* How many digits the text shows. *)
Shown(t) ==
  LET nonzero == {k \in 1..Places : Digit(t, k) # 0}
  IN IF nonzero = {} THEN 0
     ELSE CHOOSE k \in nonzero : \A n \in nonzero : n <= k

(* Characters by their order: "." before the digits before "Z". *)
Point == 0
Numeral(d) == d + 1
Zulu == Base + 1

(* The text, with the part up to the seconds, which has a fixed width, as  *)
(* one character.                                                          *)
Text(t) ==
  <<t \div PerSecond>>
  \o (IF Shown(t) = 0 THEN <<>>
      ELSE <<Point>> \o [k \in 1..Shown(t) |-> Numeral(Digit(t, k))])
  \o <<Zulu>>

(* Byte-wise comparison of two texts, SQLite's BINARY collation. *)
TextLess(a, b) ==
  \E n \in 1..Len(Text(a)) :
    /\ n <= Len(Text(b))
    /\ \A m \in 1..n - 1 : Text(a)[m] = Text(b)[m]
    /\ Text(a)[n] < Text(b)[n]

TextAtMost(a, b) == ~TextLess(b, a)

(* a is b with the last digits of its fraction cut off. *)
CutOff(a, b) == \E k \in 1..Places : (b \div Base ^ k) * Base ^ k = a
=============================================================================
