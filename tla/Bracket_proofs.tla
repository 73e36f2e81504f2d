---------------------------- MODULE Bracket_proofs ----------------------------
(***************************************************************************)
(* What the bracket builder does for every bracket of 2 to 256 slots, any  *)
(* seeds and any match rows: its recursive definition has a value, every   *)
(* node is built from two nodes of earlier rounds, and the nodes of two    *)
(* related sets of rows are related.  Induction over rounds is had from a  *)
(* smallest counterexample.                                                *)
(***************************************************************************)
EXTENDS Bracket, FiniteSetTheorems, TLAPS

\* What holds of a number as soon as it holds of all smaller ones holds of all.
LEMMA Rising ==
    ASSUME NEW n \in Nat, NEW Good,
           \A l \in 0..n : (\A m \in 0..n : m < l => m \in Good) => l \in Good
    PROVE  \A l \in 0..n : l \in Good
<1> DEFINE Bad == (0..n) \ Good
<1> SUFFICES ASSUME Bad # {} PROVE FALSE
  OBVIOUS
<1>1. PICK l \in Bad : \A m \in Bad : <<m, l>> \notin OpToRel(<, Nat)
  <2>1. Bad \subseteq Nat
    OBVIOUS
  <2> HIDE DEF Bad
  <2> QED
    BY <2>1, NatLessThanWellFounded, WFMin
<1>2. ASSUME NEW m \in 0..n, m < l
      PROVE  m \in Good
  <2>1. m \in Nat /\ l \in Nat
    OBVIOUS
  <2>2. <<m, l>> \in OpToRel(<, Nat)
    BY <1>2, <2>1 DEF OpToRel
  <2> QED
    BY <1>1, <2>2
<1> QED
  BY <1>1, <1>2

-----------------------------------------------------------------------------
(* The topology *)

LEMMA Powers ==
    ASSUME NEW n \in 0..MaxRounds
    PROVE  /\ 2^n \in Nat \ {0}
           /\ n > 0 => 2^n = 2 * 2^(n - 1) /\ 2^(n - 1) \in Nat \ {0}
           /\ n = 0 => 2^n = 1
<1>1. n \in {0, 1, 2, 3, 4, 5, 6, 7, 8}
  BY DEF MaxRounds
<1>2. /\ 2^0 = 1 /\ 2^1 = 2 /\ 2^2 = 4 /\ 2^3 = 8 /\ 2^4 = 16 /\ 2^5 = 32 /\ 2^6 = 64 /\ 2^7 = 128
      /\ 2^8 = 256
  OBVIOUS
<1>3. CASE n = 0
  BY <1>2, <1>3
<1>4. CASE n \in {1, 2, 3, 4, 5, 6, 7, 8}
  <2>1. CASE n = 1
    BY <1>2, <2>1
  <2>2. CASE n = 2
    BY <1>2, <2>2
  <2>3. CASE n = 3
    BY <1>2, <2>3
  <2>4. CASE n = 4
    BY <1>2, <2>4
  <2>5. CASE n = 5
    BY <1>2, <2>5
  <2>6. CASE n = 6
    BY <1>2, <2>6
  <2>7. CASE n = 7
    BY <1>2, <2>7
  <2>8. CASE n = 8
    BY <1>2, <2>8
  <2> QED
    BY <1>4, <2>1, <2>2, <2>3, <2>4, <2>5, <2>6, <2>7, <2>8
<1> QED
  BY <1>1, <1>3, <1>4

\* The number of rounds that are built, and what is in each.
Depth(rounds, format) ==
    IF format = "DOUBLE_ELIMINATION" THEN 3*rounds - 1 ELSE IF rounds >= 2 THEN rounds + 1 ELSE rounds
Layer(rounds, format, l) ==
    IF l <= rounds THEN MainRound(rounds, l)
    ELSE IF format # "DOUBLE_ELIMINATION" THEN {BronzeKey(rounds)}
    ELSE IF l < 3*rounds - 1 THEN LowerRound(rounds, l - rounds) ELSE {GrandFinalKey}
Keys(rounds, format) == UNION {Layer(rounds, format, l) : l \in 1..Depth(rounds, format)}

LEMMA Joined ==
    ASSUME NEW S, NEW s \in Seq(S), NEW t \in Seq(S)
    PROVE  /\ s \o t \in Seq(S) /\ Len(s \o t) = Len(s) + Len(t)
           /\ \A i \in 1..(Len(s) + Len(t)) : (s \o t)[i] = IF i <= Len(s) THEN s[i] ELSE t[i - Len(s)]
OBVIOUS

LEMMA LayersAre ==
    ASSUME NEW rounds \in 1..MaxRounds, NEW format
    PROVE  /\ Len(Layers(rounds, format)) = Depth(rounds, format)
           /\ Depth(rounds, format) \in Nat /\ Depth(rounds, format) >= rounds
           /\ \A l \in 1..Depth(rounds, format) : Layers(rounds, format)[l] = Layer(rounds, format, l)
<1> DEFINE main == [r \in 1..rounds |-> MainRound(rounds, r)]
           lower == [q \in 1..2*(rounds - 1) |-> LowerRound(rounds, q)]
           final == {GrandFinalKey}
           third == {BronzeKey(rounds)}
           all == {main[r] : r \in 1..rounds} \cup {lower[q] : q \in 1..2*(rounds - 1)} \cup {final, third}
<1>1. rounds \in Nat /\ rounds >= 1 /\ 2*(rounds - 1) \in Nat
  BY DEF MaxRounds
<1>2. \A l \in 1..rounds : main[l] = MainRound(rounds, l)
  OBVIOUS
<1>3. \A l \in 1..2*(rounds - 1) : lower[l] = LowerRound(rounds, l)
  OBVIOUS
<1>4. Layers(rounds, format) = main \o (IF format = "DOUBLE_ELIMINATION" THEN lower \o <<final>>
                                        ELSE IF rounds >= 2 THEN <<third>> ELSE <<>>)
  BY DEF Layers
<1>5. DOMAIN main = 1..rounds /\ DOMAIN lower = 1..2*(rounds - 1)
      /\ main = [r \in 1..rounds |-> main[r]] /\ lower = [q \in 1..2*(rounds - 1) |-> lower[q]]
  OBVIOUS
<1> HIDE DEF main, lower
<1>6. main \in [1..rounds -> all] /\ lower \in [1..2*(rounds - 1) -> all] /\ final \in all /\ third \in all
  BY <1>5
<1> HIDE DEF all
<1>7. main \in Seq(all) /\ lower \in Seq(all) /\ Len(main) = rounds /\ Len(lower) = 2*(rounds - 1)
  BY <1>1, <1>5, <1>6
<1>8. /\ <<final>> \in Seq(all) /\ Len(<<final>>) = 1 /\ <<final>>[1] = final
      /\ <<third>> \in Seq(all) /\ Len(<<third>>) = 1 /\ <<third>>[1] = third
  BY <1>6
<1> HIDE DEF final, third
<1>9. CASE format = "DOUBLE_ELIMINATION"
  <2> DEFINE tail == lower \o <<final>>
             whole == main \o tail
  <2>1. /\ tail \in Seq(all) /\ Len(tail) = 2*(rounds - 1) + 1
        /\ \A l \in 1..(2*(rounds - 1) + 1) : tail[l] = IF l <= 2*(rounds - 1) THEN lower[l]
                                                         ELSE <<final>>[l - 2*(rounds - 1)]
    BY <1>7, <1>8, Joined
  <2> HIDE DEF tail
  <2>0. /\ main \o tail \in Seq(all) /\ Len(main \o tail) = Len(main) + Len(tail)
        /\ \A l \in 1..(Len(main) + Len(tail)) : (main \o tail)[l] = IF l <= Len(main) THEN main[l]
                                                                   ELSE tail[l - Len(main)]
    <3>1. main \in Seq(all) /\ tail \in Seq(all)
      BY <1>7, <2>1
    <3> HIDE DEF main
    <3> QED
      BY <3>1, Joined
  <2>2. /\ Len(whole) = rounds + (2*(rounds - 1) + 1)
        /\ \A l \in 1..(rounds + (2*(rounds - 1) + 1)) : whole[l] = IF l <= rounds THEN main[l] ELSE tail[l - rounds]
    BY <1>7, <2>0, <2>1
  <2>3. Layers(rounds, format) = whole
    BY <1>4, <1>9 DEF tail
  <2> HIDE DEF whole
  <2>4. Depth(rounds, format) = 3*rounds - 1 /\ rounds + (2*(rounds - 1) + 1) = 3*rounds - 1
    BY <1>1, <1>9 DEF Depth
  <2>5. ASSUME NEW l \in 1..(3*rounds - 1)
        PROVE  whole[l] = Layer(rounds, format, l)
    <3>1. CASE l <= rounds
      BY <1>1, <1>2, <2>2, <2>4, <3>1 DEF Layer
    <3>2. CASE l > rounds /\ l < 3*rounds - 1
      <4>1. whole[l] = lower[l - rounds] /\ l - rounds \in 1..2*(rounds - 1)
        BY <1>1, <2>1, <2>2, <2>4, <3>2
      <4> QED
        BY <1>1, <1>3, <1>9, <3>2, <4>1 DEF Layer
    <3>3. CASE l = 3*rounds - 1
      <4>1. whole[l] = tail[l - rounds] /\ l - rounds = 2*(rounds - 1) + 1
        BY <1>1, <2>2, <2>4, <3>3
      <4>2. tail[2*(rounds - 1) + 1] = <<final>>[1]
        BY <1>1, <2>1
      <4> QED
        BY <1>1, <1>8, <1>9, <3>3, <4>1, <4>2 DEF Layer, final
    <3> QED
      BY <1>1, <3>1, <3>2, <3>3
  <2> QED
    BY <1>1, <2>2, <2>3, <2>4, <2>5
<1>10. CASE format # "DOUBLE_ELIMINATION" /\ rounds >= 2
  <2> DEFINE tail == <<third>>
             whole == main \o tail
  <2>1. Layers(rounds, format) = whole
    BY <1>4, <1>10
  <2>2. tail \in Seq(all) /\ Len(tail) = 1 /\ tail[1] = third
    BY <1>8
  <2> HIDE DEF tail
  <2>3. /\ Len(whole) = rounds + 1
        /\ \A l \in 1..(rounds + 1) : whole[l] = IF l <= rounds THEN main[l] ELSE tail[l - rounds]
    <3>1. main \in Seq(all) /\ tail \in Seq(all)
      BY <1>7, <2>2
    <3>2. Len(main) = rounds /\ Len(tail) = 1
      BY <1>7, <2>2
    <3> HIDE DEF main
    <3>3. /\ Len(whole) = Len(main) + Len(tail)
          /\ \A l \in 1..(Len(main) + Len(tail)) : whole[l] = IF l <= Len(main) THEN main[l]
                                                            ELSE tail[l - Len(main)]
      BY <3>1, Joined
    <3> QED
      BY <3>2, <3>3
  <2> HIDE DEF whole
  <2>4. ASSUME NEW l \in 1..(rounds + 1)
        PROVE  whole[l] = Layer(rounds, format, l)
    <3>1. CASE l <= rounds
      <4>1. l \in 1..rounds /\ whole[l] = main[l]
        BY <1>1, <2>3, <3>1
      <4> QED
        BY <1>2, <3>1, <4>1 DEF Layer
    <3>2. CASE ~(l <= rounds)
      <4>1. l - rounds = 1
        BY <1>1, <3>2
      <4>2. whole[l] = third
        BY <2>2, <2>3, <3>2, <4>1
      <4> QED
        BY <1>10, <3>2, <4>2 DEF Layer, third
    <3> QED
      BY <3>1, <3>2
  <2> QED
    BY <1>1, <1>10, <2>1, <2>3, <2>4 DEF Depth
<1>11. CASE format # "DOUBLE_ELIMINATION" /\ ~(rounds >= 2)
  <2>1. Layers(rounds, format) = main \o <<>>
    BY <1>4, <1>11
  <2>2. main \o <<>> = main
    BY <1>7
  <2> QED
    BY <1>1, <1>2, <1>7, <1>11, <2>1, <2>2 DEF Depth, Layer
<1> QED
  BY <1>9, <1>10, <1>11

-----------------------------------------------------------------------------
(* A node is fed by two nodes of earlier rounds, and feeds at most one. *)

Opening(key) == key[1] = "MAIN" /\ key[2] = 1
Place(rounds, key) ==
    IF key[1] = "MAIN" THEN key[2] ELSE IF key[1] = "LOWER" THEN rounds + key[2]
    ELSE IF key[1] = "BRONZE" THEN rounds + 1 ELSE 3*rounds - 1

LEMMA PlaceOfLayer ==
    ASSUME NEW rounds \in 1..MaxRounds, NEW format \in Formats, NEW l \in 1..Depth(rounds, format),
           NEW key \in Layer(rounds, format, l)
    PROVE  Place(rounds, key) = l
<1>1. rounds \in Nat /\ rounds >= 1 /\ l \in Nat /\ l >= 1 /\ l <= Depth(rounds, format)
  BY LayersAre DEF MaxRounds
<1>2. CASE l <= rounds
  <2>1. key[1] = "MAIN" /\ key[2] = l
    BY <1>2 DEF Layer, MainRound
  <2> QED
    BY <2>1 DEF Place
<1>3. CASE l > rounds /\ format # "DOUBLE_ELIMINATION"
  <2>1. key = BronzeKey(rounds) /\ l = rounds + 1
    BY <1>1, <1>3 DEF Layer, Depth
  <2> QED
    BY <2>1 DEF Place, BronzeKey
<1>4. CASE l > rounds /\ format = "DOUBLE_ELIMINATION" /\ l < 3*rounds - 1
  <2>1. key[1] = "LOWER" /\ key[2] = l - rounds
    BY <1>1, <1>4 DEF Layer, LowerRound
  <2> QED
    BY <1>1, <2>1 DEF Place
<1>5. CASE l > rounds /\ format = "DOUBLE_ELIMINATION" /\ ~(l < 3*rounds - 1)
  <2>1. key = GrandFinalKey /\ l = 3*rounds - 1
    BY <1>1, <1>5 DEF Layer, Depth
  <2> QED
    BY <2>1 DEF Place, GrandFinalKey
<1> QED
  BY <1>1, <1>2, <1>3, <1>4, <1>5

\* The keys of a bracket, kind by kind.
LEMMA KeysByKind ==
    ASSUME NEW rounds \in 1..MaxRounds, NEW format \in Formats
    PROVE  /\ \A r \in 1..rounds : MainRound(rounds, r) \subseteq Keys(rounds, format)
           /\ format = "DOUBLE_ELIMINATION" =>
                /\ \A q \in 1..2*(rounds - 1) : LowerRound(rounds, q) \subseteq Keys(rounds, format)
                /\ GrandFinalKey \in Keys(rounds, format)
           /\ format # "DOUBLE_ELIMINATION" /\ rounds >= 2 => BronzeKey(rounds) \in Keys(rounds, format)
           /\ \A key \in Keys(rounds, format) :
                \/ \E r \in 1..rounds : key \in MainRound(rounds, r)
                \/ format = "DOUBLE_ELIMINATION" /\ \E q \in 1..2*(rounds - 1) : key \in LowerRound(rounds, q)
                \/ format = "DOUBLE_ELIMINATION" /\ key = GrandFinalKey
                \/ format # "DOUBLE_ELIMINATION" /\ rounds >= 2 /\ key = BronzeKey(rounds)
<1>1. rounds \in Nat /\ rounds >= 1
  BY DEF MaxRounds
<1>2. /\ format = "DOUBLE_ELIMINATION" => Depth(rounds, format) = 3*rounds - 1
      /\ format # "DOUBLE_ELIMINATION" => Depth(rounds, format) = IF rounds >= 2 THEN rounds + 1 ELSE rounds
  BY DEF Depth
<1>3. ASSUME NEW r \in 1..rounds
      PROVE  MainRound(rounds, r) \subseteq Keys(rounds, format)
  <2>1. r \in 1..Depth(rounds, format) /\ Layer(rounds, format, r) = MainRound(rounds, r)
    BY <1>1, <1>2 DEF Layer
  <2> QED
    BY <2>1 DEF Keys
<1>4. ASSUME format = "DOUBLE_ELIMINATION", NEW q \in 1..2*(rounds - 1)
      PROVE  LowerRound(rounds, q) \subseteq Keys(rounds, format)
  <2>1. rounds + q \in 1..Depth(rounds, format) /\ rounds + q > rounds /\ rounds + q < 3*rounds - 1
        /\ (rounds + q) - rounds = q
    BY <1>1, <1>2, <1>4
  <2>2. Layer(rounds, format, rounds + q) = LowerRound(rounds, q)
    BY <1>1, <1>4, <2>1 DEF Layer
  <2> QED
    BY <2>1, <2>2 DEF Keys
<1>5. ASSUME format = "DOUBLE_ELIMINATION"
      PROVE  GrandFinalKey \in Keys(rounds, format)
  <2>1. 3*rounds - 1 \in 1..Depth(rounds, format) /\ ~(3*rounds - 1 <= rounds) /\ ~(3*rounds - 1 < 3*rounds - 1)
    BY <1>1, <1>2, <1>5
  <2>2. Layer(rounds, format, 3*rounds - 1) = {GrandFinalKey}
    BY <1>5, <2>1 DEF Layer
  <2> QED
    BY <2>1, <2>2 DEF Keys
<1>6. ASSUME format # "DOUBLE_ELIMINATION", rounds >= 2
      PROVE  BronzeKey(rounds) \in Keys(rounds, format)
  <2>1. rounds + 1 \in 1..Depth(rounds, format) /\ ~(rounds + 1 <= rounds)
    BY <1>1, <1>2, <1>6
  <2>2. Layer(rounds, format, rounds + 1) = {BronzeKey(rounds)}
    BY <1>6, <2>1 DEF Layer
  <2> QED
    BY <2>1, <2>2 DEF Keys
<1>7. ASSUME NEW key \in Keys(rounds, format)
      PROVE  \/ \E r \in 1..rounds : key \in MainRound(rounds, r)
             \/ format = "DOUBLE_ELIMINATION" /\ \E q \in 1..2*(rounds - 1) : key \in LowerRound(rounds, q)
             \/ format = "DOUBLE_ELIMINATION" /\ key = GrandFinalKey
             \/ format # "DOUBLE_ELIMINATION" /\ rounds >= 2 /\ key = BronzeKey(rounds)
  <2>1. PICK l \in 1..Depth(rounds, format) : key \in Layer(rounds, format, l)
    BY DEF Keys
  <2>2. CASE l <= rounds
    <3>1. l \in 1..rounds /\ key \in MainRound(rounds, l)
      BY <1>1, <2>1, <2>2 DEF Layer
    <3> QED
      BY <3>1
  <2>3. CASE l > rounds /\ format = "DOUBLE_ELIMINATION" /\ l < 3*rounds - 1
    <3>1. l - rounds \in 1..2*(rounds - 1) /\ key \in LowerRound(rounds, l - rounds)
      BY <1>1, <2>1, <2>3 DEF Layer
    <3> QED
      BY <2>3, <3>1
  <2>4. CASE l > rounds /\ format = "DOUBLE_ELIMINATION" /\ ~(l < 3*rounds - 1)
    BY <1>1, <2>1, <2>4 DEF Layer
  <2>5. CASE l > rounds /\ format # "DOUBLE_ELIMINATION"
    BY <1>1, <1>2, <2>1, <2>5 DEF Layer
  <2>6. l <= rounds \/ l > rounds
    BY <1>1, <2>1, LayersAre
  <2> QED
    BY <2>2, <2>3, <2>4, <2>5, <2>6
<1> QED
  BY <1>3, <1>4, <1>5, <1>6, <1>7

\* How many nodes the rounds have, against the rounds that feed them.
LEMMA MainSizes ==
    ASSUME NEW rounds \in 1..MaxRounds, NEW r \in 1..rounds
    PROVE  /\ 2^(rounds - r) \in Nat \ {0}
           /\ r > 1 => r - 1 \in 1..rounds /\ 2^(rounds - (r - 1)) = 2 * 2^(rounds - r)
           /\ r = rounds => 2^(rounds - r) = 1
<1>1. rounds - r \in 0..MaxRounds /\ rounds \in Nat /\ r \in Nat /\ MaxRounds = 8
  BY DEF MaxRounds
<1>2. CASE r > 1
  <2>1. rounds - (r - 1) \in 0..MaxRounds /\ rounds - (r - 1) > 0 /\ (rounds - (r - 1)) - 1 = rounds - r
    BY <1>1, <1>2
  <2>2. 2^(rounds - (r - 1)) = 2 * 2^((rounds - (r - 1)) - 1)
    BY <2>1, Powers
  <2>3. 2^(rounds - r) \in Nat \ {0} /\ (rounds - r = 0 => 2^(rounds - r) = 1)
    BY <1>1, Powers
  <2> QED
    BY <1>1, <1>2, <2>1, <2>2, <2>3
<1>3. 2^(rounds - r) \in Nat \ {0} /\ (rounds - r = 0 => 2^(rounds - r) = 1)
  BY <1>1, Powers
<1> QED
  BY <1>1, <1>2, <1>3

LEMMA LowerSizes ==
    ASSUME NEW rounds \in 1..MaxRounds, NEW q \in 1..2*(rounds - 1)
    PROVE  /\ LowerRoundSize(rounds, q) \in Nat \ {0}
           /\ q = 1 => 2^(rounds - 1) = 2 * LowerRoundSize(rounds, q)
           /\ q % 2 = 1 /\ q # 1 => /\ q - 1 \in 1..2*(rounds - 1)
                                    /\ LowerRoundSize(rounds, q - 1) = 2 * LowerRoundSize(rounds, q)
           /\ q % 2 # 1 => /\ q - 1 \in 1..2*(rounds - 1) /\ q \div 2 + 1 \in 2..rounds
                           /\ LowerRoundSize(rounds, q - 1) = LowerRoundSize(rounds, q)
                           /\ 2^(rounds - (q \div 2 + 1)) = LowerRoundSize(rounds, q)
           /\ q = 2*(rounds - 1) => LowerRoundSize(rounds, q) = 1 /\ q % 2 # 1
           /\ LowerRoundSize(rounds, q) = 1 \/ LowerRoundSize(rounds, q) % 2 = 0
<1> DEFINE e == rounds - 2 - (q - 1) \div 2
<1>1. rounds \in Nat /\ q \in Nat /\ q >= 1 /\ q <= 2*(rounds - 1) /\ rounds <= 8 /\ MaxRounds = 8
  BY DEF MaxRounds
<1>2. e \in 0..MaxRounds /\ e + 1 \in 0..MaxRounds
  BY <1>1
<1>3. LowerRoundSize(rounds, q) = 2^e
  BY DEF LowerRoundSize
<1>4. q = 1 => rounds - 1 = e + 1
  BY <1>1
<1>5. q % 2 = 1 /\ q # 1 => q - 1 \in 1..2*(rounds - 1) /\ rounds - 2 - ((q - 1) - 1) \div 2 = e + 1
  BY <1>1
<1>6. q % 2 # 1 => /\ q - 1 \in 1..2*(rounds - 1) /\ rounds - 2 - ((q - 1) - 1) \div 2 = e
                   /\ q \div 2 + 1 \in 2..rounds /\ rounds - (q \div 2 + 1) = e
  BY <1>1
<1>7. q = 2*(rounds - 1) => e = 0 /\ q % 2 # 1
  BY <1>1
<1>8. LowerRoundSize(rounds, q - 1) = 2^(rounds - 2 - ((q - 1) - 1) \div 2)
  BY DEF LowerRoundSize
<1> HIDE DEF e
<1>9. /\ 2^e \in Nat \ {0} /\ (e = 0 => 2^e = 1)
      /\ e > 0 => 2^e = 2 * 2^(e - 1) /\ 2^(e - 1) \in Nat \ {0}
  BY <1>2, Powers
<1>10. e + 1 > 0 /\ (e + 1) - 1 = e /\ e \in Nat
  BY <1>2
<1>11. 2^(e + 1) = 2 * 2^((e + 1) - 1)
  BY <1>2, <1>10, Powers
<1>12. 2^(e + 1) = 2 * 2^e
  BY <1>10, <1>11
<1>13. 2^e = 1 \/ 2^e % 2 = 0
  <2>1. CASE e = 0
    BY <1>9, <2>1
  <2>2. CASE e > 0
    <3>1. PICK h \in Nat : 2^e = 2 * h
      BY <1>9, <2>2
    <3>2. (2 * h) % 2 = 0
      OBVIOUS
    <3> QED
      BY <3>1, <3>2
  <2> QED
    BY <1>10, <2>1, <2>2
<1>14. q = 1 => 2^(rounds - 1) = 2 * 2^e
  BY <1>4, <1>12
<1>15. q % 2 = 1 /\ q # 1 => LowerRoundSize(rounds, q - 1) = 2 * 2^e
  BY <1>5, <1>8, <1>12
<1>16. q % 2 # 1 => LowerRoundSize(rounds, q - 1) = 2^e /\ 2^(rounds - (q \div 2 + 1)) = 2^e
  BY <1>6, <1>8
<1> QED
  BY <1>3, <1>5, <1>6, <1>7, <1>9, <1>13, <1>14, <1>15, <1>16

LEMMA CrossedSlots ==
    ASSUME NEW n \in Nat \ {0}, n = 1 \/ n % 2 = 0, NEW i \in 1..n
    PROVE  Crossed(i, n) \in 1..n /\ Crossed(Crossed(i, n), n) = i
BY DEF Crossed

\* The only side that takes a result of a node.
Pair(i) == (i + 1) \div 2
Half(i) == IF i % 2 = 1 THEN 1 ELSE 2
Taker(rounds, format, feed) ==
    LET kind == feed.key[1]
        round == feed.key[2]
        i == feed.key[3]
    IN  IF kind = "MAIN" /\ feed.result = "winner"
        THEN IF round = rounds THEN <<GrandFinalKey, 1>> ELSE <<<<"MAIN", round + 1, Pair(i)>>, Half(i)>>
        ELSE IF kind = "LOWER"
        THEN IF round = 2*(rounds - 1) THEN <<GrandFinalKey, 2>>
             ELSE IF round % 2 = 1 THEN <<<<"LOWER", round + 1, i>>, 1>>
             ELSE <<<<"LOWER", round + 1, Pair(i)>>, Half(i)>>
        ELSE IF format # "DOUBLE_ELIMINATION" THEN <<BronzeKey(rounds), i>>
        ELSE IF rounds = 1 THEN <<GrandFinalKey, 2>>
        ELSE IF round = 1 THEN <<<<"LOWER", 1, Pair(i)>>, Half(i)>>
        ELSE <<<<"LOWER", 2*round - 2, Crossed(i, LowerRoundSize(rounds, 2*round - 2))>>, 2>>

\* What is true of the feed of side s of a node.
FeedFits(rounds, format, key, s, feed) ==
    /\ feed.key \in Keys(rounds, format) /\ feed.result \in {"winner", "loser"}
    /\ Place(rounds, feed.key) < Place(rounds, key)
    /\ Taker(rounds, format, feed) = <<key, s>>
    /\ feed.result = "loser" => /\ feed.key[1] = "MAIN"
                                /\ IF format = "DOUBLE_ELIMINATION" THEN Place(rounds, key) > rounds
                                   ELSE key = BronzeKey(rounds)

LEMMA PairsAndHalves ==
    ASSUME NEW i \in Nat \ {0}
    PROVE  Pair(2*i - 1) = i /\ Half(2*i - 1) = 1 /\ Pair(2*i) = i /\ Half(2*i) = 2
BY DEF Pair, Half

\* A feed by its parts.
LEMMA FeedParts ==
    ASSUME NEW kind, NEW round, NEW i
    PROVE  /\ WinnerOf(kind, round, i).key = <<kind, round, i>> /\ WinnerOf(kind, round, i).result = "winner"
           /\ LoserOf(kind, round, i).key = <<kind, round, i>> /\ LoserOf(kind, round, i).result = "loser"
           /\ <<kind, round, i>>[1] = kind /\ <<kind, round, i>>[2] = round /\ <<kind, round, i>>[3] = i
BY DEF WinnerOf, LoserOf

LEMMA MainFeeds ==
    ASSUME NEW rounds \in 1..MaxRounds, NEW format \in Formats, NEW r \in 2..rounds,
           NEW key \in MainRound(rounds, r), NEW s \in 1..2
    PROVE  FeedFits(rounds, format, key, s, Feeds(rounds, key)[s])
<1>1. rounds \in Nat /\ r \in 1..rounds /\ r - 1 \in 1..rounds /\ r > 1 /\ r \in Nat /\ (r - 1) + 1 = r /\ r - 1 # rounds
  BY DEF MaxRounds
<1>2. PICK i \in 1..2^(rounds - r) : key = <<"MAIN", r, i>>
  BY DEF MainRound
<1>3. 2^(rounds - r) \in Nat /\ 2^(rounds - (r - 1)) = 2 * 2^(rounds - r)
  BY <1>1, MainSizes
<1>4. i \in Nat \ {0} /\ 2*i - 1 \in 1..2^(rounds - (r - 1)) /\ 2*i \in 1..2^(rounds - (r - 1))
  BY <1>3
<1>5. key[1] = "MAIN" /\ key[2] = r /\ key[3] = i
  BY <1>2
<1>6. Feeds(rounds, key) = <<WinnerOf("MAIN", r - 1, 2*i - 1), WinnerOf("MAIN", r - 1, 2*i)>>
  BY <1>5 DEF Feeds
<1> DEFINE j == IF s = 1 THEN 2*i - 1 ELSE 2*i
<1>7. j \in 1..2^(rounds - (r - 1)) /\ Pair(j) = i /\ Half(j) = s
  <2>1. Pair(2*i - 1) = i /\ Half(2*i - 1) = 1 /\ Pair(2*i) = i /\ Half(2*i) = 2
    BY <1>4, PairsAndHalves
  <2>2. CASE s = 1
    BY <1>4, <2>1, <2>2
  <2>3. CASE s = 2
    BY <1>4, <2>1, <2>3
  <2> QED
    BY <2>2, <2>3
<1>8. Feeds(rounds, key)[s] = WinnerOf("MAIN", r - 1, j)
  BY <1>6
<1> HIDE DEF j
<1>9. <<"MAIN", r - 1, j>> \in Keys(rounds, format)
  BY <1>1, <1>7, KeysByKind DEF MainRound
<1>10. Place(rounds, <<"MAIN", r - 1, j>>) = r - 1 /\ Place(rounds, key) = r
  BY <1>5, FeedParts DEF Place
<1>11. Taker(rounds, format, WinnerOf("MAIN", r - 1, j)) = <<key, s>>
  BY <1>1, <1>2, <1>7, FeedParts DEF Taker
<1> QED
  BY <1>1, <1>8, <1>9, <1>10, <1>11, FeedParts DEF FeedFits

LEMMA BronzeFeeds ==
    ASSUME NEW rounds \in 1..MaxRounds, NEW format \in Formats, format # "DOUBLE_ELIMINATION",
           rounds >= 2, NEW s \in 1..2
    PROVE  FeedFits(rounds, format, BronzeKey(rounds), s, Feeds(rounds, BronzeKey(rounds))[s])
<1>1. rounds \in Nat /\ rounds - 1 \in 1..rounds /\ rounds \in 1..rounds /\ rounds > 1
  BY DEF MaxRounds
<1>2. 2^(rounds - (rounds - 1)) = 2
  <2>1. 2^(rounds - (rounds - 1)) = 2 * 2^(rounds - rounds) /\ 2^(rounds - rounds) = 1
    BY <1>1, MainSizes
  <2> QED
    BY <2>1
<1>3. Feeds(rounds, BronzeKey(rounds)) = <<LoserOf("MAIN", rounds - 1, 1), LoserOf("MAIN", rounds - 1, 2)>>
  BY DEF Feeds, BronzeKey
<1>4. Feeds(rounds, BronzeKey(rounds))[s] = LoserOf("MAIN", rounds - 1, s)
  BY <1>3
<1>5. <<"MAIN", rounds - 1, s>> \in Keys(rounds, format)
  BY <1>1, <1>2, KeysByKind DEF MainRound
<1>6. Place(rounds, <<"MAIN", rounds - 1, s>>) = rounds - 1 /\ Place(rounds, BronzeKey(rounds)) = rounds + 1
  BY FeedParts DEF Place, BronzeKey
<1>7. Taker(rounds, format, LoserOf("MAIN", rounds - 1, s)) = <<BronzeKey(rounds), s>>
  BY FeedParts DEF Taker
<1> QED
  BY <1>1, <1>4, <1>5, <1>6, <1>7, FeedParts DEF FeedFits

LEMMA GrandFinalFeeds ==
    ASSUME NEW rounds \in 1..MaxRounds, NEW format \in Formats, format = "DOUBLE_ELIMINATION", NEW s \in 1..2
    PROVE  FeedFits(rounds, format, GrandFinalKey, s, Feeds(rounds, GrandFinalKey)[s])
<1>1. rounds \in Nat /\ rounds \in 1..rounds /\ rounds >= 1
  BY DEF MaxRounds
<1>2. 2^(rounds - rounds) = 1
  BY <1>1, MainSizes
<1>3. Feeds(rounds, GrandFinalKey) = <<WinnerOf("MAIN", rounds, 1), LowerChampion(rounds)>>
  BY DEF Feeds, GrandFinalKey
<1>4. Place(rounds, GrandFinalKey) = 3*rounds - 1
  BY DEF Place, GrandFinalKey
<1>5. <<"MAIN", rounds, 1>> \in Keys(rounds, format) /\ Place(rounds, <<"MAIN", rounds, 1>>) = rounds
  <2>1. <<"MAIN", rounds, 1>> \in MainRound(rounds, rounds)
    BY <1>2 DEF MainRound
  <2>2. <<"MAIN", rounds, 1>> \in Keys(rounds, format)
    BY <1>1, <2>1, KeysByKind
  <2> QED
    BY <2>2, FeedParts DEF Place
<1>6. CASE s = 1
  <2>1. Feeds(rounds, GrandFinalKey)[s] = WinnerOf("MAIN", rounds, 1)
    BY <1>3, <1>6
  <2>2. Taker(rounds, format, WinnerOf("MAIN", rounds, 1)) = <<GrandFinalKey, s>>
    BY <1>6, FeedParts DEF Taker
  <2>3. rounds < 3*rounds - 1
    BY <1>1
  <2> QED
    BY <1>4, <1>5, <2>1, <2>2, <2>3, FeedParts DEF FeedFits
<1>7. CASE s = 2 /\ rounds = 1
  <2>1. Feeds(rounds, GrandFinalKey)[s] = LoserOf("MAIN", 1, 1)
    BY <1>3, <1>7 DEF LowerChampion
  <2>2. Taker(rounds, format, LoserOf("MAIN", 1, 1)) = <<GrandFinalKey, s>>
    BY <1>7, FeedParts DEF Taker
  <2> QED
    BY <1>4, <1>5, <1>7, <2>1, <2>2, FeedParts DEF FeedFits
<1>8. CASE s = 2 /\ rounds # 1
  <2> DEFINE q == 2*(rounds - 1)
  <2>1. Feeds(rounds, GrandFinalKey)[s] = WinnerOf("LOWER", q, 1)
    BY <1>3, <1>8 DEF LowerChampion
  <2>2. q \in 1..2*(rounds - 1)
    BY <1>1, <1>8
  <2>3. LowerRoundSize(rounds, q) = 1
    BY <2>2, LowerSizes
  <2>4. <<"LOWER", q, 1>> \in Keys(rounds, format)
    BY <2>2, <2>3, KeysByKind DEF LowerRound
  <2>5. Place(rounds, <<"LOWER", q, 1>>) = rounds + q
    BY FeedParts DEF Place
  <2>6. Taker(rounds, format, WinnerOf("LOWER", q, 1)) = <<GrandFinalKey, s>>
    BY <1>8, FeedParts DEF Taker
  <2>7. rounds + q < 3*rounds - 1
    BY <1>1
  <2> QED
    BY <1>4, <2>1, <2>4, <2>5, <2>6, <2>7, FeedParts DEF FeedFits
<1> QED
  BY <1>6, <1>7, <1>8

LEMMA LowerFeedsFit ==
    ASSUME NEW rounds \in 1..MaxRounds, NEW format \in Formats, format = "DOUBLE_ELIMINATION",
           NEW q \in 1..2*(rounds - 1), NEW key \in LowerRound(rounds, q), NEW s \in 1..2
    PROVE  FeedFits(rounds, format, key, s, Feeds(rounds, key)[s])
<1> DEFINE n == LowerRoundSize(rounds, q)
<1>1. rounds \in Nat /\ rounds >= 2 /\ q \in Nat /\ q >= 1 /\ 1 \in 1..rounds /\ rounds # 1
  BY DEF MaxRounds
<1>2. n \in Nat \ {0} /\ (n = 1 \/ n % 2 = 0)
  BY LowerSizes
<1>3. PICK i \in 1..n : key = <<"LOWER", q, i>>
  BY DEF LowerRound
<1>4. i \in Nat \ {0} /\ Pair(2*i - 1) = i /\ Half(2*i - 1) = 1 /\ Pair(2*i) = i /\ Half(2*i) = 2
  BY <1>2, PairsAndHalves
<1>5. key[1] = "LOWER" /\ key[2] = q /\ key[3] = i
  BY <1>3
<1>6. Feeds(rounds, key) = LowerFeeds(rounds, q, i) /\ Place(rounds, key) = rounds + q
  BY <1>5 DEF Feeds, Place
<1> DEFINE j == IF s = 1 THEN 2*i - 1 ELSE 2*i
<1>7. Pair(j) = i /\ Half(j) = s
  <2>1. CASE s = 1
    BY <1>4, <2>1
  <2>2. CASE s = 2
    BY <1>4, <2>2
  <2> QED
    BY <2>1, <2>2
<1>8. CASE q = 1
  <2>1. Feeds(rounds, key)[s] = LoserOf("MAIN", 1, j)
    BY <1>6, <1>8 DEF LowerFeeds
  <2>2. 2^(rounds - 1) = 2 * n
    BY <1>8, LowerSizes
  <2>3. j \in 1..2^(rounds - 1)
    BY <1>2, <1>4, <2>2
  <2> HIDE DEF j, n
  <2>4. <<"MAIN", 1, j>> \in MainRound(rounds, 1)
    BY <2>3 DEF MainRound
  <2>5. <<"MAIN", 1, j>> \in Keys(rounds, format) /\ Place(rounds, <<"MAIN", 1, j>>) = 1
    BY <1>1, <2>4, KeysByKind, FeedParts DEF Place
  <2>6. Taker(rounds, format, LoserOf("MAIN", 1, j)) = <<key, s>>
    BY <1>1, <1>3, <1>7, <1>8, FeedParts DEF Taker
  <2> QED
    BY <1>1, <1>6, <1>8, <2>1, <2>5, <2>6, FeedParts DEF FeedFits
<1>9. CASE q # 1 /\ q % 2 = 1
  <2>1. Feeds(rounds, key)[s] = WinnerOf("LOWER", q - 1, j)
    BY <1>6, <1>9 DEF LowerFeeds
  <2>2. q - 1 \in 1..2*(rounds - 1) /\ LowerRoundSize(rounds, q - 1) = 2 * n
    BY <1>9, LowerSizes
  <2>3. j \in 1..LowerRoundSize(rounds, q - 1)
    BY <1>2, <1>4, <2>2
  <2>4. q - 1 # 2*(rounds - 1) /\ (q - 1) % 2 # 1 /\ (q - 1) + 1 = q
    BY <1>1, <1>9
  <2> HIDE DEF j, n
  <2>5. <<"LOWER", q - 1, j>> \in LowerRound(rounds, q - 1)
    BY <2>3 DEF LowerRound
  <2>6. <<"LOWER", q - 1, j>> \in Keys(rounds, format) /\ Place(rounds, <<"LOWER", q - 1, j>>) = rounds + (q - 1)
    BY <2>2, <2>5, KeysByKind, FeedParts DEF Place
  <2>7. Taker(rounds, format, WinnerOf("LOWER", q - 1, j)) = <<key, s>>
    BY <1>3, <1>7, <2>4, FeedParts DEF Taker
  <2>8. rounds + (q - 1) < rounds + q
    BY <1>1
  <2> QED
    BY <1>6, <2>1, <2>6, <2>7, <2>8, FeedParts DEF FeedFits
<1>10. CASE q # 1 /\ q % 2 # 1 /\ s = 1
  <2>1. Feeds(rounds, key)[s] = WinnerOf("LOWER", q - 1, i)
    BY <1>6, <1>10 DEF LowerFeeds
  <2>2. q - 1 \in 1..2*(rounds - 1) /\ LowerRoundSize(rounds, q - 1) = n
    BY <1>10, LowerSizes
  <2>4. q - 1 # 2*(rounds - 1) /\ (q - 1) % 2 = 1 /\ (q - 1) + 1 = q
    BY <1>1, <1>10
  <2>5. <<"LOWER", q - 1, i>> \in LowerRound(rounds, q - 1)
    BY <2>2 DEF LowerRound
  <2> HIDE DEF n
  <2>6. <<"LOWER", q - 1, i>> \in Keys(rounds, format) /\ Place(rounds, <<"LOWER", q - 1, i>>) = rounds + (q - 1)
    BY <2>2, <2>5, KeysByKind, FeedParts DEF Place
  <2>7. Taker(rounds, format, WinnerOf("LOWER", q - 1, i)) = <<key, s>>
    BY <1>3, <1>10, <2>4, FeedParts DEF Taker
  <2>8. rounds + (q - 1) < rounds + q
    BY <1>1
  <2> QED
    BY <1>6, <2>1, <2>6, <2>7, <2>8, FeedParts DEF FeedFits
<1>11. CASE q # 1 /\ q % 2 # 1 /\ s = 2
  <2> DEFINE c == Crossed(i, n)
             u == q \div 2 + 1
  <2>1. Feeds(rounds, key)[s] = LoserOf("MAIN", u, c)
    BY <1>6, <1>11 DEF LowerFeeds
  <2>2. u \in 2..rounds /\ 2^(rounds - u) = n
    BY <1>11, LowerSizes
  <2>3. c \in 1..n /\ Crossed(c, n) = i
    BY <1>2, CrossedSlots
  <2>4. u # 1 /\ 2*u - 2 = q /\ u \in 1..rounds
    BY <1>1, <1>11, <2>2
  <2> HIDE DEF c, u
  <2>5. <<"MAIN", u, c>> \in MainRound(rounds, u)
    BY <2>2, <2>3 DEF MainRound
  <2>6. <<"MAIN", u, c>> \in Keys(rounds, format) /\ Place(rounds, <<"MAIN", u, c>>) = u
    BY <2>4, <2>5, KeysByKind, FeedParts DEF Place
  <2>7. Taker(rounds, format, LoserOf("MAIN", u, c)) = <<key, s>>
    BY <1>1, <1>3, <1>11, <2>3, <2>4, FeedParts DEF Taker
  <2>8. u < rounds + q /\ rounds + q > rounds
    BY <1>1, <2>4
  <2> QED
    BY <1>6, <2>1, <2>6, <2>7, <2>8, FeedParts DEF FeedFits
<1>12. s = 1 \/ s = 2
  OBVIOUS
<1> QED
  BY <1>8, <1>9, <1>10, <1>11, <1>12

\* Every node but those of the first round has two feeds that fit.
LEMMA FeedsFit ==
    ASSUME NEW rounds \in 1..MaxRounds, NEW format \in Formats,
           NEW key \in Keys(rounds, format), ~Opening(key), NEW s \in 1..2
    PROVE  FeedFits(rounds, format, key, s, Feeds(rounds, key)[s])
<1>1. CASE \E r \in 1..rounds : key \in MainRound(rounds, r)
  <2>1. PICK r \in 1..rounds : key \in MainRound(rounds, r)
    BY <1>1
  <2>2. key[1] = "MAIN" /\ key[2] = r
    BY <2>1 DEF MainRound
  <2>3. r \in 2..rounds
    BY <2>2 DEF Opening, MaxRounds
  <2> QED
    BY <2>1, <2>3, MainFeeds
<1>2. CASE format = "DOUBLE_ELIMINATION" /\ \E q \in 1..2*(rounds - 1) : key \in LowerRound(rounds, q)
  BY <1>2, LowerFeedsFit
<1>3. CASE format = "DOUBLE_ELIMINATION" /\ key = GrandFinalKey
  BY <1>3, GrandFinalFeeds
<1>4. CASE format # "DOUBLE_ELIMINATION" /\ rounds >= 2 /\ key = BronzeKey(rounds)
  BY <1>4, BronzeFeeds
<1> QED
  BY <1>1, <1>2, <1>3, <1>4, KeysByKind

\* The nodes of the first round, with their two slots.
LEMMA OpeningSlots ==
    ASSUME NEW rounds \in 1..MaxRounds, NEW format \in Formats, NEW key \in Keys(rounds, format), Opening(key)
    PROVE  \E i \in 1..2^(rounds - 1) :
             /\ key = <<"MAIN", 1, i>> /\ i \in Nat \ {0}
             /\ 2*i - 1 \in 1..2^rounds /\ 2*i \in 1..2^rounds
<1>1. rounds \in Nat /\ rounds >= 1 /\ rounds \in 0..MaxRounds /\ rounds > 0
  BY DEF MaxRounds
<1>2. 2^rounds = 2 * 2^(rounds - 1) /\ 2^(rounds - 1) \in Nat
  BY <1>1, Powers
<1>3. \E r \in 1..rounds : key \in MainRound(rounds, r)
  <2>1. key[1] = "MAIN"
    BY DEF Opening
  <2>2. \A q \in 1..2*(rounds - 1) : key \notin LowerRound(rounds, q)
    BY <2>1 DEF LowerRound
  <2>3. key # GrandFinalKey /\ key # BronzeKey(rounds)
    BY <2>1 DEF GrandFinalKey, BronzeKey
  <2> QED
    BY <2>2, <2>3, KeysByKind
<1>4. key \in MainRound(rounds, 1)
  <2>1. PICK r \in 1..rounds : key \in MainRound(rounds, r)
    BY <1>3
  <2>2. key[2] = r
    BY <2>1 DEF MainRound
  <2> QED
    BY <2>1, <2>2 DEF Opening
<1>5. PICK i \in 1..2^(rounds - 1) : key = <<"MAIN", 1, i>>
  BY <1>4 DEF MainRound
<1>6. i \in Nat \ {0} /\ 2*i - 1 \in 1..2^rounds /\ 2*i \in 1..2^rounds
  BY <1>2
<1> QED
  BY <1>5, <1>6

-----------------------------------------------------------------------------
(* The nodes *)

\* The node of a key, from the nodes that feed it.
BuiltNode(rounds, slots, ms, nodes, key) ==
    IF Opening(key) THEN Node(ms, key, slots[2*key[3] - 1], slots[2*key[3]], TRUE)
    ELSE FedNode(ms, key, nodes, Feeds(rounds, key)[1], Feeds(rounds, key)[2])

LEMMA BuildLayerIs ==
    ASSUME NEW rounds, NEW slots, NEW ms, NEW keys, NEW built
    PROVE  BuildLayer(rounds, slots, ms, keys, built) =
             [key \in DOMAIN built \cup keys |->
                IF key \in DOMAIN built THEN built[key] ELSE BuiltNode(rounds, slots, ms, built, key)]
BY DEF BuildLayer, BuiltNode, Opening

\* Every key has its place, in the layer of that place.
LEMMA KeysByPlace ==
    ASSUME NEW rounds \in 1..MaxRounds, NEW format \in Formats
    PROVE  /\ \A key \in Keys(rounds, format) : /\ Place(rounds, key) \in 1..Depth(rounds, format)
                                                /\ key \in Layer(rounds, format, Place(rounds, key))
           /\ \A l \in 1..Depth(rounds, format) :
                Layer(rounds, format, l) = {key \in Keys(rounds, format) : Place(rounds, key) = l}
<1>1. ASSUME NEW key \in Keys(rounds, format)
      PROVE  /\ Place(rounds, key) \in 1..Depth(rounds, format)
             /\ key \in Layer(rounds, format, Place(rounds, key))
  <2>1. PICK l \in 1..Depth(rounds, format) : key \in Layer(rounds, format, l)
    BY DEF Keys
  <2>2. Place(rounds, key) = l
    BY <2>1, PlaceOfLayer
  <2> QED
    BY <2>1, <2>2
<1>2. ASSUME NEW l \in 1..Depth(rounds, format), NEW key \in Layer(rounds, format, l)
      PROVE  key \in Keys(rounds, format) /\ Place(rounds, key) = l
  <2>1. key \in Keys(rounds, format)
    BY DEF Keys
  <2> QED
    BY <2>1, PlaceOfLayer
<1> QED
  BY <1>1, <1>2

\* A node is determined by the nodes before it.
LEMMA NodeDepends ==
    ASSUME NEW rounds \in 1..MaxRounds, NEW format \in Formats, NEW slots, NEW ms, NEW n, NEW n2,
           NEW key \in Keys(rounds, format),
           \A k \in Keys(rounds, format) : Place(rounds, k) < Place(rounds, key) => n[k] = n2[k]
    PROVE  BuiltNode(rounds, slots, ms, n, key) = BuiltNode(rounds, slots, ms, n2, key)
<1>1. CASE Opening(key)
  BY <1>1 DEF BuiltNode
<1>2. CASE ~Opening(key)
  <2>1. n[Feeds(rounds, key)[1].key] = n2[Feeds(rounds, key)[1].key]
    BY <1>2, FeedsFit DEF FeedFits
  <2>2. n[Feeds(rounds, key)[2].key] = n2[Feeds(rounds, key)[2].key]
    BY <1>2, FeedsFit DEF FeedFits
  <2> QED
    BY <1>2, <2>1, <2>2 DEF BuiltNode, FedNode
<1> QED
  BY <1>1, <1>2

\* f[l] holds the nodes of the first l layers.
Built(f, n, rounds, slots, ms, format) ==
    /\ f[0] = <<>>
    /\ \A l \in 1..n : f[l] = BuildLayer(rounds, slots, ms, Layers(rounds, format)[l], f[l - 1])

LEMMA SomeBuilt ==
    ASSUME NEW rounds, NEW slots, NEW ms, NEW format, NEW n \in Nat
    PROVE  \E f : Built(f, n, rounds, slots, ms, format)
<1> DEFINE Next(l, built) == BuildLayer(rounds, slots, ms, Layers(rounds, format)[l], built)
           IsRun(f, m) == f[0] = <<>> /\ \A l \in 1..m : f[l] = Next(l, f[l - 1])
           Good == {m \in 0..n : \E f : IsRun(f, m)}
<1>1. ASSUME NEW m \in 0..n, \A k \in 0..n : k < m => k \in Good
      PROVE  m \in Good
  <2>1. CASE m = 0
    <3>1. IsRun([l \in 0..0 |-> <<>>], m)
      BY <2>1
    <3> QED
      BY <3>1
  <2>2. CASE m # 0
    <3>1. m - 1 \in 0..n /\ m - 1 < m
      BY <2>2
    <3>2. PICK f : IsRun(f, m - 1)
      BY <1>1, <3>1
    <3> DEFINE g == [l \in 0..m |-> IF l < m THEN f[l] ELSE Next(m, f[m - 1])]
    <3>3. g[0] = <<>>
      BY <2>2, <3>2
    <3>4. ASSUME NEW l \in 1..m
          PROVE  g[l] = Next(l, g[l - 1])
      <4>1. g[l - 1] = f[l - 1]
        OBVIOUS
      <4>2. CASE l < m
        <5>1. g[l] = f[l] /\ l \in 1..(m - 1)
          BY <4>2
        <5>2. f[l] = Next(l, f[l - 1])
          BY <3>2, <5>1
        <5> HIDE DEF Next
        <5> QED
          BY <4>1, <5>1, <5>2
      <4>3. CASE ~(l < m)
        <5>1. l = m /\ g[l] = Next(m, f[m - 1])
          BY <4>3
        <5> HIDE DEF Next
        <5> QED
          BY <4>1, <5>1
      <4> QED
        BY <4>2, <4>3
    <3>5. IsRun(g, m)
      BY <3>3, <3>4
    <3> QED
      BY <3>5
  <2> QED
    BY <2>1, <2>2
<1> HIDE DEF Good
<1>2. \A m \in 0..n : m \in Good
  BY <1>1, Rising
<1>3. n \in Good
  BY <1>2
<1> QED
  BY <1>3 DEF Good, Built

\* The recursion of Nodes has a value, which is built layer by layer.
LEMMA NodesAreBuilt ==
    ASSUME NEW rounds \in 1..MaxRounds, NEW seeds, NEW ms, NEW format \in Formats
    PROVE  \E f : /\ Built(f, Depth(rounds, format), rounds, Slots(rounds, seeds), ms, format)
                  /\ Nodes(rounds, seeds, ms, format) = f[Depth(rounds, format)]
<1> DEFINE n == Depth(rounds, format)
           slots == Slots(rounds, seeds)
           layers == Layers(rounds, format)
           Body(f, l) == IF l = 0 THEN <<>>
                         ELSE With(f[l - 1], LAMBDA built : BuildLayer(rounds, slots, ms, layers[l], built))
           f == CHOOSE f : f = [l \in 0..Len(layers) |-> Body(f, l)]
<1>1. n \in Nat /\ Len(layers) = n
  BY LayersAre
<1>2. Nodes(rounds, seeds, ms, format) = f[Len(layers)]
  BY DEF Nodes
<1>3. ASSUME NEW g, NEW l
      PROVE  Body(g, l) = IF l = 0 THEN <<>> ELSE BuildLayer(rounds, slots, ms, layers[l], g[l - 1])
  <2> DEFINE built == g[l - 1]
             S == {BuildLayer(rounds, slots, ms, layers[l], b) : b \in {built}}
  <2>1. S = {BuildLayer(rounds, slots, ms, layers[l], built)}
    OBVIOUS
  <2>2. With(built, LAMBDA b : BuildLayer(rounds, slots, ms, layers[l], b)) = CHOOSE y \in S : TRUE
    BY DEF With
  <2> HIDE DEF S
  <2>3. (CHOOSE y \in S : TRUE) \in S
    BY <2>1
  <2>4. With(built, LAMBDA b : BuildLayer(rounds, slots, ms, layers[l], b)) = BuildLayer(rounds, slots, ms, layers[l], built)
    BY <2>1, <2>2, <2>3
  <2> QED
    BY <2>4
<1> HIDE DEF Body
<1>4. PICK g : Built(g, n, rounds, slots, ms, format)
  BY <1>1, SomeBuilt
<1> DEFINE h == [l \in 0..n |-> g[l]]
<1>5. h = [l \in 0..Len(layers) |-> Body(h, l)]
  <2>1. ASSUME NEW l \in 0..n
        PROVE  h[l] = Body(h, l)
    <3>1. CASE l = 0
      BY <1>3, <1>4, <3>1 DEF Built
    <3>2. CASE l # 0
      <4>1. l \in 1..n /\ l - 1 \in 0..n
        BY <1>1, <3>2
      <4>2. g[l] = BuildLayer(rounds, slots, ms, layers[l], g[l - 1])
        BY <1>4, <4>1 DEF Built
      <4> QED
        BY <1>3, <3>2, <4>1, <4>2
    <3> QED
      BY <3>1, <3>2
  <2> QED
    BY <1>1, <2>1
<1>6. f = [l \in 0..Len(layers) |-> Body(f, l)]
  <2> HIDE DEF h
  <2> QED
    BY <1>5
<1> HIDE DEF f
<1>7. Built(f, n, rounds, slots, ms, format)
  <2>1. \A l \in 0..n : f[l] = Body(f, l)
    BY <1>1, <1>6
  <2>2. f[0] = <<>>
    BY <1>1, <1>3, <2>1
  <2>3. ASSUME NEW l \in 1..n
        PROVE  f[l] = BuildLayer(rounds, slots, ms, layers[l], f[l - 1])
    <3>1. l \in 0..n /\ l # 0
      BY <1>1
    <3> QED
      BY <1>3, <2>1, <3>1
  <2> QED
    BY <2>2, <2>3 DEF Built
<1> QED
  BY <1>1, <1>2, <1>7

\* Every node is what its match row, and its slots or its feeds, make of it.
LEMMA NodesRule ==
    ASSUME NEW rounds \in 1..MaxRounds, NEW seeds, NEW ms, NEW format \in Formats
    PROVE  LET nodes == Nodes(rounds, seeds, ms, format)
           IN  /\ DOMAIN nodes = Keys(rounds, format)
               /\ \A key \in Keys(rounds, format) :
                    nodes[key] = BuiltNode(rounds, Slots(rounds, seeds), ms, nodes, key)
<1> DEFINE n == Depth(rounds, format)
           slots == Slots(rounds, seeds)
           Known(l) == {key \in Keys(rounds, format) : Place(rounds, key) <= l}
<1>1. PICK f : /\ Built(f, n, rounds, slots, ms, format)
               /\ Nodes(rounds, seeds, ms, format) = f[n]
  BY NodesAreBuilt
<1>2. n \in Nat
  BY LayersAre
<1>3. \A key \in Keys(rounds, format) : Place(rounds, key) \in 1..n
  BY KeysByPlace
<1> DEFINE Good == {l \in 0..n : /\ DOMAIN f[l] = Known(l)
                                 /\ \A key \in Known(l) : f[l][key] = BuiltNode(rounds, slots, ms, f[l], key)}
<1>4. ASSUME NEW l \in 0..n, \A m \in 0..n : m < l => m \in Good
      PROVE  l \in Good
  <2>1. CASE l = 0
    <3>1. f[l] = <<>> /\ DOMAIN f[l] = {}
      BY <1>1, <2>1 DEF Built
    <3>2. Known(l) = {}
      BY <1>2, <1>3, <2>1
    <3> QED
      BY <3>1, <3>2
  <2>2. CASE l # 0
    <3>1. l - 1 \in 0..n /\ l - 1 < l /\ l \in 1..n /\ l - 1 \in Int
      BY <1>2, <2>2
    <3> DEFINE b == f[l - 1]
               t == f[l]
    <3>2. /\ DOMAIN b = Known(l - 1)
          /\ \A key \in Known(l - 1) : b[key] = BuiltNode(rounds, slots, ms, b, key)
      BY <1>4, <3>1
    <3>3. Layers(rounds, format)[l] = {key \in Keys(rounds, format) : Place(rounds, key) = l}
      BY <3>1, LayersAre, KeysByPlace
    <3>4. Known(l) = Known(l - 1) \cup {key \in Keys(rounds, format) : Place(rounds, key) = l}
      BY <1>2, <1>3, <3>1
    <3>5. t = BuildLayer(rounds, slots, ms, Layers(rounds, format)[l], b)
      BY <1>1, <3>1 DEF Built
    <3>6. t = [key \in Known(l) |->
                 IF key \in Known(l - 1) THEN b[key] ELSE BuiltNode(rounds, slots, ms, b, key)]
      BY <3>2, <3>3, <3>4, <3>5, BuildLayerIs
    <3>7. Known(l - 1) \subseteq Known(l)
      BY <3>4
    <3>8. \A key \in Known(l - 1) : t[key] = b[key]
      BY <3>6, <3>7
    <3>9. ASSUME NEW key \in Known(l)
          PROVE  t[key] = BuiltNode(rounds, slots, ms, t, key)
      <4>1. key \in Keys(rounds, format) /\ Place(rounds, key) <= l /\ Place(rounds, key) \in 1..n
        BY <1>3
      <4>2. ASSUME NEW k \in Keys(rounds, format), Place(rounds, k) < Place(rounds, key)
            PROVE  b[k] = t[k]
        <5>1. Place(rounds, k) \in 1..n
          BY <1>3
        <5>2. k \in Known(l - 1)
          BY <1>2, <3>1, <4>1, <4>2, <5>1
        <5> QED
          BY <3>8, <5>2
      <4>3. BuiltNode(rounds, slots, ms, b, key) = BuiltNode(rounds, slots, ms, t, key)
        <5> HIDE DEF b, t
        <5> QED
          BY <4>1, <4>2, NodeDepends
      <4>4. t[key] = BuiltNode(rounds, slots, ms, b, key)
        BY <3>2, <3>6, <3>8
      <4> QED
        BY <4>3, <4>4
    <3>10. DOMAIN t = Known(l)
      BY <3>6
    <3> QED
      BY <3>9, <3>10
  <2> QED
    BY <2>1, <2>2
<1> HIDE DEF Good
<1>5. \A l \in 0..n : l \in Good
  BY <1>2, <1>4, Rising
<1>6. n \in Good
  BY <1>2, <1>5
<1>7. Known(n) = Keys(rounds, format)
  BY <1>2, <1>3
<1> QED
  BY <1>1, <1>6, <1>7 DEF Good

-----------------------------------------------------------------------------
(* The slots *)

Followed(order, k) ==
    [i \in 1..2^k |-> IF i % 2 = 1 THEN order[(i + 1) \div 2] ELSE 2^k + 1 - order[i \div 2]]

\* The recursion of SeedOrder has a value.
LEMMA SeedOrderRule ==
    ASSUME NEW k \in Nat \ {0}
    PROVE  SeedOrder[k] = IF k = 1 THEN <<1, 2>> ELSE Followed(SeedOrder[k - 1], k)
<1> DEFINE Body(f, l) == IF l = 1 THEN <<1, 2>>
                         ELSE With(f[l - 1], LAMBDA order :
                                [i \in 1..2^l |-> IF i % 2 = 1 THEN order[(i + 1) \div 2]
                                                               ELSE 2^l + 1 - order[i \div 2]])
           Step(f, l) == IF l = 1 THEN <<1, 2>> ELSE Followed(f[l - 1], l)
           IsRun(f, n) == \A l \in 1..n : f[l] = Step(f, l)
           Run(n) == CHOOSE f : IsRun(f, n)
           f == CHOOSE f : f = [l \in Nat \ {0} |-> Body(f, l)]
<1>1. SeedOrder = f
  BY DEF SeedOrder
<1>2. ASSUME NEW g, NEW l
      PROVE  Body(g, l) = Step(g, l)
  <2> DEFINE x == g[l - 1]
             S == {Followed(o, l) : o \in {x}}
  <2>1. S = {Followed(x, l)}
    OBVIOUS
  <2>2. With(x, LAMBDA order : [i \in 1..2^l |-> IF i % 2 = 1 THEN order[(i + 1) \div 2]
                                                               ELSE 2^l + 1 - order[i \div 2]])
        = CHOOSE y \in S : TRUE
    BY DEF With, Followed
  <2> HIDE DEF S
  <2>3. (CHOOSE y \in S : TRUE) = Followed(x, l)
    <3>1. (CHOOSE y \in S : TRUE) \in S
      BY <2>1
    <3> QED
      BY <2>1, <3>1
  <2> QED
    BY <2>2, <2>3
<1> HIDE DEF Body
<1>3. ASSUME NEW n \in Nat
      PROVE  \E g : IsRun(g, n)
  <2> DEFINE Good == {m \in 0..n : \E g : IsRun(g, m)}
  <2>1. ASSUME NEW m \in 0..n, \A j \in 0..n : j < m => j \in Good
        PROVE  m \in Good
    <3>1. CASE m = 0
      BY <3>1
    <3>2. CASE m # 0
      <4>1. m - 1 \in 0..n /\ m - 1 < m
        BY <3>2
      <4>2. PICK g : IsRun(g, m - 1)
        BY <2>1, <4>1
      <4> DEFINE h == [l \in 0..m |-> IF l < m THEN g[l] ELSE Step(g, m)]
      <4>3. ASSUME NEW l \in 1..m
            PROVE  h[l] = Step(h, l)
        <5>1. h[l - 1] = g[l - 1] /\ l \in Nat
          OBVIOUS
        <5>2. Step(h, l) = Step(g, l)
          BY <5>1
        <5>3. CASE l < m
          <6>1. h[l] = g[l] /\ l \in 1..(m - 1)
            BY <5>3
          <6> QED
            BY <4>2, <5>2, <6>1
        <5>4. CASE ~(l < m)
          <6>1. l = m /\ h[l] = Step(g, m)
            BY <5>4
          <6> HIDE DEF h, Step
          <6> QED
            BY <5>2, <6>1
        <5> QED
          BY <5>3, <5>4
      <4>4. IsRun(h, m)
        BY <4>3
      <4> QED
        BY <4>4
    <3> QED
      BY <3>1, <3>2
  <2> HIDE DEF Good
  <2>2. n \in Good
    <3>1. \A m \in 0..n : m \in Good
      BY <2>1, Rising
    <3> QED
      BY <3>1
  <2> QED
    BY <2>2 DEF Good
<1>4. ASSUME NEW n \in Nat, NEW m \in Nat, NEW g, NEW h, IsRun(g, n), IsRun(h, m), n <= m
      PROVE  \A l \in 1..n : g[l] = h[l]
  <2> DEFINE Good == {l \in 0..n : l = 0 \/ g[l] = h[l]}
  <2>1. ASSUME NEW l \in 0..n, \A j \in 0..n : j < l => j \in Good
        PROVE  l \in Good
    <3>1. CASE l = 0 \/ l = 1
      <4>1. l = 1 => g[l] = <<1, 2>> /\ h[l] = <<1, 2>>
        BY <1>4
      <4> QED
        BY <3>1, <4>1
    <3>2. CASE ~(l = 0 \/ l = 1)
      <4>1. l - 1 \in 0..n /\ l - 1 < l /\ l - 1 # 0 /\ l \in 1..n /\ l \in 1..m
        BY <1>4, <3>2
      <4>2. g[l - 1] = h[l - 1]
        BY <2>1, <4>1
      <4>3. g[l] = Step(g, l) /\ h[l] = Step(h, l)
        BY <1>4, <4>1
      <4>4. Step(g, l) = Step(h, l)
        BY <4>2
      <4> HIDE DEF Step
      <4> QED
        BY <4>3, <4>4
    <3> QED
      BY <3>1, <3>2
  <2> HIDE DEF Good
  <2>2. \A l \in 0..n : l \in Good
    BY <2>1, Rising
  <2>3. ASSUME NEW l \in 1..n
        PROVE  g[l] = h[l]
    <3>1. l \in Good /\ l # 0
      BY <2>2
    <3> QED
      BY <3>1 DEF Good
  <2> QED
    BY <2>3
<1>5. ASSUME NEW n \in Nat
      PROVE  IsRun(Run(n), n)
  <2> HIDE DEF IsRun
  <2> QED
    BY <1>3, <1>5
<1> HIDE DEF Run
<1> DEFINE whole == [l \in Nat \ {0} |-> Run(l)[l]]
<1>6. ASSUME NEW l \in Nat \ {0}
      PROVE  whole[l] = Step(whole, l)
  <2>1. Run(l)[l] = Step(Run(l), l)
    <3>1. IsRun(Run(l), l) /\ l \in 1..l
      BY <1>5
    <3> QED
      BY <3>1
  <2>2. CASE l = 1
    BY <2>1, <2>2
  <2>3. CASE l # 1
    <3>1. l - 1 \in Nat \ {0} /\ l \in Nat /\ l - 1 \in 1..(l - 1)
      BY <2>3
    <3>2. IsRun(Run(l - 1), l - 1) /\ IsRun(Run(l), l) /\ l - 1 <= l
      BY <1>5, <3>1
    <3>3. Run(l - 1)[l - 1] = Run(l)[l - 1]
      <4> HIDE DEF IsRun
      <4> QED
        BY <1>4, <3>1, <3>2
    <3>4. whole[l - 1] = Run(l)[l - 1] /\ whole[l] = Run(l)[l]
      BY <3>1, <3>3
    <3>5. Step(whole, l) = Step(Run(l), l)
      BY <3>4
    <3> HIDE DEF whole, Step
    <3> QED
      BY <2>1, <3>4, <3>5
  <2> QED
    BY <2>2, <2>3
<1>7. whole = [l \in Nat \ {0} |-> Body(whole, l)]
  <2>1. \A l \in Nat \ {0} : whole[l] = Body(whole, l)
    <3> HIDE DEF whole, Step
    <3> QED
      BY <1>2, <1>6
  <2> QED
    BY <2>1
<1>8. f = [l \in Nat \ {0} |-> Body(f, l)]
  <2> HIDE DEF whole
  <2> QED
    BY <1>7
<1> HIDE DEF f
<1>9. f[k] = Body(f, k)
  BY <1>8
<1> QED
  BY <1>1, <1>2, <1>9

\* Every seed has one slot.
LEMMA SeedOrderPlacesAll ==
    ASSUME NEW k \in 1..MaxRounds
    PROVE  /\ SeedOrder[k] \in [1..2^k -> 1..2^k]
           /\ \A i, j \in 1..2^k : SeedOrder[k][i] = SeedOrder[k][j] => i = j
<1> DEFINE Fits(l) == /\ SeedOrder[l] \in [1..2^l -> 1..2^l]
                      /\ \A i, j \in 1..2^l : SeedOrder[l][i] = SeedOrder[l][j] => i = j
           Good == {l \in 0..MaxRounds : l = 0 \/ Fits(l)}
<1>1. MaxRounds \in Nat
  BY DEF MaxRounds
<1>2. ASSUME NEW l \in 0..MaxRounds, \A m \in 0..MaxRounds : m < l => m \in Good
      PROVE  l \in Good
  <2>1. CASE l = 0
    BY <2>1
  <2>2. CASE l = 1
    <3>1. SeedOrder[l] = <<1, 2>>
      BY <2>2, SeedOrderRule
    <3>2. 2^l = 2
      BY <2>2
    <3>3. <<1, 2>> \in [1..2 -> 1..2] /\ \A i, j \in 1..2 : <<1, 2>>[i] = <<1, 2>>[j] => i = j
      OBVIOUS
    <3>4. Fits(l)
      BY <3>1, <3>2, <3>3
    <3> QED
      BY <3>4
  <2>3. CASE l # 0 /\ l # 1
    <3> DEFINE m == 2^(l - 1)
               before == SeedOrder[l - 1]
               order == SeedOrder[l]
    <3>1. l \in Nat /\ l > 1 /\ l - 1 \in 0..MaxRounds /\ l - 1 < l /\ l - 1 # 0 /\ l \in Nat \ {0}
      BY <1>1, <2>3
    <3>2. Fits(l - 1)
      BY <1>2, <3>1
    <3>3. m \in Nat \ {0} /\ 2^l = 2 * m
      BY <3>1, Powers
    <3>4. order = Followed(before, l)
      BY <2>3, <3>1, SeedOrderRule
    <3>5. order = [i \in 1..(2*m) |-> IF i % 2 = 1 THEN before[(i + 1) \div 2] ELSE 2*m + 1 - before[i \div 2]]
      BY <3>3, <3>4 DEF Followed
    <3>6. before \in [1..m -> 1..m] /\ \A i, j \in 1..m : before[i] = before[j] => i = j
      BY <3>2
    <3> HIDE DEF m, before, order
    <3>7. ASSUME NEW i \in 1..(2*m), i % 2 = 1
          PROVE  (i + 1) \div 2 \in 1..m /\ order[i] = before[(i + 1) \div 2] /\ order[i] \in 1..m
      <4>1. (i + 1) \div 2 \in 1..m
        BY <3>3, <3>7
      <4> QED
        BY <3>5, <3>6, <3>7, <4>1
    <3>8. ASSUME NEW i \in 1..(2*m), i % 2 # 1
          PROVE  /\ i \div 2 \in 1..m /\ order[i] = 2*m + 1 - before[i \div 2] /\ before[i \div 2] \in 1..m
                 /\ order[i] \in (m + 1)..(2*m)
      <4>1. i \div 2 \in 1..m
        BY <3>3, <3>8
      <4>2. before[i \div 2] \in 1..m
        BY <3>6, <4>1
      <4>3. order[i] = 2*m + 1 - before[i \div 2]
        BY <3>5, <3>8
      <4> QED
        BY <3>3, <4>1, <4>2, <4>3
    <3>9. \A i \in 1..(2*m) : order[i] \in 1..(2*m)
      BY <3>3, <3>7, <3>8
    <3>10. order \in [1..(2*m) -> 1..(2*m)]
      <4>1. DOMAIN order = 1..(2*m) /\ order = [i \in 1..(2*m) |-> order[i]]
        BY <3>5
      <4> QED
        BY <3>9, <4>1
    <3>11. ASSUME NEW i \in 1..(2*m), NEW j \in 1..(2*m), order[i] = order[j]
           PROVE  i = j
      <4>1. CASE i % 2 = 1 /\ j % 2 = 1
        <5>1. (i + 1) \div 2 = (j + 1) \div 2
          BY <3>6, <3>7, <3>11, <4>1
        <5> QED
          BY <3>3, <4>1, <5>1
      <4>2. CASE i % 2 # 1 /\ j % 2 # 1
        <5>1. before[i \div 2] = before[j \div 2]
          <6>1. before[i \div 2] \in 1..m /\ order[i] = 2*m + 1 - before[i \div 2]
            BY <3>8, <4>2
          <6>2. before[j \div 2] \in 1..m /\ order[j] = 2*m + 1 - before[j \div 2]
            BY <3>8, <4>2
          <6> DEFINE x == before[i \div 2]
                     y == before[j \div 2]
          <6>3. x \in 1..m /\ y \in 1..m /\ order[i] = 2*m + 1 - x /\ order[j] = 2*m + 1 - y
            BY <6>1, <6>2
          <6> HIDE DEF x, y
          <6>4. x \in Int /\ y \in Int /\ m \in Int
            BY <3>3, <6>3
          <6>5. x \in Int /\ y \in Int /\ m \in Int /\ 2*m + 1 - x = 2*m + 1 - y
            BY <3>11, <6>3, <6>4
          <6>6. x = y
            BY <6>5
          <6> QED
            BY <6>6 DEF x, y
        <5>2. i \div 2 = j \div 2
          BY <3>6, <3>8, <4>2, <5>1
        <5> QED
          BY <3>3, <4>2, <5>2
      <4>3. CASE i % 2 = 1 /\ j % 2 # 1
        BY <3>3, <3>7, <3>8, <3>11, <4>3
      <4>4. CASE i % 2 # 1 /\ j % 2 = 1
        BY <3>3, <3>7, <3>8, <3>11, <4>4
      <4> QED
        BY <4>1, <4>2, <4>3, <4>4
    <3>12. Fits(l)
      BY <3>3, <3>10, <3>11 DEF order
    <3> QED
      BY <3>12
  <2> QED
    BY <2>1, <2>2, <2>3
<1> HIDE DEF Good
<1>3. \A l \in 0..MaxRounds : l \in Good
  BY <1>1, <1>2, Rising
<1>4. k \in Good /\ k # 0
  BY <1>3 DEF MaxRounds
<1> QED
  BY <1>4 DEF Good

SlotSeed(order, seeds, i) == IF order[i] <= Len(seeds) THEN seeds[order[i]] ELSE NoEntry

LEMMA SlotsAre ==
    ASSUME NEW rounds \in 1..MaxRounds, NEW seeds
    PROVE  \A i \in 1..2^rounds : Slots(rounds, seeds)[i] = SlotSeed(SeedOrder[rounds], seeds, i)
<1> DEFINE order == SeedOrder[rounds]
           S == {[i \in 1..2^rounds |-> SlotSeed(o, seeds, i)] : o \in {order}}
<1>1. S = {[i \in 1..2^rounds |-> SlotSeed(order, seeds, i)]}
  OBVIOUS
<1>2. Slots(rounds, seeds) = CHOOSE y \in S : TRUE
  BY DEF Slots, With, SlotSeed
<1> HIDE DEF S
<1>3. (CHOOSE y \in S : TRUE) \in S
  BY <1>1
<1>4. Slots(rounds, seeds) = [i \in 1..2^rounds |-> SlotSeed(order, seeds, i)]
  BY <1>1, <1>2, <1>3
<1> QED
  BY <1>4

\* A sequence of different entries.
Distinct(seeds) == \A i, j \in 1..Len(seeds) : seeds[i] = seeds[j] => i = j

LEMMA SlotsAreDistinct ==
    ASSUME NEW rounds \in 1..MaxRounds, NEW S, NoEntry \notin S, NEW seeds \in Seq(S), Distinct(seeds)
    PROVE  LET slots == Slots(rounds, seeds)
           IN  /\ \A i \in 1..2^rounds : slots[i] \in S \cup {NoEntry}
               /\ \A i, j \in 1..2^rounds : slots[i] = slots[j] /\ slots[i] # NoEntry => i = j
<1> DEFINE order == SeedOrder[rounds]
           slots == Slots(rounds, seeds)
<1>1. /\ \A i \in 1..2^rounds : order[i] \in 1..2^rounds
      /\ \A i, j \in 1..2^rounds : order[i] = order[j] => i = j
  BY SeedOrderPlacesAll
<1>2. 2^rounds \in Nat /\ Len(seeds) \in Nat
  <2>1. rounds \in 0..MaxRounds
    BY DEF MaxRounds
  <2> QED
    BY <2>1, Powers
<1>3. \A i \in 1..2^rounds : slots[i] = SlotSeed(order, seeds, i)
  BY SlotsAre
<1> HIDE DEF order, slots
<1>4. ASSUME NEW i \in 1..2^rounds
      PROVE  /\ slots[i] \in S \cup {NoEntry}
             /\ slots[i] # NoEntry => order[i] \in 1..Len(seeds) /\ slots[i] = seeds[order[i]]
  BY <1>1, <1>2, <1>3 DEF SlotSeed
<1>5. ASSUME NEW i \in 1..2^rounds, NEW j \in 1..2^rounds, slots[i] = slots[j], slots[i] # NoEntry
      PROVE  i = j
  <2>1. order[i] = order[j]
    BY <1>4, <1>5 DEF Distinct
  <2> QED
    BY <1>1, <2>1
<1> QED
  BY <1>4, <1>5 DEF slots

-----------------------------------------------------------------------------
(* What a node says *)

Sides == 1..2
Side(node, s) == IF s = 1 THEN node.entryA ELSE node.entryB
Slot(key, s) == IF s = 1 THEN 2*key[3] - 1 ELSE 2*key[3]

\* A node is resolved by its row, or by a bye.
Valid(ms, key, node) ==
    /\ key \in DOMAIN ms /\ ms[key].status = "COMPLETED"
    /\ ms[key].winner \in {node.entryA, node.entryB} /\ ms[key].winner # NoEntry
Bye(ms, key, node) == key \notin DOMAIN ms /\ node.feedsResolved /\ NoEntry \in {node.entryA, node.entryB}

\* The node of a key, read off its two sides.
NodeSays(ms, key, node) ==
    /\ node.hasMatch <=> key \in DOMAIN ms
    /\ node.resolved <=> Valid(ms, key, node) \/ Bye(ms, key, node)
    /\ Valid(ms, key, node) => /\ node.winner = ms[key].winner
                               /\ node.loser = IF ms[key].winner = node.entryA THEN node.entryB ELSE node.entryA
    /\ Bye(ms, key, node) => /\ node.winner = IF node.entryA # NoEntry THEN node.entryA ELSE node.entryB
                             /\ node.loser = NoEntry
    /\ ~Valid(ms, key, node) /\ ~Bye(ms, key, node) => node.winner = NoEntry /\ node.loser = NoEntry

LEMMA NodeIs ==
    ASSUME NEW ms, NEW key, NEW a, NEW b, NEW fed
    PROVE  LET node == Node(ms, key, a, b, fed)
           IN  /\ node.entryA = a /\ node.entryB = b /\ node.feedsResolved = fed
               /\ NodeSays(ms, key, node)
<1> DEFINE node == Node(ms, key, a, b, fed)
<1>1. /\ node.entryA = a /\ node.entryB = b /\ node.feedsResolved = fed
  BY DEF Node
<1>2. node.hasMatch <=> key \in DOMAIN ms
  BY DEF Node
<1>3. Valid(ms, key, node) <=> key \in DOMAIN ms /\ ValidResult(ms[key], a, b)
  <2>1. Valid(ms, key, node) <=> /\ key \in DOMAIN ms /\ ms[key].status = "COMPLETED"
                                 /\ ms[key].winner \in {a, b} /\ ms[key].winner # NoEntry
    BY <1>1 DEF Valid
  <2> QED
    BY <2>1 DEF ValidResult
<1>4. Bye(ms, key, node) <=> key \notin DOMAIN ms /\ fed /\ NoEntry \in {a, b}
  BY <1>1 DEF Bye
<1>5. node.resolved <=> \/ key \in DOMAIN ms /\ ValidResult(ms[key], a, b)
                        \/ key \notin DOMAIN ms /\ fed /\ NoEntry \in {a, b}
  BY DEF Node
<1>6. node.winner = IF key \in DOMAIN ms /\ ValidResult(ms[key], a, b) THEN ms[key].winner
                    ELSE IF key \notin DOMAIN ms /\ fed /\ NoEntry \in {a, b} THEN IF a # NoEntry THEN a ELSE b
                    ELSE NoEntry
  BY DEF Node
<1>7. node.loser = IF ~(key \in DOMAIN ms /\ ValidResult(ms[key], a, b)) THEN NoEntry
                   ELSE IF ms[key].winner = a THEN b ELSE a
  BY DEF Node
<1> HIDE DEF node
<1>8. Valid(ms, key, node) => ~Bye(ms, key, node)
  BY <1>3, <1>4
<1>9. NodeSays(ms, key, node)
  BY <1>1, <1>2, <1>3, <1>4, <1>5, <1>6, <1>7, <1>8 DEF NodeSays
<1> QED
  BY <1>1, <1>9 DEF node

\* The nodes of a bracket with these slots and rows.
IsBracket(rounds, format, slots, ms, nodes) ==
    \A key \in Keys(rounds, format) : nodes[key] = BuiltNode(rounds, slots, ms, nodes, key)

LEMMA NodesAreABracket ==
    ASSUME NEW rounds \in 1..MaxRounds, NEW seeds, NEW ms, NEW format \in Formats
    PROVE  /\ IsBracket(rounds, format, Slots(rounds, seeds), ms, Nodes(rounds, seeds, ms, format))
           /\ DOMAIN Nodes(rounds, seeds, ms, format) = Keys(rounds, format)
BY NodesRule DEF IsBracket

\* Where the sides of a node come from.
LEMMA NodeSides ==
    ASSUME NEW rounds \in 1..MaxRounds, NEW format \in Formats, NEW slots, NEW ms, NEW nodes,
           IsBracket(rounds, format, slots, ms, nodes), NEW key \in Keys(rounds, format)
    PROVE  /\ NodeSays(ms, key, nodes[key])
           /\ Opening(key) => /\ nodes[key].feedsResolved
                              /\ \A s \in Sides : Side(nodes[key], s) = slots[Slot(key, s)]
           /\ ~Opening(key) =>
                /\ nodes[key].feedsResolved <=>
                     \A s \in Sides : nodes[Feeds(rounds, key)[s].key].resolved
                /\ \A s \in Sides : Side(nodes[key], s) =
                                      nodes[Feeds(rounds, key)[s].key][Feeds(rounds, key)[s].result]
<1> DEFINE f1 == Feeds(rounds, key)[1]
           f2 == Feeds(rounds, key)[2]
<1>1. nodes[key] = BuiltNode(rounds, slots, ms, nodes, key)
  BY DEF IsBracket
<1>2. CASE Opening(key)
  <2> DEFINE a == slots[2*key[3] - 1]
             b == slots[2*key[3]]
             fed == TRUE
  <2>1. nodes[key] = Node(ms, key, a, b, fed)
    BY <1>1, <1>2 DEF BuiltNode
  <2> HIDE DEF a, b, fed
  <2>2. /\ nodes[key].entryA = a /\ nodes[key].entryB = b
        /\ nodes[key].feedsResolved = fed /\ NodeSays(ms, key, nodes[key])
    BY <2>1, NodeIs
  <2>3. \A s \in Sides : Side(nodes[key], s) = slots[Slot(key, s)]
    BY <2>2 DEF Side, Slot, Sides, a, b
  <2> QED
    BY <1>2, <2>2, <2>3 DEF fed
<1>3. CASE ~Opening(key)
  <2>1. nodes[key] = Node(ms, key, nodes[f1.key][f1.result], nodes[f2.key][f2.result],
                          nodes[f1.key].resolved /\ nodes[f2.key].resolved)
    BY <1>1, <1>3 DEF BuiltNode, FedNode
  <2>2. /\ nodes[key].entryA = nodes[f1.key][f1.result] /\ nodes[key].entryB = nodes[f2.key][f2.result]
        /\ nodes[key].feedsResolved = (nodes[f1.key].resolved /\ nodes[f2.key].resolved)
        /\ NodeSays(ms, key, nodes[key])
    BY <2>1, NodeIs
  <2>3. \A s \in Sides : s = 1 \/ s = 2
    BY DEF Sides
  <2>4. 1 \in Sides /\ 2 \in Sides
    BY DEF Sides
  <2>5. nodes[key].feedsResolved <=> \A s \in Sides : nodes[Feeds(rounds, key)[s].key].resolved
    BY <2>2, <2>3, <2>4
  <2>6. ASSUME NEW s \in Sides
        PROVE  Side(nodes[key], s) = nodes[Feeds(rounds, key)[s].key][Feeds(rounds, key)[s].result]
    BY <2>2, <2>3 DEF Side
  <2> QED
    BY <1>3, <2>2, <2>5, <2>6
<1> QED
  BY <1>2, <1>3

\* What is true of a node as soon as it is true of the nodes before it is true of all.
LEMMA NodeInduction ==
    ASSUME NEW rounds \in 1..MaxRounds, NEW format \in Formats, NEW Good,
           \A key \in Keys(rounds, format) :
             (\A k \in Keys(rounds, format) : Place(rounds, k) < Place(rounds, key) => k \in Good) => key \in Good
    PROVE  \A key \in Keys(rounds, format) : key \in Good
<1> DEFINE n == Depth(rounds, format)
           Layered == {l \in 0..n : \A key \in Keys(rounds, format) : Place(rounds, key) = l => key \in Good}
<1>1. n \in Nat
  BY LayersAre
<1>2. \A key \in Keys(rounds, format) : Place(rounds, key) \in 0..n
  BY <1>1, KeysByPlace
<1>3. ASSUME NEW l \in 0..n, \A m \in 0..n : m < l => m \in Layered
      PROVE  l \in Layered
  <2>1. ASSUME NEW key \in Keys(rounds, format), Place(rounds, key) = l
        PROVE  key \in Good
    <3>1. ASSUME NEW k \in Keys(rounds, format), Place(rounds, k) < Place(rounds, key)
          PROVE  k \in Good
      <4>1. Place(rounds, k) \in Layered
        BY <1>2, <1>3, <2>1, <3>1
      <4> QED
        BY <4>1
    <3> QED
      BY <3>1
  <2> QED
    BY <2>1
<1> HIDE DEF Layered
<1>4. \A l \in 0..n : l \in Layered
  BY <1>1, <1>3, Rising
<1> QED
  BY <1>2, <1>4 DEF Layered

\* A result that is known is a side of a resolved node.
LEMMA ResultsAreSides ==
    ASSUME NEW ms, NEW key, NEW node, NodeSays(ms, key, node)
    PROVE  /\ node.winner # NoEntry => node.resolved /\ \E s \in Sides : node.winner = Side(node, s)
           /\ node.loser # NoEntry => /\ Valid(ms, key, node) /\ node.resolved
                                      /\ \E s \in Sides : node.loser = Side(node, s)
           /\ node.winner = node.loser /\ node.winner # NoEntry => Side(node, 1) = Side(node, 2)
<1>1. 1 \in Sides /\ 2 \in Sides /\ Side(node, 1) = node.entryA /\ Side(node, 2) = node.entryB
  BY DEF Sides, Side
<1>2. CASE Valid(ms, key, node)
  <2>1. /\ node.winner = ms[key].winner /\ node.resolved
        /\ node.loser = IF ms[key].winner = node.entryA THEN node.entryB ELSE node.entryA
        /\ ms[key].winner = node.entryA \/ ms[key].winner = node.entryB
    BY <1>2 DEF NodeSays, Valid
  <2> QED
    BY <1>1, <1>2, <2>1
<1>3. CASE Bye(ms, key, node) /\ ~Valid(ms, key, node)
  <2>1. /\ node.winner = node.entryA \/ node.winner = node.entryB
        /\ node.resolved /\ node.loser = NoEntry
    BY <1>3 DEF NodeSays
  <2> QED
    BY <1>1, <2>1
<1>4. CASE ~Valid(ms, key, node) /\ ~Bye(ms, key, node)
  BY <1>4 DEF NodeSays
<1> QED
  BY <1>2, <1>3, <1>4

-----------------------------------------------------------------------------
(* A growing set of results: what is known of the bracket stays. *)

\* ms2 keeps the results of ms, and every row has its two sides.
Grows(rounds, format, nodes, ms, ms2) ==
    /\ DOMAIN ms \subseteq DOMAIN ms2
    /\ \A k \in DOMAIN ms : ms[k].status = "COMPLETED" =>
         ms2[k].status = "COMPLETED" /\ ms2[k].winner = ms[k].winner
    /\ \A k \in Keys(rounds, format) : k \in DOMAIN ms2 => NoEntry \notin {nodes[k].entryA, nodes[k].entryB}

Kept(node, node2) ==
    /\ \A s \in Sides : Side(node, s) # NoEntry => Side(node2, s) = Side(node, s)
    /\ node.feedsResolved => node2.feedsResolved /\ \A s \in Sides : Side(node2, s) = Side(node, s)
    /\ node.resolved => node2.resolved /\ node2.winner = node.winner /\ node2.loser = node.loser

LEMMA NodesAreKept ==
    ASSUME NEW rounds \in 1..MaxRounds, NEW format \in Formats, NEW slots, NEW ms, NEW ms2, NEW n, NEW n2,
           IsBracket(rounds, format, slots, ms, n), IsBracket(rounds, format, slots, ms2, n2),
           Grows(rounds, format, n, ms, ms2)
    PROVE  \A key \in Keys(rounds, format) : Kept(n[key], n2[key])
<1> DEFINE Good == {key \in Keys(rounds, format) : Kept(n[key], n2[key])}
<1>1. ASSUME NEW key \in Keys(rounds, format),
             \A k \in Keys(rounds, format) : Place(rounds, k) < Place(rounds, key) => k \in Good
      PROVE  Kept(n[key], n2[key])
  <2> DEFINE node == n[key]
             node2 == n2[key]
             F(s) == Feeds(rounds, key)[s]
  <2>1. NodeSays(ms, key, node) /\ NodeSays(ms2, key, node2)
    BY NodeSides
  <2>2. /\ \A s \in Sides : Side(node, s) # NoEntry => Side(node2, s) = Side(node, s)
        /\ node.feedsResolved => node2.feedsResolved /\ \A s \in Sides : Side(node2, s) = Side(node, s)
    <3>1. CASE Opening(key)
      BY <3>1, NodeSides
    <3>2. CASE ~Opening(key)
      <4>1. ASSUME NEW s \in Sides
            PROVE  /\ Kept(n[F(s).key], n2[F(s).key])
                   /\ F(s).result \in {"winner", "loser"} /\ F(s).key \in Keys(rounds, format)
                   /\ Side(node, s) = n[F(s).key][F(s).result] /\ Side(node2, s) = n2[F(s).key][F(s).result]
        <5>1. FeedFits(rounds, format, key, s, F(s))
          BY <3>2, FeedsFit DEF Sides
        <5>2. /\ Place(rounds, F(s).key) < Place(rounds, key) /\ F(s).key \in Keys(rounds, format)
              /\ F(s).result \in {"winner", "loser"}
          BY <5>1 DEF FeedFits
        <5>3. Side(node, s) = n[F(s).key][F(s).result] /\ Side(node2, s) = n2[F(s).key][F(s).result]
          BY <3>2, NodeSides
        <5> QED
          BY <1>1, <5>2, <5>3
      <4>2. ASSUME NEW s \in Sides, n[F(s).key].resolved
            PROVE  n2[F(s).key].resolved /\ Side(node2, s) = Side(node, s)
        BY <4>1, <4>2 DEF Kept
      <4>3. ASSUME NEW s \in Sides, Side(node, s) # NoEntry
            PROVE  Side(node2, s) = Side(node, s)
        <5>1. NodeSays(ms, F(s).key, n[F(s).key])
          BY <4>1, NodeSides
        <5>2. n[F(s).key].resolved
          BY <4>1, <4>3, <5>1, ResultsAreSides
        <5> QED
          BY <4>2, <5>2
      <4>4. ASSUME node.feedsResolved
            PROVE  node2.feedsResolved /\ \A s \in Sides : Side(node2, s) = Side(node, s)
        <5>1. \A s \in Sides : n[F(s).key].resolved
          BY <3>2, <4>4, NodeSides
        <5>2. \A s \in Sides : n2[F(s).key].resolved /\ Side(node2, s) = Side(node, s)
          BY <4>2, <5>1
        <5>3. node2.feedsResolved
          BY <3>2, <5>2, NodeSides
        <5> QED
          BY <5>2, <5>3
      <4> QED
        BY <4>3, <4>4
    <3> QED
      BY <3>1, <3>2
  <2> HIDE DEF node, node2
  <2>3. Side(node, 1) = node.entryA /\ Side(node, 2) = node.entryB /\ Side(node2, 1) = node2.entryA
        /\ Side(node2, 2) = node2.entryB /\ 1 \in Sides /\ 2 \in Sides
    BY DEF Side, Sides
  <2>4. CASE Valid(ms, key, node)
    <3>1. key \in DOMAIN ms2 /\ NoEntry \notin {node.entryA, node.entryB}
      BY <2>4 DEF Valid, Grows, node
    <3>2. node2.entryA = node.entryA /\ node2.entryB = node.entryB
      BY <2>2, <2>3, <3>1
    <3>3. ms2[key].status = "COMPLETED" /\ ms2[key].winner = ms[key].winner
      BY <2>4 DEF Valid, Grows
    <3>4. Valid(ms2, key, node2)
      BY <2>4, <3>1, <3>2, <3>3 DEF Valid
    <3>5. node2.resolved /\ node2.winner = node.winner /\ node2.loser = node.loser
      BY <2>1, <2>4, <3>2, <3>3, <3>4 DEF NodeSays
    <3> QED
      BY <2>2, <3>5 DEF Kept, node, node2
  <2>5. CASE ~Valid(ms, key, node) /\ Bye(ms, key, node)
    <3>1. key \notin DOMAIN ms2
      BY <2>5 DEF Bye, Grows, node
    <3>2. node2.feedsResolved /\ node2.entryA = node.entryA /\ node2.entryB = node.entryB
      BY <2>2, <2>3, <2>5 DEF Bye
    <3>3. Bye(ms2, key, node2) /\ ~Valid(ms2, key, node2)
      BY <2>5, <3>1, <3>2 DEF Bye, Valid
    <3>4. node2.resolved /\ node2.winner = node.winner /\ node2.loser = node.loser
      BY <2>1, <2>5, <3>2, <3>3 DEF NodeSays
    <3> QED
      BY <2>2, <3>4 DEF Kept, node, node2
  <2>6. CASE ~Valid(ms, key, node) /\ ~Bye(ms, key, node)
    BY <2>1, <2>2, <2>6 DEF NodeSays, Kept, node, node2
  <2> QED
    BY <2>4, <2>5, <2>6
<1>2. \A key \in Keys(rounds, format) :
        (\A k \in Keys(rounds, format) : Place(rounds, k) < Place(rounds, key) => k \in Good) => key \in Good
  BY <1>1
<1> HIDE DEF Good
<1>3. \A key \in Keys(rounds, format) : key \in Good
  BY <1>2, NodeInduction
<1> QED
  BY <1>3 DEF Good

-----------------------------------------------------------------------------
(* Rows with the same results, and one seed in other hands: the bracket is *)
(* the same, with one team's name changed.                                 *)

Named(e, r, x) == IF x = e THEN r ELSE x

\* The completed rows of ms and ms2 agree; the others are of nodes whose sides are known.
SameResults(rounds, format, nodes, ms, ms2) ==
    \A k \in Keys(rounds, format) :
       /\ k \in DOMAIN ms \/ k \in DOMAIN ms2 => NoEntry \notin {nodes[k].entryA, nodes[k].entryB}
       /\ k \in DOMAIN ms /\ ms[k].status = "COMPLETED" <=> k \in DOMAIN ms2 /\ ms2[k].status = "COMPLETED"
       /\ k \in DOMAIN ms /\ ms[k].status = "COMPLETED" => ms2[k].winner = ms[k].winner

\* r stands for e: they are the same, or e has no result.
MayStandFor(rounds, format, nodes, ms, e, r) ==
    \/ e = r
    \/ /\ NoEntry \notin {e, r}
       /\ \A k \in Keys(rounds, format) :
            k \in DOMAIN ms /\ ms[k].status = "COMPLETED" => e \notin {nodes[k].entryA, nodes[k].entryB}

Renamed(e, r, node, node2) ==
    /\ \A s \in Sides : Side(node2, s) = Named(e, r, Side(node, s))
    /\ node2.feedsResolved <=> node.feedsResolved
    /\ node2.resolved <=> node.resolved
    /\ node2.winner = Named(e, r, node.winner) /\ node2.loser = Named(e, r, node.loser)

LEMMA NodesAreRenamed ==
    ASSUME NEW rounds \in 1..MaxRounds, NEW format \in Formats, NEW slots, NEW slots2, NEW ms, NEW ms2,
           NEW n, NEW n2, NEW e, NEW r,
           IsBracket(rounds, format, slots, ms, n), IsBracket(rounds, format, slots2, ms2, n2),
           \A i \in 1..2^rounds : slots2[i] = Named(e, r, slots[i]),
           SameResults(rounds, format, n, ms, ms2), MayStandFor(rounds, format, n, ms, e, r)
    PROVE  \A key \in Keys(rounds, format) : Renamed(e, r, n[key], n2[key])
<1> DEFINE Good == {key \in Keys(rounds, format) : Renamed(e, r, n[key], n2[key])}
<1>0. Named(e, r, NoEntry) = NoEntry /\ \A x : Named(e, r, x) = NoEntry => x = NoEntry
  BY DEF Named, MayStandFor
<1>1. ASSUME NEW key \in Keys(rounds, format),
             \A k \in Keys(rounds, format) : Place(rounds, k) < Place(rounds, key) => k \in Good
      PROVE  Renamed(e, r, n[key], n2[key])
  <2> DEFINE node == n[key]
             node2 == n2[key]
             F(s) == Feeds(rounds, key)[s]
  <2>1. NodeSays(ms, key, node) /\ NodeSays(ms2, key, node2)
    BY NodeSides
  <2>2. /\ \A s \in Sides : Side(node2, s) = Named(e, r, Side(node, s))
        /\ node2.feedsResolved <=> node.feedsResolved
    <3>1. CASE Opening(key)
      <4>1. \A s \in Sides : Slot(key, s) \in 1..2^rounds
        BY <3>1, OpeningSlots DEF Slot, Sides
      <4> QED
        BY <3>1, <4>1, NodeSides
    <3>2. CASE ~Opening(key)
      <4>1. ASSUME NEW s \in Sides
            PROVE  /\ Renamed(e, r, n[F(s).key], n2[F(s).key])
                   /\ F(s).result \in {"winner", "loser"}
                   /\ Side(node, s) = n[F(s).key][F(s).result] /\ Side(node2, s) = n2[F(s).key][F(s).result]
        <5>1. FeedFits(rounds, format, key, s, F(s))
          BY <3>2, FeedsFit DEF Sides
        <5>2. /\ Place(rounds, F(s).key) < Place(rounds, key) /\ F(s).key \in Keys(rounds, format)
              /\ F(s).result \in {"winner", "loser"}
          BY <5>1 DEF FeedFits
        <5>3. Side(node, s) = n[F(s).key][F(s).result] /\ Side(node2, s) = n2[F(s).key][F(s).result]
          BY <3>2, NodeSides
        <5> QED
          BY <1>1, <5>2, <5>3
      <4>2. \A s \in Sides : /\ Side(node2, s) = Named(e, r, Side(node, s))
                             /\ n2[F(s).key].resolved <=> n[F(s).key].resolved
        BY <4>1 DEF Renamed
      <4>3. node2.feedsResolved <=> node.feedsResolved
        BY <3>2, <4>2, NodeSides
      <4> QED
        BY <4>2, <4>3
    <3> QED
      BY <3>1, <3>2
  <2> HIDE DEF node, node2
  <2>3. node2.entryA = Named(e, r, node.entryA) /\ node2.entryB = Named(e, r, node.entryB)
    <3>1. Side(node, 1) = node.entryA /\ Side(node, 2) = node.entryB /\ Side(node2, 1) = node2.entryA
          /\ Side(node2, 2) = node2.entryB /\ 1 \in Sides /\ 2 \in Sides
      BY DEF Side, Sides
    <3> QED
      BY <2>2, <3>1
  <2>4. CASE key \in DOMAIN ms /\ ms[key].status = "COMPLETED"
    <3>1. /\ key \in DOMAIN ms2 /\ ms2[key].status = "COMPLETED" /\ ms2[key].winner = ms[key].winner
          /\ NoEntry \notin {node.entryA, node.entryB}
      BY <2>4 DEF SameResults, node
    <3>2. node2.entryA = node.entryA /\ node2.entryB = node.entryB
      BY <2>3, <2>4 DEF MayStandFor, Named, node
    <3>3. Valid(ms, key, node) <=> Valid(ms2, key, node2)
      BY <2>4, <3>1, <3>2 DEF Valid
    <3>4. ~Bye(ms, key, node) /\ ~Bye(ms2, key, node2)
      BY <2>4, <3>1 DEF Bye
    <3>5. CASE Valid(ms, key, node)
      <4>1. node2.winner = node.winner /\ node2.loser = node.loser /\ node.resolved /\ node2.resolved
        BY <2>1, <3>1, <3>2, <3>3, <3>5 DEF NodeSays
      <4>2. node.winner \in {node.entryA, node.entryB} /\ node.loser \in {node.entryA, node.entryB}
        BY <2>1, <3>5 DEF NodeSays, Valid
      <4>3. e = r \/ (e # node.entryA /\ e # node.entryB)
        BY <2>4 DEF MayStandFor, node
      <4>4. Named(e, r, node.winner) = node.winner /\ Named(e, r, node.loser) = node.loser
        BY <4>2, <4>3 DEF Named
      <4> QED
        BY <2>2, <4>1, <4>4 DEF Renamed, node, node2
    <3>6. CASE ~Valid(ms, key, node)
      <4>1. /\ node2.winner = NoEntry /\ node2.loser = NoEntry /\ node.winner = NoEntry /\ node.loser = NoEntry
            /\ ~node.resolved /\ ~node2.resolved
        BY <2>1, <3>3, <3>4, <3>6 DEF NodeSays
      <4> QED
        BY <1>0, <2>2, <4>1 DEF Renamed, node, node2
    <3> QED
      BY <3>5, <3>6
  <2>5. CASE ~(key \in DOMAIN ms /\ ms[key].status = "COMPLETED")
    <3>1. ~(key \in DOMAIN ms2 /\ ms2[key].status = "COMPLETED")
      BY <2>5 DEF SameResults
    <3>2. ~Valid(ms, key, node) /\ ~Valid(ms2, key, node2)
      BY <2>5, <3>1 DEF Valid
    <3>3. Bye(ms, key, node) <=> node.feedsResolved /\ NoEntry \in {node.entryA, node.entryB}
      BY DEF Bye, SameResults, node
    <3>4. Bye(ms2, key, node2) <=> node2.feedsResolved /\ NoEntry \in {node2.entryA, node2.entryB}
      <4>1. NoEntry \in {node2.entryA, node2.entryB} <=> NoEntry \in {node.entryA, node.entryB}
        BY <1>0, <2>3
      <4>2. key \in DOMAIN ms2 => NoEntry \notin {node.entryA, node.entryB}
        BY DEF SameResults, node
      <4> QED
        BY <4>1, <4>2 DEF Bye
    <3>5. CASE Bye(ms, key, node)
      <4>1. Bye(ms2, key, node2)
        BY <1>0, <2>2, <2>3, <3>3, <3>4, <3>5 DEF node, node2
      <4>2. /\ node.resolved /\ node2.resolved /\ node.loser = NoEntry /\ node2.loser = NoEntry
            /\ node.winner = IF node.entryA # NoEntry THEN node.entryA ELSE node.entryB
            /\ node2.winner = IF node2.entryA # NoEntry THEN node2.entryA ELSE node2.entryB
        BY <2>1, <3>5, <4>1 DEF NodeSays
      <4>3. node2.winner = Named(e, r, node.winner)
        BY <1>0, <2>3, <4>2
      <4> QED
        BY <1>0, <2>2, <4>2, <4>3 DEF Renamed, node, node2
    <3>6. CASE ~Bye(ms, key, node)
      <4>1. ~Bye(ms2, key, node2)
        BY <1>0, <2>2, <2>3, <3>3, <3>4, <3>6 DEF node, node2
      <4>2. /\ node2.winner = NoEntry /\ node2.loser = NoEntry /\ node.winner = NoEntry /\ node.loser = NoEntry
            /\ ~node.resolved /\ ~node2.resolved
        BY <2>1, <3>2, <3>6, <4>1 DEF NodeSays
      <4> QED
        BY <1>0, <2>2, <4>2 DEF Renamed, node, node2
    <3> QED
      BY <3>5, <3>6
  <2> QED
    BY <2>4, <2>5
<1>2. \A key \in Keys(rounds, format) :
        (\A k \in Keys(rounds, format) : Place(rounds, k) < Place(rounds, key) => k \in Good) => key \in Good
  BY <1>1
<1> HIDE DEF Good
<1>3. \A key \in Keys(rounds, format) : key \in Good
  BY <1>2, NodeInduction
<1> QED
  BY <1>3 DEF Good

-----------------------------------------------------------------------------
(* A team's way through the bracket is one thread.                         *)

DistinctSlots(rounds, slots) ==
    \A i, j \in 1..2^rounds : slots[i] = slots[j] /\ slots[i] # NoEntry => i = j

\* Side s of a node has e from node p.
Takes(rounds, nodes, e, p, key, s) ==
    /\ ~Opening(key) /\ Feeds(rounds, key)[s].key = p /\ nodes[p][Feeds(rounds, key)[s].result] = e

\* e has left node p for a node that is not after key.
Precedes(rounds, format, nodes, e, p, key) ==
    /\ Place(rounds, p) < Place(rounds, key)
    /\ \E c \in Keys(rounds, format), t \in Sides :
         Takes(rounds, nodes, e, p, c, t) /\ Place(rounds, c) <= Place(rounds, key)

\* Whoever meets e at a node has met it at no other node that is not before.
Threaded(rounds, format, nodes, e, key) ==
    \A s \in Sides, p \in Keys(rounds, format), t \in Sides :
       /\ Side(nodes[key], s) = e /\ Side(nodes[p], t) = e
       /\ Place(rounds, p) <= Place(rounds, key) /\ <<p, t>> # <<key, s>>
       => Precedes(rounds, format, nodes, e, p, key)

\* The side of a node that takes e holds e.
LEMMA TakersHold ==
    ASSUME NEW rounds \in 1..MaxRounds, NEW format \in Formats, NEW slots, NEW ms, NEW n,
           IsBracket(rounds, format, slots, ms, n), NEW e, NEW p,
           NEW key \in Keys(rounds, format), NEW s \in Sides, Takes(rounds, n, e, p, key, s)
    PROVE  Side(n[key], s) = e
BY NodeSides DEF Takes

\* Whoever is at a node after the first round has come from an earlier one.
LEMMA SomeTaken ==
    ASSUME NEW rounds \in 1..MaxRounds, NEW format \in Formats, NEW slots, NEW ms, NEW n,
           IsBracket(rounds, format, slots, ms, n), NEW e, e # NoEntry,
           NEW key \in Keys(rounds, format), NEW s \in Sides, Side(n[key], s) = e, ~Opening(key)
    PROVE  \E p \in Keys(rounds, format) :
             /\ Takes(rounds, n, e, p, key, s) /\ Place(rounds, p) < Place(rounds, key)
             /\ \E t \in Sides : Side(n[p], t) = e
<1> DEFINE p == Feeds(rounds, key)[s].key
           result == Feeds(rounds, key)[s].result
<1>1. FeedFits(rounds, format, key, s, Feeds(rounds, key)[s])
  BY FeedsFit DEF Sides
<1>2. p \in Keys(rounds, format) /\ Place(rounds, p) < Place(rounds, key) /\ result \in {"winner", "loser"}
  BY <1>1 DEF FeedFits
<1>3. n[p][result] = e
  BY NodeSides
<1>4. NodeSays(ms, p, n[p])
  BY <1>2, NodeSides
<1>5. \E t \in Sides : Side(n[p], t) = e
  BY <1>2, <1>3, <1>4, ResultsAreSides
<1>6. Takes(rounds, n, e, p, key, s)
  BY <1>3 DEF Takes
<1> QED
  BY <1>2, <1>5, <1>6

\* A team leaves a node once.
LEMMA OneTaker ==
    ASSUME NEW rounds \in 1..MaxRounds, NEW format \in Formats, NEW slots, NEW ms, NEW n,
           IsBracket(rounds, format, slots, ms, n), NEW e, e # NoEntry,
           NEW p \in Keys(rounds, format), Threaded(rounds, format, n, e, p),
           NEW c \in Keys(rounds, format), NEW t \in Sides, Takes(rounds, n, e, p, c, t),
           NEW d \in Keys(rounds, format), NEW u \in Sides, Takes(rounds, n, e, p, d, u)
    PROVE  c = d /\ t = u
<1> DEFINE f == Feeds(rounds, c)[t]
           g == Feeds(rounds, d)[u]
<1>1. f.key = p /\ g.key = p /\ n[p][f.result] = e /\ n[p][g.result] = e
  BY DEF Takes
<1>2. /\ f.result \in {"winner", "loser"} /\ Taker(rounds, format, f) = <<c, t>>
      /\ g.result \in {"winner", "loser"} /\ Taker(rounds, format, g) = <<d, u>>
  <2>1. FeedFits(rounds, format, c, t, f) /\ FeedFits(rounds, format, d, u, g)
    BY FeedsFit DEF Sides, Takes
  <2> QED
    BY <2>1 DEF FeedFits
<1> HIDE DEF f, g
<1>3. CASE f.result = g.result
  <2>1. Taker(rounds, format, f) = Taker(rounds, format, g)
    BY <1>1, <1>3 DEF Taker
  <2> QED
    BY <1>2, <2>1
<1>4. CASE f.result # g.result
  <2>1. n[p].winner = e /\ n[p].loser = e
    BY <1>1, <1>2, <1>4
  <2>2. NodeSays(ms, p, n[p])
    BY NodeSides
  <2>3. Side(n[p], 1) = Side(n[p], 2) /\ \E s \in Sides : Side(n[p], s) = e
    BY <2>1, <2>2, ResultsAreSides
  <2>4. 1 \in Sides /\ 2 \in Sides /\ \A s \in Sides : s = 1 \/ s = 2
    BY DEF Sides
  <2>5. Side(n[p], 1) = e /\ Side(n[p], 2) = e
    BY <2>3, <2>4
  <2>6. Place(rounds, p) \in Int
    BY KeysByPlace
  <2>7. <<p, 1>> # <<p, 2>> /\ Place(rounds, p) <= Place(rounds, p)
    BY <2>6
  <2>8. Precedes(rounds, format, n, e, p, p)
    BY <2>4, <2>5, <2>7 DEF Threaded
  <2> QED
    BY <2>6, <2>8 DEF Precedes
<1> QED
  BY <1>3, <1>4

\* In the first round every seed is at one side.
LEMMA OpeningThreaded ==
    ASSUME NEW rounds \in 1..MaxRounds, NEW format \in Formats, NEW slots, NEW ms, NEW n,
           IsBracket(rounds, format, slots, ms, n), DistinctSlots(rounds, slots), NEW e, e # NoEntry,
           NEW key \in Keys(rounds, format), Opening(key)
    PROVE  Threaded(rounds, format, n, e, key)
<1> SUFFICES ASSUME NEW s \in Sides, NEW p \in Keys(rounds, format), NEW t \in Sides,
                    Side(n[key], s) = e, Side(n[p], t) = e,
                    Place(rounds, p) <= Place(rounds, key), <<p, t>> # <<key, s>>
             PROVE  FALSE
  BY DEF Threaded
<1>1. Place(rounds, key) = 1 /\ Place(rounds, p) \in 1..Depth(rounds, format) /\ Depth(rounds, format) \in Nat
  BY KeysByPlace, LayersAre DEF Place, Opening
<1>2. Place(rounds, p) = 1
  BY <1>1
<1>3. Opening(p)
  <2>1. p \in Layer(rounds, format, 1) /\ 1 <= rounds
    BY <1>2, KeysByPlace DEF MaxRounds
  <2>2. p \in MainRound(rounds, 1)
    BY <2>1 DEF Layer
  <2> QED
    BY <2>2 DEF MainRound, Opening
<1>4. PICK i \in 1..2^(rounds - 1) : /\ key = <<"MAIN", 1, i>> /\ i \in Nat \ {0}
                                     /\ 2*i - 1 \in 1..2^rounds /\ 2*i \in 1..2^rounds
  BY OpeningSlots
<1>5. PICK j \in 1..2^(rounds - 1) : /\ p = <<"MAIN", 1, j>> /\ j \in Nat \ {0}
                                     /\ 2*j - 1 \in 1..2^rounds /\ 2*j \in 1..2^rounds
  BY <1>3, OpeningSlots
<1>6. Slot(key, s) = IF s = 1 THEN 2*i - 1 ELSE 2*i
  BY <1>4 DEF Slot
<1>7. Slot(p, t) = IF t = 1 THEN 2*j - 1 ELSE 2*j
  BY <1>5 DEF Slot
<1>8. slots[Slot(key, s)] = e /\ slots[Slot(p, t)] = e
  BY <1>3, NodeSides
<1>9. Slot(key, s) = Slot(p, t)
  BY <1>4, <1>5, <1>6, <1>7, <1>8 DEF DistinctSlots
<1>10. i = j /\ s = t
  BY <1>4, <1>5, <1>6, <1>7, <1>9 DEF Sides
<1> QED
  BY <1>4, <1>5, <1>10

LEMMA OneThread ==
    ASSUME NEW rounds \in 1..MaxRounds, NEW format \in Formats, NEW slots, NEW ms, NEW n,
           IsBracket(rounds, format, slots, ms, n), DistinctSlots(rounds, slots), NEW e, e # NoEntry
    PROVE  \A key \in Keys(rounds, format) : Threaded(rounds, format, n, e, key)
<1> DEFINE Good == {key \in Keys(rounds, format) : Threaded(rounds, format, n, e, key)}
           P(key) == Place(rounds, key)
<1>0. \A key \in Keys(rounds, format) : P(key) \in Int
  BY KeysByPlace
<1>1. ASSUME NEW key \in Keys(rounds, format),
             \A k \in Keys(rounds, format) : P(k) < P(key) => k \in Good
      PROVE  Threaded(rounds, format, n, e, key)
  <2>1. CASE Opening(key)
    BY <2>1, OpeningThreaded
  <2>2. CASE ~Opening(key)
    <3> SUFFICES ASSUME NEW s \in Sides, NEW k \in Keys(rounds, format), NEW t \in Sides,
                        Side(n[key], s) = e, Side(n[k], t) = e, P(k) <= P(key), <<k, t>> # <<key, s>>
                 PROVE  Precedes(rounds, format, n, e, k, key)
      BY DEF Threaded
    <3>1. PICK p \in Keys(rounds, format) : /\ Takes(rounds, n, e, p, key, s) /\ P(p) < P(key)
                                            /\ \E u \in Sides : Side(n[p], u) = e
      BY <2>2, SomeTaken
    <3>2. Threaded(rounds, format, n, e, p)
      BY <1>1, <3>1
    <3>3. CASE k = p
      <4>1. P(key) <= P(key)
        BY <1>0
      <4> QED
        BY <3>1, <3>3, <4>1 DEF Precedes
    <3>4. CASE k # p /\ P(k) <= P(p)
      <4>1. Precedes(rounds, format, n, e, k, p)
        BY <3>1, <3>2, <3>4 DEF Threaded
      <4>2. PICK c \in Keys(rounds, format), u \in Sides :
              Takes(rounds, n, e, k, c, u) /\ P(c) <= P(p)
        BY <4>1 DEF Precedes
      <4>3. P(k) < P(p)
        BY <4>1 DEF Precedes
      <4>4. P(k) < P(key) /\ P(c) <= P(key)
        BY <1>0, <3>1, <4>2, <4>3
      <4> QED
        BY <4>2, <4>4 DEF Precedes
    <3>5. CASE P(k) > P(p)
      <4>1. ~Opening(k)
        <5>1. P(p) \in 1..Depth(rounds, format)
          BY KeysByPlace
        <5>2. Opening(k) => P(k) = 1
          BY DEF Place, Opening
        <5> QED
          BY <3>5, <5>1, <5>2
      <4>2. PICK q \in Keys(rounds, format) : /\ Takes(rounds, n, e, q, k, t) /\ P(q) < P(k)
                                              /\ \E u \in Sides : Side(n[q], u) = e
        BY <4>1, SomeTaken
      <4>3. P(q) < P(key)
        BY <1>0, <4>2
      <4>4. Threaded(rounds, format, n, e, q)
        BY <1>1, <4>3
      <4>5. CASE q = p
        BY <3>1, <3>2, <4>2, <4>5, OneTaker
      <4>6. CASE q # p /\ P(q) <= P(p)
        <5>1. Precedes(rounds, format, n, e, q, p)
          BY <3>1, <3>2, <4>2, <4>6 DEF Threaded
        <5>2. PICK c \in Keys(rounds, format), u \in Sides :
                Takes(rounds, n, e, q, c, u) /\ P(c) <= P(p)
          BY <5>1 DEF Precedes
        <5>3. c = k
          BY <4>2, <4>4, <5>2, OneTaker
        <5> QED
          BY <1>0, <3>5, <5>2, <5>3
      <4>7. CASE q # p /\ P(p) < P(q)
        <5>1. Precedes(rounds, format, n, e, p, q)
          <6>1. P(p) <= P(q)
            BY <1>0, <4>7
          <6> QED
            BY <3>1, <4>2, <4>4, <4>7, <6>1 DEF Threaded
        <5>2. PICK c \in Keys(rounds, format), u \in Sides :
                Takes(rounds, n, e, p, c, u) /\ P(c) <= P(q)
          BY <5>1 DEF Precedes
        <5>3. c = key
          BY <3>1, <3>2, <5>2, OneTaker
        <5> QED
          BY <1>0, <4>2, <5>2, <5>3
      <4>8. P(q) <= P(p) \/ P(p) < P(q)
        BY <1>0
      <4> QED
        BY <4>5, <4>6, <4>7, <4>8
    <3>6. P(k) <= P(p) \/ P(k) > P(p)
      BY <1>0
    <3> QED
      BY <3>3, <3>4, <3>5, <3>6
  <2> QED
    BY <2>1, <2>2
<1>2. \A key \in Keys(rounds, format) :
        (\A k \in Keys(rounds, format) : P(k) < P(key) => k \in Good) => key \in Good
  BY <1>1
<1> HIDE DEF Good
<1>3. \A key \in Keys(rounds, format) : key \in Good
  BY <1>2, NodeInduction
<1> QED
  BY <1>3 DEF Good

\* A team is waiting at one side of one node: there is no other that is not resolved.
LEMMA OneFrontier ==
    ASSUME NEW rounds \in 1..MaxRounds, NEW format \in Formats, NEW slots, NEW ms, NEW n,
           IsBracket(rounds, format, slots, ms, n), DistinctSlots(rounds, slots), NEW e, e # NoEntry,
           NEW k \in Keys(rounds, format), NEW s \in Sides, Side(n[k], s) = e, ~n[k].resolved,
           NEW m \in Keys(rounds, format), NEW t \in Sides, Side(n[m], t) = e
    PROVE  /\ Place(rounds, m) <= Place(rounds, k)
           /\ <<m, t>> = <<k, s>> \/ Precedes(rounds, format, n, e, m, k)
           /\ ~n[m].resolved => m = k
<1>1. \A key \in Keys(rounds, format) : Threaded(rounds, format, n, e, key) /\ Place(rounds, key) \in Int
  BY OneThread, KeysByPlace
<1>2. ASSUME NEW p \in Keys(rounds, format), NEW key, Precedes(rounds, format, n, e, p, key)
      PROVE  n[p].resolved
  <2>1. PICK c \in Keys(rounds, format), u \in Sides : Takes(rounds, n, e, p, c, u)
    BY <1>2 DEF Precedes
  <2>2. FeedFits(rounds, format, c, u, Feeds(rounds, c)[u])
    BY <2>1, FeedsFit DEF Sides, Takes
  <2>3. n[p].winner = e \/ n[p].loser = e
    BY <2>1, <2>2 DEF Takes, FeedFits
  <2>4. NodeSays(ms, p, n[p])
    BY NodeSides
  <2> QED
    BY <2>3, <2>4, ResultsAreSides
<1>3. CASE <<m, t>> = <<k, s>>
  BY <1>1, <1>3
<1>4. CASE <<m, t>> # <<k, s>> /\ Place(rounds, m) <= Place(rounds, k)
  <2>1. Precedes(rounds, format, n, e, m, k)
    BY <1>1, <1>4 DEF Threaded
  <2> QED
    BY <1>2, <1>4, <2>1
<1>5. CASE <<m, t>> # <<k, s>> /\ Place(rounds, k) <= Place(rounds, m)
  <2>1. Precedes(rounds, format, n, e, k, m)
    BY <1>1, <1>5 DEF Threaded
  <2> QED
    BY <1>2, <2>1
<1>6. Place(rounds, m) <= Place(rounds, k) \/ Place(rounds, k) <= Place(rounds, m)
  BY <1>1
<1> QED
  BY <1>3, <1>4, <1>5, <1>6

-----------------------------------------------------------------------------
(* What the builder returns *)

LEMMA NodesTyped ==
    ASSUME NEW rounds \in 1..MaxRounds, NEW format \in Formats, NEW slots, NEW ms, NEW n, NEW S,
           IsBracket(rounds, format, slots, ms, n), \A i \in 1..2^rounds : slots[i] \in S \cup {NoEntry}
    PROVE  \A key \in Keys(rounds, format) :
             /\ \A s \in Sides : Side(n[key], s) \in S \cup {NoEntry}
             /\ n[key].winner \in S \cup {NoEntry} /\ n[key].loser \in S \cup {NoEntry}
<1> DEFINE Typed(key) == /\ \A s \in Sides : Side(n[key], s) \in S \cup {NoEntry}
                         /\ n[key].winner \in S \cup {NoEntry} /\ n[key].loser \in S \cup {NoEntry}
           Good == {key \in Keys(rounds, format) : Typed(key)}
<1>1. ASSUME NEW key \in Keys(rounds, format),
             \A k \in Keys(rounds, format) : Place(rounds, k) < Place(rounds, key) => k \in Good
      PROVE  Typed(key)
  <2>1. NodeSays(ms, key, n[key])
    BY NodeSides
  <2>2. \A s \in Sides : Side(n[key], s) \in S \cup {NoEntry}
    <3>1. CASE Opening(key)
      <4>1. \A s \in Sides : Slot(key, s) \in 1..2^rounds
        BY <3>1, OpeningSlots DEF Slot, Sides
      <4> QED
        BY <3>1, <4>1, NodeSides
    <3>2. CASE ~Opening(key)
      <4>1. ASSUME NEW s \in Sides
            PROVE  Side(n[key], s) \in S \cup {NoEntry}
        <5> DEFINE f == Feeds(rounds, key)[s]
        <5>1. FeedFits(rounds, format, key, s, f)
          BY <3>2, FeedsFit DEF Sides
        <5>2. f.key \in Good /\ f.result \in {"winner", "loser"}
          BY <1>1, <5>1 DEF FeedFits
        <5>3. Side(n[key], s) = n[f.key][f.result]
          BY <3>2, NodeSides
        <5> QED
          BY <5>2, <5>3
      <4> QED
        BY <4>1
    <3> QED
      BY <3>1, <3>2
  <2>3. n[key].winner \in S \cup {NoEntry} /\ n[key].loser \in S \cup {NoEntry}
    BY <2>1, <2>2, ResultsAreSides
  <2> QED
    BY <2>2, <2>3
<1>2. \A key \in Keys(rounds, format) :
        (\A k \in Keys(rounds, format) : Place(rounds, k) < Place(rounds, key) => k \in Good) => key \in Good
  BY <1>1
<1> HIDE DEF Good
<1>3. \A key \in Keys(rounds, format) : key \in Good
  BY <1>2, NodeInduction
<1> QED
  BY <1>3 DEF Good

LEMMA BracketIs ==
    ASSUME NEW rounds, NEW seeds, NEW ms, NEW format
    PROVE  LET bracket == BuildBracket(rounds, seeds, ms, format)
               nodes == Nodes(rounds, seeds, ms, format)
           IN  /\ bracket.nodes = nodes /\ bracket.ready = Ready(rounds, nodes, format)
               /\ bracket.complete = Complete(rounds, nodes, format)
               /\ bracket.podium = Podium(rounds, nodes, format)
<1> DEFINE Answer(n) == [nodes |-> n, ready |-> Ready(rounds, n, format),
                         complete |-> Complete(rounds, n, format), podium |-> Podium(rounds, n, format)]
           nodes == Nodes(rounds, seeds, ms, format)
           S == {Answer(n) : n \in {nodes}}
<1> HIDE DEF nodes
<1>1. S = {Answer(nodes)}
  OBVIOUS
<1>2. BuildBracket(rounds, seeds, ms, format) = CHOOSE y \in S : TRUE
  BY DEF BuildBracket, With, nodes
<1> HIDE DEF S
<1>3. (CHOOSE y \in S : TRUE) = Answer(nodes)
  <2>1. (CHOOSE y \in S : TRUE) \in S
    BY <1>1
  <2> QED
    BY <1>1, <2>1
<1> DEFINE bracket == BuildBracket(rounds, seeds, ms, format)
<1>4. bracket = Answer(nodes)
  BY <1>2, <1>3
<1> HIDE DEF bracket
<1>5. /\ bracket.nodes = nodes /\ bracket.ready = Ready(rounds, nodes, format)
      /\ bracket.complete = Complete(rounds, nodes, format)
      /\ bracket.podium = Podium(rounds, nodes, format)
  BY <1>4
<1> QED
  BY <1>5 DEF bracket, nodes

\* A match is created only for a node without one whose two sides are known.
LEMMA ReadyIs ==
    ASSUME NEW rounds \in 1..MaxRounds, NEW format \in Formats, NEW slots, NEW ms, NEW n,
           IsBracket(rounds, format, slots, ms, n), DOMAIN n = Keys(rounds, format),
           NEW key \in Ready(rounds, n, format)
    PROVE  /\ key \in Keys(rounds, format) /\ key \notin DOMAIN ms
           /\ NoEntry \notin {n[key].entryA, n[key].entryB}
<1>1. /\ key \in Keys(rounds, format) /\ ~n[key].hasMatch
      /\ NoEntry \notin {n[key].entryA, n[key].entryB}
  BY DEF Ready
<1>2. NodeSays(ms, key, n[key])
  BY <1>1, NodeSides
<1> QED
  BY <1>1, <1>2 DEF NodeSays

\* A bracket for 2 to 256 teams has 1 to 8 rounds, and more than half of its slots are taken.
LEMMA RoundsFit ==
    ASSUME NEW n \in 2..256
    PROVE  Log2Ceil(n) \in 1..MaxRounds /\ 2^Log2Ceil(n) >= n /\ 2^(Log2Ceil(n) - 1) < n
<1> DEFINE Fits(k) == 2^k >= n /\ 2^(k - 1) < n
<1>1. MaxRounds = 8 /\ n \in Int /\ n >= 2 /\ n <= 256
  BY DEF MaxRounds
<1>2. /\ 2^0 = 1 /\ 2^1 = 2 /\ 2^2 = 4 /\ 2^3 = 8 /\ 2^4 = 16 /\ 2^5 = 32 /\ 2^6 = 64 /\ 2^7 = 128
      /\ 2^8 = 256
  OBVIOUS
<1>3. /\ Fits(1) <=> 2 >= n /\ 1 < n
      /\ Fits(2) <=> 4 >= n /\ 2 < n
      /\ Fits(3) <=> 8 >= n /\ 4 < n
      /\ Fits(4) <=> 16 >= n /\ 8 < n
      /\ Fits(5) <=> 32 >= n /\ 16 < n
      /\ Fits(6) <=> 64 >= n /\ 32 < n
      /\ Fits(7) <=> 128 >= n /\ 64 < n
      /\ Fits(8) <=> 256 >= n /\ 128 < n
  <2>1. /\ 1 - 1 = 0 /\ 2 - 1 = 1 /\ 3 - 1 = 2 /\ 4 - 1 = 3 /\ 5 - 1 = 4 /\ 6 - 1 = 5 /\ 7 - 1 = 6 /\ 8 - 1 = 7
    OBVIOUS
  <2> QED
    BY <1>2, <2>1
<1> HIDE DEF Fits
<1>4. \/ Fits(1) \/ Fits(2) \/ Fits(3) \/ Fits(4) \/ Fits(5) \/ Fits(6) \/ Fits(7) \/ Fits(8)
  BY <1>1, <1>3
<1>5. \E k \in 1..MaxRounds : Fits(k)
  BY <1>1, <1>4
<1> QED
  BY <1>5 DEF Log2Ceil, Fits

-----------------------------------------------------------------------------
(* Progress: some node can be played until the last one is resolved. *)

FinalKey(rounds, format) == IF format = "DOUBLE_ELIMINATION" THEN GrandFinalKey ELSE <<"MAIN", rounds, 1>>

LEMMA FinalIsAKey ==
    ASSUME NEW rounds \in 1..MaxRounds, NEW format \in Formats
    PROVE  FinalKey(rounds, format) \in Keys(rounds, format)
<1>1. rounds \in 1..rounds /\ 2^(rounds - rounds) = 1
  <2>1. rounds \in 1..rounds
    BY DEF MaxRounds
  <2> QED
    BY <2>1, MainSizes
<1>2. <<"MAIN", rounds, 1>> \in MainRound(rounds, rounds)
  BY <1>1 DEF MainRound
<1> QED
  BY <1>1, <1>2, KeysByKind DEF FinalKey

LEMMA Paired ==
    ASSUME NEW n \in Nat \ {0}, NEW i \in 1..2*n
    PROVE  /\ Pair(i) \in 1..n /\ Half(i) \in 1..2
           /\ Half(i) = 1 => 2*Pair(i) - 1 = i
           /\ Half(i) = 2 => 2*Pair(i) = i
BY DEF Pair, Half

\* Side s of a node is fed by this result of node key.
FedBy(rounds, key, result, c, s) ==
    ~Opening(c) /\ Feeds(rounds, c)[s].key = key /\ Feeds(rounds, c)[s].result = result

\* The winner of every node of the main bracket but the last goes on to the next round.
LEMMA MainFedOn ==
    ASSUME NEW rounds \in 1..MaxRounds, NEW format \in Formats, NEW r \in 1..rounds, r # rounds,
           NEW key \in MainRound(rounds, r)
    PROVE  \E c \in Keys(rounds, format), s \in 1..2 :
             c \in MainRound(rounds, r + 1) /\ FedBy(rounds, key, "winner", c, s)
<1>1. rounds \in Nat /\ r \in Nat /\ r + 1 \in 1..rounds /\ r + 1 > 1 /\ (r + 1) - 1 = r /\ r + 1 # 1
  BY DEF MaxRounds
<1> DEFINE n == 2^(rounds - (r + 1))
<1>2. n \in Nat \ {0} /\ 2^(rounds - r) = 2 * n
  <2>1. 2^(rounds - ((r + 1) - 1)) = 2 * n /\ n \in Nat \ {0}
    BY <1>1, MainSizes
  <2> QED
    BY <1>1, <2>1 DEF FedBy
<1>3. PICK i \in 1..2^(rounds - r) : key = <<"MAIN", r, i>>
  BY DEF MainRound
<1> DEFINE c == <<"MAIN", r + 1, Pair(i)>>
           s == Half(i)
<1>4. c \in MainRound(rounds, r + 1)
  <2>1. Pair(i) \in 1..n
    BY <1>2, <1>3, Paired
  <2> QED
    BY <2>1 DEF MainRound
<1>5. c[1] = "MAIN" /\ c[2] = r + 1 /\ c[3] = Pair(i)
  OBVIOUS
<1> HIDE DEF n, c
<1>6. c \in Keys(rounds, format) /\ ~Opening(c)
  BY <1>1, <1>4, <1>5, KeysByKind DEF Opening
<1>7. Feeds(rounds, c) = <<WinnerOf("MAIN", r, 2*Pair(i) - 1), WinnerOf("MAIN", r, 2*Pair(i))>>
  BY <1>1, <1>5 DEF Feeds
<1>8. s \in 1..2 /\ (s = 1 => 2*Pair(i) - 1 = i) /\ (s = 2 => 2*Pair(i) = i)
  BY <1>2, <1>3, Paired
<1>9. Feeds(rounds, c)[s].key = key /\ Feeds(rounds, c)[s].result = "winner"
  <2>1. CASE s = 1
    BY <1>3, <1>7, <1>8, <2>1, FeedParts
  <2>2. CASE s = 2
    BY <1>3, <1>7, <1>8, <2>2, FeedParts
  <2> QED
    BY <1>8, <2>1, <2>2
<1> QED
  BY <1>4, <1>6, <1>8, <1>9 DEF FedBy

LEMMA FinalFedOn ==
    ASSUME NEW rounds \in 1..MaxRounds, NEW format \in Formats, format = "DOUBLE_ELIMINATION",
           NEW key, key = <<"MAIN", rounds, 1>> \/ (rounds # 1 /\ key = <<"LOWER", 2*(rounds - 1), 1>>)
    PROVE  \E c \in Keys(rounds, format), s \in 1..2 : FedBy(rounds, key, "winner", c, s)
<1>1. GrandFinalKey \in Keys(rounds, format) /\ ~Opening(GrandFinalKey)
  BY KeysByKind DEF Opening, GrandFinalKey
<1>2. Feeds(rounds, GrandFinalKey) = <<WinnerOf("MAIN", rounds, 1), LowerChampion(rounds)>>
  BY DEF Feeds, GrandFinalKey
<1>3. rounds # 1 => LowerChampion(rounds) = WinnerOf("LOWER", 2*(rounds - 1), 1)
  BY DEF LowerChampion
<1>4. CASE key = <<"MAIN", rounds, 1>>
  <2>1. Feeds(rounds, GrandFinalKey)[1].key = key /\ Feeds(rounds, GrandFinalKey)[1].result = "winner"
    BY <1>2, <1>4, FeedParts
  <2> QED
    BY <1>1, <2>1 DEF FedBy
<1>5. CASE rounds # 1 /\ key = <<"LOWER", 2*(rounds - 1), 1>>
  <2>1. Feeds(rounds, GrandFinalKey)[2].key = key /\ Feeds(rounds, GrandFinalKey)[2].result = "winner"
    BY <1>2, <1>3, <1>5, FeedParts
  <2> QED
    BY <1>1, <2>1 DEF FedBy
<1> QED
  BY <1>4, <1>5

\* Every node of the lower bracket but the last is fed on.
LEMMA LowerFedOn ==
    ASSUME NEW rounds \in 1..MaxRounds, NEW format \in Formats, format = "DOUBLE_ELIMINATION",
           NEW q \in 1..2*(rounds - 1), q # 2*(rounds - 1), NEW key \in LowerRound(rounds, q)
    PROVE  \E c \in Keys(rounds, format), s \in 1..2 : FedBy(rounds, key, "winner", c, s)
<1>1. rounds \in Nat /\ q \in Nat /\ q + 1 \in 1..2*(rounds - 1) /\ (q + 1) - 1 = q /\ q + 1 # 1
  BY DEF MaxRounds
<1>2. PICK i \in 1..LowerRoundSize(rounds, q) : key = <<"LOWER", q, i>>
  BY DEF LowerRound
<1> DEFINE n == LowerRoundSize(rounds, q + 1)
<1>3. CASE q % 2 = 1
  <2> DEFINE c == <<"LOWER", q + 1, i>>
  <2>1. (q + 1) % 2 # 1
    BY <1>1, <1>3
  <2>2. LowerRoundSize(rounds, q) = n
    BY <1>1, <2>1, LowerSizes
  <2>3. c \in LowerRound(rounds, q + 1) /\ c[1] = "LOWER" /\ c[2] = q + 1 /\ c[3] = i
    BY <1>2, <2>2 DEF LowerRound
  <2> HIDE DEF c, n
  <2>4. c \in Keys(rounds, format) /\ ~Opening(c)
    BY <1>1, <2>3, KeysByKind DEF Opening
  <2>5. Feeds(rounds, c) = LowerFeeds(rounds, q + 1, i)
    BY <2>3 DEF Feeds
  <2>6. Feeds(rounds, c)[1] = WinnerOf("LOWER", q, i)
    BY <1>1, <2>1, <2>5 DEF LowerFeeds
  <2>7. Feeds(rounds, c)[1].key = key /\ Feeds(rounds, c)[1].result = "winner"
    BY <1>2, <2>6, FeedParts
  <2> QED
    BY <2>4, <2>7 DEF FedBy
<1>4. CASE q % 2 # 1
  <2> DEFINE c == <<"LOWER", q + 1, Pair(i)>>
             s == Half(i)
  <2>1. (q + 1) % 2 = 1
    BY <1>1, <1>4
  <2>2. LowerRoundSize(rounds, q) = 2 * n /\ n \in Nat \ {0}
    BY <1>1, <2>1, LowerSizes
  <2>3. Pair(i) \in 1..n /\ s \in 1..2 /\ (s = 1 => 2*Pair(i) - 1 = i) /\ (s = 2 => 2*Pair(i) = i)
    BY <1>2, <2>2, Paired
  <2>4. c \in LowerRound(rounds, q + 1) /\ c[1] = "LOWER" /\ c[2] = q + 1 /\ c[3] = Pair(i)
    BY <2>3 DEF LowerRound
  <2> HIDE DEF c, n
  <2>5. c \in Keys(rounds, format) /\ ~Opening(c)
    BY <1>1, <2>4, KeysByKind DEF Opening
  <2>6. Feeds(rounds, c) = LowerFeeds(rounds, q + 1, Pair(i))
    BY <2>4 DEF Feeds
  <2>7. Feeds(rounds, c) = <<WinnerOf("LOWER", q, 2*Pair(i) - 1), WinnerOf("LOWER", q, 2*Pair(i))>>
    BY <1>1, <2>1, <2>6 DEF LowerFeeds
  <2>8. Feeds(rounds, c)[s].key = key /\ Feeds(rounds, c)[s].result = "winner"
    <3>1. CASE s = 1
      BY <1>2, <2>3, <2>7, <3>1, FeedParts
    <3>2. CASE s = 2
      BY <1>2, <2>3, <2>7, <3>2, FeedParts
    <3> QED
      BY <2>3, <3>1, <3>2
  <2> QED
    BY <2>3, <2>5, <2>8 DEF FedBy
<1> QED
  BY <1>3, <1>4

\* Every node but the final and the third-place match feeds a later one.
LEMMA FedOn ==
    ASSUME NEW rounds \in 1..MaxRounds, NEW format \in Formats, NEW key \in Keys(rounds, format),
           key # FinalKey(rounds, format), key # BronzeKey(rounds)
    PROVE  \E c \in Keys(rounds, format), s \in 1..2 : ~Opening(c) /\ Feeds(rounds, c)[s].key = key
<1>1. \/ \E r \in 1..rounds : key \in MainRound(rounds, r)
      \/ format = "DOUBLE_ELIMINATION" /\ \E q \in 1..2*(rounds - 1) : key \in LowerRound(rounds, q)
      \/ format = "DOUBLE_ELIMINATION" /\ key = GrandFinalKey
      \/ format # "DOUBLE_ELIMINATION" /\ rounds >= 2 /\ key = BronzeKey(rounds)
  BY KeysByKind
<1>2. ASSUME NEW r \in 1..rounds, key \in MainRound(rounds, r)
      PROVE  \E c \in Keys(rounds, format), s \in 1..2 : ~Opening(c) /\ Feeds(rounds, c)[s].key = key
  <2>1. CASE r # rounds
    BY <1>2, <2>1, MainFedOn DEF FedBy
  <2>2. CASE r = rounds
    <3>1. 2^(rounds - r) = 1
      BY <2>2, MainSizes
    <3>2. key = <<"MAIN", rounds, 1>>
      BY <1>2, <2>2, <3>1 DEF MainRound
    <3>3. format = "DOUBLE_ELIMINATION"
      BY <3>2 DEF FinalKey
    <3> QED
      BY <3>2, <3>3, FinalFedOn DEF FedBy
  <2> QED
    BY <2>1, <2>2
<1>3. ASSUME format = "DOUBLE_ELIMINATION", NEW q \in 1..2*(rounds - 1), key \in LowerRound(rounds, q)
      PROVE  \E c \in Keys(rounds, format), s \in 1..2 : ~Opening(c) /\ Feeds(rounds, c)[s].key = key
  <2>1. CASE q # 2*(rounds - 1)
    BY <1>3, <2>1, LowerFedOn DEF FedBy
  <2>2. CASE q = 2*(rounds - 1)
    <3>1. LowerRoundSize(rounds, q) = 1
      BY <2>2, LowerSizes
    <3>2. key = <<"LOWER", 2*(rounds - 1), 1>>
      BY <1>3, <2>2, <3>1 DEF LowerRound
    <3>3. rounds # 1
      BY <1>3
    <3> QED
      BY <1>3, <3>2, <3>3, FinalFedOn DEF FedBy
  <2> QED
    BY <2>1, <2>2
<1> QED
  BY <1>1, <1>2, <1>3 DEF FinalKey

\* The rows are of nodes whose sides are known.
SidesKnown(rounds, format, ms, nodes) ==
    \A k \in Keys(rounds, format) : k \in DOMAIN ms => NoEntry \notin {nodes[k].entryA, nodes[k].entryB}

\* The rows are results of nodes whose sides are known.
AllDecided(rounds, format, ms, nodes) ==
    \A k \in Keys(rounds, format) : k \in DOMAIN ms =>
      NoEntry \notin {nodes[k].entryA, nodes[k].entryB} /\ Valid(ms, k, nodes[k])

\* Behind a resolved node everything is resolved.
LEMMA ResolvedFeeds ==
    ASSUME NEW rounds \in 1..MaxRounds, NEW format \in Formats, NEW slots, NEW ms, NEW n,
           IsBracket(rounds, format, slots, ms, n), SidesKnown(rounds, format, ms, n),
           NEW key \in Keys(rounds, format), ~Opening(key), n[key].resolved, NEW s \in 1..2
    PROVE  n[Feeds(rounds, key)[s].key].resolved
<1>1. /\ NodeSays(ms, key, n[key])
      /\ n[key].feedsResolved <=> \A t \in Sides : n[Feeds(rounds, key)[t].key].resolved
      /\ \A t \in Sides : Side(n[key], t) = n[Feeds(rounds, key)[t].key][Feeds(rounds, key)[t].result]
  BY NodeSides
<1>2. s \in Sides
  BY DEF Sides
<1>3. CASE Bye(ms, key, n[key])
  BY <1>1, <1>2, <1>3 DEF Bye
<1>4. CASE Valid(ms, key, n[key])
  <2> DEFINE feed == Feeds(rounds, key)[s]
             p == n[feed.key]
  <2>1. feed.key \in Keys(rounds, format) /\ feed.result \in {"winner", "loser"}
    BY FeedsFit DEF FeedFits
  <2>2. NodeSays(ms, feed.key, p)
    BY <2>1, NodeSides
  <2>3. n[key].entryA # NoEntry /\ n[key].entryB # NoEntry
    BY <1>4 DEF SidesKnown, Valid
  <2>4. Side(n[key], s) # NoEntry
    BY <1>2, <2>3 DEF Side, Sides
  <2>5. p[feed.result] # NoEntry
    BY <1>1, <1>2, <2>4
  <2> HIDE DEF p, feed
  <2>6. (p.winner # NoEntry => p.resolved) /\ (p.loser # NoEntry => p.resolved)
    BY <2>2, ResultsAreSides
  <2>7. p.resolved
    BY <2>1, <2>5, <2>6
  <2> QED
    BY <2>7 DEF p, feed
<1> QED
  BY <1>1, <1>3, <1>4 DEF NodeSays

\* When the final and the third-place match are resolved, everything is.
LEMMA CompleteResolves ==
    ASSUME NEW rounds \in 1..MaxRounds, NEW format \in Formats, NEW slots, NEW ms, NEW n,
           IsBracket(rounds, format, slots, ms, n), SidesKnown(rounds, format, ms, n),
           n[FinalKey(rounds, format)].resolved,
           BronzeKey(rounds) \in Keys(rounds, format) => n[BronzeKey(rounds)].resolved
    PROVE  \A key \in Keys(rounds, format) : n[key].resolved
<1> DEFINE depth == Depth(rounds, format)
           Good == {l \in 0..depth : \A key \in Keys(rounds, format) : Place(rounds, key) = depth - l => n[key].resolved}
<1>1. depth \in Nat /\ \A key \in Keys(rounds, format) : Place(rounds, key) \in 1..depth
  BY LayersAre, KeysByPlace
<1> HIDE DEF depth
<1>2. ASSUME NEW l \in 0..depth, \A m \in 0..depth : m < l => m \in Good
      PROVE  l \in Good
  <2> SUFFICES ASSUME NEW key \in Keys(rounds, format), Place(rounds, key) = depth - l
               PROVE  n[key].resolved
    OBVIOUS
  <2>1. CASE key = FinalKey(rounds, format) \/ key = BronzeKey(rounds)
    BY <2>1
  <2>2. CASE ~(key = FinalKey(rounds, format) \/ key = BronzeKey(rounds))
    <3>1. PICK c \in Keys(rounds, format), s \in 1..2 : ~Opening(c) /\ Feeds(rounds, c)[s].key = key
      BY <2>2, FedOn
    <3>2. Place(rounds, key) < Place(rounds, c)
      BY <3>1, FeedsFit DEF FeedFits
    <3> DEFINE m == depth - Place(rounds, c)
    <3>3. m \in 0..depth /\ m < l /\ Place(rounds, c) = depth - m
      BY <1>1, <3>2
    <3>4. n[c].resolved
      BY <1>2, <3>3
    <3> QED
      BY <3>1, <3>4, ResolvedFeeds
  <2> QED
    BY <2>1, <2>2
<1> HIDE DEF Good
<1>3. \A l \in 0..depth : l \in Good
  BY <1>1, <1>2, Rising
<1>4. ASSUME NEW key \in Keys(rounds, format)
      PROVE  n[key].resolved
  <2>1. depth - Place(rounds, key) \in 0..depth /\ Place(rounds, key) = depth - (depth - Place(rounds, key))
    BY <1>1
  <2> QED
    BY <1>3, <2>1 DEF Good
<1> QED
  BY <1>4

\* When no node waits for its match everything is resolved.
LEMMA IdleResolves ==
    ASSUME NEW rounds \in 1..MaxRounds, NEW format \in Formats, NEW slots, NEW ms, NEW n,
           IsBracket(rounds, format, slots, ms, n), AllDecided(rounds, format, ms, n),
           \A key \in Keys(rounds, format) :
             key \notin DOMAIN ms => NoEntry \in {n[key].entryA, n[key].entryB}
    PROVE  \A key \in Keys(rounds, format) : n[key].resolved
<1> DEFINE Good == {key \in Keys(rounds, format) : n[key].resolved}
<1>1. ASSUME NEW key \in Keys(rounds, format),
             \A k \in Keys(rounds, format) : Place(rounds, k) < Place(rounds, key) => k \in Good
      PROVE  key \in Good
  <2>1. NodeSays(ms, key, n[key]) /\ (Opening(key) => n[key].feedsResolved)
    BY NodeSides
  <2>2. n[key].feedsResolved
    <3>1. CASE Opening(key)
      BY <2>1, <3>1
    <3>2. CASE ~Opening(key)
      <4>1. ASSUME NEW s \in Sides
            PROVE  n[Feeds(rounds, key)[s].key].resolved
        <5>1. /\ Feeds(rounds, key)[s].key \in Keys(rounds, format)
              /\ Place(rounds, Feeds(rounds, key)[s].key) < Place(rounds, key)
          BY <3>2, FeedsFit DEF FeedFits, Sides
        <5> QED
          BY <1>1, <5>1
      <4> QED
        BY <3>2, <4>1, NodeSides
    <3> QED
      BY <3>1, <3>2
  <2>3. CASE key \in DOMAIN ms
    BY <2>1, <2>3 DEF AllDecided, NodeSays
  <2>4. CASE key \notin DOMAIN ms
    BY <2>1, <2>2, <2>4 DEF NodeSays, Bye
  <2> QED
    BY <2>3, <2>4
<1> HIDE DEF Good
<1>2. \A key \in Keys(rounds, format) : key \in Good
  BY <1>1, NodeInduction
<1> QED
  BY <1>2 DEF Good

\* The better seed of every pair of the first round exists.
LEMMA FavouritesExist ==
    ASSUME NEW rounds \in 1..MaxRounds, NEW S, NoEntry \notin S, NEW seeds \in Seq(S), 2^(rounds - 1) < Len(seeds),
           NEW i \in 1..2^(rounds - 1)
    PROVE  Slots(rounds, seeds)[2*i - 1] # NoEntry
<1> DEFINE order == SeedOrder[rounds]
           prev == SeedOrder[rounds - 1]
           half == 2^(rounds - 1)
<1>1. rounds \in Nat \ {0} /\ rounds \in 0..MaxRounds
  BY DEF MaxRounds
<1>2. half \in Nat \ {0} /\ 2^rounds = 2 * half /\ (rounds = 1 => half = 1)
  <2>1. 2^rounds = 2 * half /\ half \in Nat \ {0}
    BY <1>1, Powers
  <2>2. rounds = 1 => rounds - 1 \in 0..MaxRounds /\ rounds - 1 = 0
    BY DEF MaxRounds
  <2>3. rounds = 1 => half = 1
    BY <2>2, Powers
  <2> QED
    BY <2>1, <2>3
<1>3. order = IF rounds = 1 THEN <<1, 2>> ELSE Followed(prev, rounds)
  BY <1>1, SeedOrderRule
<1>4. order[2*i - 1] \in 1..half
  <2>1. CASE rounds = 1
    <3>1. i = 1 /\ 2*i - 1 = 1
      BY <1>2, <2>1
    <3> QED
      BY <1>2, <1>3, <2>1, <3>1
  <2>2. CASE rounds # 1
    <3>1. rounds - 1 \in 1..MaxRounds
      BY <2>2 DEF MaxRounds
    <3>2. prev \in [1..half -> 1..half]
      BY <3>1, SeedOrderPlacesAll
    <3>3. 2*i - 1 \in 1..2^rounds /\ (2*i - 1) % 2 = 1 /\ ((2*i - 1) + 1) \div 2 = i
      BY <1>2
    <3> HIDE DEF order, prev, half
    <3>4. order[2*i - 1] = prev[i]
      BY <1>3, <2>2, <3>3 DEF Followed
    <3> QED
      BY <3>2, <3>4 DEF half
  <2> QED
    BY <2>1, <2>2
<1>5. Slots(rounds, seeds)[2*i - 1] = SlotSeed(order, seeds, 2*i - 1)
  <2>1. 2*i - 1 \in 1..2^rounds
    BY <1>2
  <2> QED
    BY <2>1, SlotsAre
<1> HIDE DEF order
<1>6. order[2*i - 1] <= Len(seeds) /\ order[2*i - 1] \in 1..Len(seeds)
  BY <1>2, <1>4
<1>7. seeds[order[2*i - 1]] \in S
  BY <1>6
<1> QED
  BY <1>5, <1>6, <1>7 DEF SlotSeed

\* The winner of a resolved node of the main bracket, and of the grand final, is known.
LEMMA WinnersAreKnown ==
    ASSUME NEW rounds \in 1..MaxRounds, NEW format \in Formats, NEW S, NoEntry \notin S, NEW seeds \in Seq(S),
           2^(rounds - 1) < Len(seeds), NEW ms, NEW n, IsBracket(rounds, format, Slots(rounds, seeds), ms, n)
    PROVE  \A key \in Keys(rounds, format) :
             key[1] \in {"MAIN", "GRAND_FINAL"} /\ n[key].resolved => n[key].winner # NoEntry
<1> DEFINE slots == Slots(rounds, seeds)
           Good == {key \in Keys(rounds, format) :
                      key[1] \in {"MAIN", "GRAND_FINAL"} /\ n[key].resolved => n[key].winner # NoEntry}
<1>1. ASSUME NEW key \in Keys(rounds, format),
             \A k \in Keys(rounds, format) : Place(rounds, k) < Place(rounds, key) => k \in Good,
             key[1] \in {"MAIN", "GRAND_FINAL"}, n[key].resolved
      PROVE  n[key].winner # NoEntry
  <2>1. NodeSays(ms, key, n[key])
    BY NodeSides
  <2>2. CASE Valid(ms, key, n[key])
    BY <2>1, <2>2 DEF NodeSays, Valid
  <2>3. CASE Bye(ms, key, n[key])
    <3>1. n[key].entryA # NoEntry
      <4>1. CASE Opening(key)
        <5>1. PICK i \in 1..2^(rounds - 1) : key = <<"MAIN", 1, i>>
          BY <4>1, OpeningSlots
        <5>2. Side(n[key], 1) = slots[Slot(key, 1)]
          BY <4>1, NodeSides DEF Sides
        <5>3. n[key].entryA = slots[2*i - 1]
          BY <5>1, <5>2 DEF Side, Slot
        <5> QED
          BY <5>3, FavouritesExist
      <4>2. CASE ~Opening(key)
        <5> DEFINE feed == Feeds(rounds, key)[1]
                   p == feed.key
        <5>1. /\ p \in Keys(rounds, format) /\ Place(rounds, p) < Place(rounds, key)
          BY <4>2, FeedsFit DEF FeedFits
        <5>2. feed.result = "winner" /\ p[1] = "MAIN"
          BY <1>1, FeedParts DEF Feeds
        <5>3. Side(n[key], 1) = n[p]["winner"] /\ n[p].resolved
          <6>1. /\ n[key].feedsResolved <=> \A t \in Sides : n[Feeds(rounds, key)[t].key].resolved
                /\ \A t \in Sides : Side(n[key], t) = n[Feeds(rounds, key)[t].key][Feeds(rounds, key)[t].result]
            BY <4>2, NodeSides
          <6> QED
            BY <2>3, <5>2, <6>1 DEF Bye, Sides
        <5>4. p \in Good
          BY <1>1, <5>1
        <5> HIDE DEF p, feed
        <5>5. n[p].winner # NoEntry
          BY <5>2, <5>3, <5>4
        <5> QED
          BY <5>3, <5>5 DEF Side
      <4> QED
        BY <4>1, <4>2
    <3> QED
      BY <2>1, <2>3, <3>1 DEF NodeSays
  <2> QED
    BY <1>1, <2>1, <2>2, <2>3 DEF NodeSays
<1>2. \A key \in Keys(rounds, format) :
        (\A k \in Keys(rounds, format) : Place(rounds, k) < Place(rounds, key) => k \in Good) => key \in Good
  BY <1>1
<1> HIDE DEF Good
<1>3. \A key \in Keys(rounds, format) : key \in Good
  BY <1>2, NodeInduction
<1> QED
  BY <1>3 DEF Good

\* A bracket is complete when, and only when, no node waits for its match.
LEMMA NeverStuckBracket ==
    ASSUME NEW rounds \in 1..MaxRounds, NEW format \in Formats, NEW S, NoEntry \notin S, NEW seeds \in Seq(S),
           2^(rounds - 1) < Len(seeds), NEW ms, NEW n, IsBracket(rounds, format, Slots(rounds, seeds), ms, n),
           DOMAIN n = Keys(rounds, format), AllDecided(rounds, format, ms, n)
    PROVE  Complete(rounds, n, format) <=>
             \A key \in Keys(rounds, format) : n[key].hasMatch \/ NoEntry \in {n[key].entryA, n[key].entryB}
<1> DEFINE slots == Slots(rounds, seeds)
<1>1. \A key \in Keys(rounds, format) : NodeSays(ms, key, n[key])
  BY NodeSides
<1>2. Complete(rounds, n, format) <=>
        /\ n[FinalKey(rounds, format)].resolved /\ n[FinalKey(rounds, format)].winner # NoEntry
        /\ BronzeKey(rounds) \in Keys(rounds, format) => n[BronzeKey(rounds)].resolved
  BY DEF Complete, FinalKey
<1>3. FinalKey(rounds, format) \in Keys(rounds, format) /\ FinalKey(rounds, format)[1] \in {"MAIN", "GRAND_FINAL"}
  BY FinalIsAKey DEF FinalKey, GrandFinalKey
<1>4. ASSUME Complete(rounds, n, format)
      PROVE  \A key \in Keys(rounds, format) : n[key].hasMatch \/ NoEntry \in {n[key].entryA, n[key].entryB}
  <2>1. \A key \in Keys(rounds, format) : n[key].resolved
    BY <1>2, <1>4, CompleteResolves DEF AllDecided, SidesKnown
  <2> QED
    BY <1>1, <2>1 DEF NodeSays, Valid, Bye
<1>5. ASSUME \A key \in Keys(rounds, format) : n[key].hasMatch \/ NoEntry \in {n[key].entryA, n[key].entryB}
      PROVE  Complete(rounds, n, format)
  <2>1. \A key \in Keys(rounds, format) : key \notin DOMAIN ms => NoEntry \in {n[key].entryA, n[key].entryB}
    BY <1>1, <1>5 DEF NodeSays
  <2>2. \A key \in Keys(rounds, format) : n[key].resolved
    BY <2>1, IdleResolves
  <2>3. n[FinalKey(rounds, format)].winner # NoEntry
    BY <1>3, <2>2, WinnersAreKnown
  <2> QED
    BY <1>2, <1>3, <2>2, <2>3
<1> QED
  BY <1>4, <1>5

-----------------------------------------------------------------------------
(* A bracket that has been played to its end *)

\* With two slots the loser of the only match meets the winner again; in a
\* larger bracket every loser of the main bracket has a place in the lower one.
LEMMA LosersFedOn ==
    ASSUME NEW rounds \in 1..MaxRounds, NEW format \in Formats, format = "DOUBLE_ELIMINATION",
           NEW r \in 1..rounds, NEW key \in MainRound(rounds, r)
    PROVE  \E c \in Keys(rounds, format), s \in 1..2 :
             c[1] # "MAIN" /\ FedBy(rounds, key, "loser", c, s)
<1>1. PICK i \in 1..2^(rounds - r) : key = <<"MAIN", r, i>>
  BY DEF MainRound
<1>2. CASE rounds = 1
  <2>1. GrandFinalKey \in Keys(rounds, format) /\ ~Opening(GrandFinalKey) /\ GrandFinalKey[1] # "MAIN"
    BY KeysByKind DEF Opening, GrandFinalKey
  <2>2. r = 1 /\ r = rounds /\ 2^(rounds - r) = 1
    BY <1>2, MainSizes
  <2>3. key = <<"MAIN", 1, 1>>
    BY <1>1, <2>2
  <2>4. Feeds(rounds, GrandFinalKey)[2] = LoserOf("MAIN", 1, 1)
    BY <1>2 DEF Feeds, GrandFinalKey, LowerChampion
  <2>5. Feeds(rounds, GrandFinalKey)[2].key = key /\ Feeds(rounds, GrandFinalKey)[2].result = "loser"
    BY <2>3, <2>4, FeedParts
  <2> QED
    BY <2>1, <2>5 DEF FedBy
<1>3. CASE rounds # 1 /\ r = 1
  <2> DEFINE n == LowerRoundSize(rounds, 1)
             c == <<"LOWER", 1, Pair(i)>>
             s == Half(i)
  <2>1. 1 \in 1..2*(rounds - 1)
    BY <1>3
  <2>2. n \in Nat \ {0} /\ 2^(rounds - 1) = 2 * n
    BY <2>1, LowerSizes
  <2>3. Pair(i) \in 1..n /\ s \in 1..2 /\ (s = 1 => 2*Pair(i) - 1 = i) /\ (s = 2 => 2*Pair(i) = i)
    BY <1>1, <1>3, <2>2, Paired
  <2>4. c \in LowerRound(rounds, 1) /\ c[1] = "LOWER" /\ c[2] = 1 /\ c[3] = Pair(i)
    BY <2>3 DEF LowerRound
  <2> HIDE DEF c, n
  <2>5. c \in Keys(rounds, format) /\ ~Opening(c) /\ c[1] # "MAIN"
    BY <2>1, <2>4, KeysByKind DEF Opening
  <2>6. Feeds(rounds, c) = <<LoserOf("MAIN", 1, 2*Pair(i) - 1), LoserOf("MAIN", 1, 2*Pair(i))>>
    BY <2>4 DEF Feeds, LowerFeeds
  <2>7. Feeds(rounds, c)[s].key = key /\ Feeds(rounds, c)[s].result = "loser"
    <3>1. CASE s = 1
      BY <1>1, <1>3, <2>3, <2>6, <3>1, FeedParts
    <3>2. CASE s = 2
      BY <1>1, <1>3, <2>3, <2>6, <3>2, FeedParts
    <3> QED
      BY <2>3, <3>1, <3>2
  <2> QED
    BY <2>3, <2>5, <2>7 DEF FedBy
<1>4. CASE rounds # 1 /\ r # 1
  <2> DEFINE q == 2*r - 2
             n == LowerRoundSize(rounds, q)
             j == Crossed(i, n)
             c == <<"LOWER", q, j>>
  <2>1. q \in 1..2*(rounds - 1) /\ q % 2 # 1 /\ q \div 2 + 1 = r /\ q # 1
    BY <1>4
  <2> HIDE DEF q
  <2>2. n \in Nat \ {0} /\ (n = 1 \/ n % 2 = 0) /\ 2^(rounds - r) = n
    BY <2>1, LowerSizes
  <2> HIDE DEF n
  <2>3. j \in 1..n /\ Crossed(j, n) = i
    BY <1>1, <2>2, CrossedSlots
  <2> HIDE DEF j
  <2>4. c \in LowerRound(rounds, q) /\ c[1] = "LOWER" /\ c[2] = q /\ c[3] = j
    BY <2>3 DEF LowerRound, n
  <2> HIDE DEF c
  <2>5. c \in Keys(rounds, format) /\ ~Opening(c) /\ c[1] # "MAIN"
    BY <2>1, <2>4, KeysByKind DEF Opening
  <2>6. Feeds(rounds, c) = LowerFeeds(rounds, q, j)
    BY <2>4 DEF Feeds
  <2>7. Feeds(rounds, c)[2] = LoserOf("MAIN", r, i)
    BY <2>1, <2>3, <2>6 DEF LowerFeeds, n
  <2>8. Feeds(rounds, c)[2].key = key /\ Feeds(rounds, c)[2].result = "loser"
    BY <1>1, <2>7, FeedParts
  <2> QED
    BY <2>5, <2>8 DEF FedBy
<1> QED
  BY <1>2, <1>3, <1>4

\* A bracket that is large enough has a slot for every seed.
LEMMA SlotOfSeed ==
    ASSUME NEW rounds \in 1..MaxRounds, NEW seeds, Len(seeds) \in Nat, Len(seeds) <= 2^rounds,
           NEW i \in 1..Len(seeds)
    PROVE  \E j \in 1..2^rounds : SeedOrder[rounds][j] = i /\ Slots(rounds, seeds)[j] = seeds[i]
<1> DEFINE order == SeedOrder[rounds]
           N == 2^rounds
           T == 1..N
<1>1. N \in Nat
  <2>1. rounds \in 0..MaxRounds
    BY DEF MaxRounds
  <2> QED
    BY <2>1, Powers
<1>2. IsFiniteSet(T)
  <2>1. 1 \in Int /\ N \in Int
    BY <1>1
  <2> QED
    BY <2>1, FS_Interval
<1>3. order \in Injection(T, T)
  BY SeedOrderPlacesAll DEF Injection, IsInjective
<1> HIDE DEF order
<1>4. order \in Surjection(T, T)
  <2> HIDE DEF T
  <2> QED
    BY <1>2, <1>3, FS_Injection
<1>5. i \in T
  BY <1>1
<1>6. PICK j \in T : order[j] = i
  BY <1>4, <1>5 DEF Surjection
<1>7. Slots(rounds, seeds)[j] = SlotSeed(order, seeds, j)
  BY SlotsAre DEF order
<1>8. SlotSeed(order, seeds, j) = seeds[i]
  BY <1>6 DEF SlotSeed
<1> QED
  BY <1>6, <1>7, <1>8 DEF order

\* Every seed is at a side of a node of the first round.
LEMMA SeedsStart ==
    ASSUME NEW rounds \in 1..MaxRounds, NEW format \in Formats, NEW seeds, NEW ms, NEW n,
           IsBracket(rounds, format, Slots(rounds, seeds), ms, n),
           NEW j \in 1..2^rounds
    PROVE  LET key == <<"MAIN", 1, Pair(j)>>
           IN  /\ key \in MainRound(rounds, 1) /\ key \in Keys(rounds, format) /\ Opening(key)
               /\ Half(j) \in Sides /\ Side(n[key], Half(j)) = Slots(rounds, seeds)[j]
<1> DEFINE key == <<"MAIN", 1, Pair(j)>>
           half == 2^(rounds - 1)
<1>1. half \in Nat \ {0} /\ 2^rounds = 2 * half
  <2>1. rounds \in 0..MaxRounds /\ rounds > 0
    BY DEF MaxRounds
  <2> QED
    BY <2>1, Powers
<1>2. Pair(j) \in 1..half /\ Half(j) \in 1..2 /\ (Half(j) = 1 => 2*Pair(j) - 1 = j) /\ (Half(j) = 2 => 2*Pair(j) = j)
  BY <1>1, Paired
<1>3. key \in MainRound(rounds, 1) /\ key[1] = "MAIN" /\ key[2] = 1 /\ key[3] = Pair(j)
  BY <1>2 DEF MainRound
<1> HIDE DEF key, half
<1>4. 1 \in 1..rounds
  OBVIOUS
<1>5. key \in Keys(rounds, format) /\ Opening(key)
  BY <1>3, <1>4, KeysByKind DEF Opening
<1>6. Half(j) \in Sides /\ Slot(key, Half(j)) = j
  BY <1>2, <1>3 DEF Sides, Slot
<1>7. \A s \in Sides : Side(n[key], s) = Slots(rounds, seeds)[Slot(key, s)]
  BY <1>5, NodeSides
<1> QED
  BY <1>3, <1>5, <1>6, <1>7 DEF key

Teams(seeds) == {seeds[i] : i \in 1..Len(seeds)}

\* The bracket of these seeds, which more than half fill it, where every node has its result.
Played(rounds, format, seeds, ms, n) ==
    /\ seeds \in Seq(Teams(seeds)) /\ NoEntry \notin Teams(seeds) /\ Distinct(seeds)
    /\ Len(seeds) \in Nat /\ 2^(rounds - 1) < Len(seeds) /\ Len(seeds) <= 2^rounds
    /\ IsBracket(rounds, format, Slots(rounds, seeds), ms, n)
    /\ DOMAIN ms \subseteq Keys(rounds, format) /\ SidesKnown(rounds, format, ms, n)
    /\ \A key \in Keys(rounds, format) : n[key].resolved

LEMMA PlayedThreads ==
    ASSUME NEW rounds \in 1..MaxRounds, NEW format \in Formats, NEW seeds, NEW ms, NEW n,
           Played(rounds, format, seeds, ms, n), NEW e, e # NoEntry
    PROVE  \A key \in Keys(rounds, format) : Threaded(rounds, format, n, e, key)
<1>1. DistinctSlots(rounds, Slots(rounds, seeds))
  BY SlotsAreDistinct DEF Played, DistinctSlots
<1>2. IsBracket(rounds, format, Slots(rounds, seeds), ms, n)
  BY DEF Played
<1> QED
  BY <1>1, <1>2, OneThread

\* Every node was played by two different teams, or passed by a bye.
LEMMA PlayedNode ==
    ASSUME NEW rounds \in 1..MaxRounds, NEW format \in Formats, NEW seeds, NEW ms, NEW n,
           Played(rounds, format, seeds, ms, n), NEW key \in Keys(rounds, format)
    PROVE  /\ key \in DOMAIN ms <=> n[key].entryA # NoEntry /\ n[key].entryB # NoEntry
           /\ key \in DOMAIN ms => /\ Valid(ms, key, n[key])
                                   /\ n[key].winner # NoEntry /\ n[key].loser # NoEntry
           /\ n[key].loser # NoEntry => key \in DOMAIN ms /\ n[key].winner # n[key].loser
           /\ \A s \in Sides : Side(n[key], s) # NoEntry =>
                Side(n[key], s) = n[key].winner \/ Side(n[key], s) = n[key].loser
           /\ n[key].winner # NoEntry => \E s \in Sides : Side(n[key], s) = n[key].winner
           /\ n[key].loser # NoEntry => \E s \in Sides : Side(n[key], s) = n[key].loser
           /\ n[key].winner \in Teams(seeds) \cup {NoEntry} /\ n[key].loser \in Teams(seeds) \cup {NoEntry}
<1> DEFINE node == n[key]
<1>1. NodeSays(ms, key, node) /\ node.resolved
  BY NodeSides DEF Played
<1>2. key \in DOMAIN ms => node.entryA # NoEntry /\ node.entryB # NoEntry
  BY DEF Played, SidesKnown
<1>3. Valid(ms, key, node) \/ Bye(ms, key, node)
  BY <1>1 DEF NodeSays
<1>4. \A s \in Sides : Side(node, s) = node.entryA \/ Side(node, s) = node.entryB
  BY DEF Side
<1>5. /\ node.winner # NoEntry => \E s \in Sides : Side(node, s) = node.winner
      /\ node.loser # NoEntry => Valid(ms, key, node) /\ \E s \in Sides : Side(node, s) = node.loser
      /\ node.winner = node.loser /\ node.winner # NoEntry => Side(node, 1) = Side(node, 2)
  BY <1>1, ResultsAreSides
<1>6. node.winner \in Teams(seeds) \cup {NoEntry} /\ node.loser \in Teams(seeds) \cup {NoEntry}
  <2>1. IsBracket(rounds, format, Slots(rounds, seeds), ms, n)
    BY DEF Played
  <2>2. \A i \in 1..2^rounds : Slots(rounds, seeds)[i] \in Teams(seeds) \cup {NoEntry}
    BY SlotsAreDistinct DEF Played
  <2> QED
    BY <2>1, <2>2, NodesTyped
<1>7. Side(node, 1) # NoEntry => Side(node, 1) # Side(node, 2)
  <2> SUFFICES ASSUME Side(node, 1) # NoEntry, Side(node, 1) = Side(node, 2)
               PROVE  FALSE
    OBVIOUS
  <2> DEFINE e == Side(node, 1)
  <2>1. Threaded(rounds, format, n, e, key)
    BY PlayedThreads
  <2>2. Place(rounds, key) \in Int
    BY KeysByPlace
  <2>3. 1 \in Sides /\ 2 \in Sides /\ <<key, 1>> # <<key, 2>>
    BY DEF Sides
  <2>4. Place(rounds, key) <= Place(rounds, key)
    BY <2>2
  <2>5. Precedes(rounds, format, n, e, key, key)
    BY <2>1, <2>3, <2>4 DEF Threaded
  <2> QED
    BY <2>2, <2>5 DEF Precedes
<1> HIDE DEF node
<1>8. CASE Valid(ms, key, node)
  <2>1. /\ key \in DOMAIN ms /\ node.entryA # NoEntry /\ node.entryB # NoEntry
        /\ node.winner # NoEntry
        /\ node.winner = node.entryA \/ node.winner = node.entryB
        /\ node.loser = IF node.winner = node.entryA THEN node.entryB ELSE node.entryA
    BY <1>1, <1>2, <1>8 DEF NodeSays, Valid
  <2>2. node.loser # NoEntry /\ \A s \in Sides : Side(node, s) = node.winner \/ Side(node, s) = node.loser
    BY <1>4, <2>1
  <2>3. node.winner # node.loser
    BY <1>5, <1>7, <2>1 DEF Side
  <2> QED
    BY <1>5, <1>6, <1>8, <2>1, <2>2, <2>3 DEF node
<1>9. CASE Bye(ms, key, node) /\ ~Valid(ms, key, node)
  <2>1. /\ key \notin DOMAIN ms /\ (node.entryA = NoEntry \/ node.entryB = NoEntry)
        /\ node.loser = NoEntry
        /\ node.winner = IF node.entryA # NoEntry THEN node.entryA ELSE node.entryB
    BY <1>1, <1>9 DEF NodeSays, Bye
  <2>2. \A s \in Sides : Side(node, s) # NoEntry => Side(node, s) = node.winner
    BY <1>4, <2>1
  <2> QED
    BY <1>5, <1>6, <2>1, <2>2 DEF node
<1> QED
  BY <1>3, <1>8, <1>9

\* Whoever has this result of a node is at the side it feeds.
LEMMA GoesOn ==
    ASSUME NEW rounds \in 1..MaxRounds, NEW format \in Formats, NEW slots, NEW ms, NEW n,
           IsBracket(rounds, format, slots, ms, n),
           NEW key, NEW result, NEW c \in Keys(rounds, format), NEW s \in 1..2, FedBy(rounds, key, result, c, s)
    PROVE  s \in Sides /\ Side(n[c], s) = n[key][result] /\ Place(rounds, key) < Place(rounds, c)
<1>1. s \in Sides /\ ~Opening(c) /\ Feeds(rounds, c)[s].key = key /\ Feeds(rounds, c)[s].result = result
  BY DEF FedBy, Sides
<1>2. Side(n[c], s) = n[Feeds(rounds, c)[s].key][Feeds(rounds, c)[s].result]
  BY <1>1, NodeSides
<1>3. Place(rounds, Feeds(rounds, c)[s].key) < Place(rounds, c)
  BY <1>1, FeedsFit DEF FeedFits
<1> QED
  BY <1>1, <1>2, <1>3

\* A node's loser is seen again only after the main bracket, and only if the
\* node was of the main bracket.
LEMMA LosersLeave ==
    ASSUME NEW rounds \in 1..MaxRounds, NEW format \in Formats, NEW slots, NEW ms, NEW n,
           IsBracket(rounds, format, slots, ms, n), DistinctSlots(rounds, slots), NEW e, e # NoEntry,
           NEW p \in Keys(rounds, format), n[p].loser = e,
           NEW key \in Keys(rounds, format), NEW s \in Sides, Side(n[key], s) = e,
           p # key, Place(rounds, p) <= Place(rounds, key)
    PROVE  p[1] = "MAIN" /\ Place(rounds, key) > rounds
<1>0. Threaded(rounds, format, n, e, key) /\ Threaded(rounds, format, n, e, p)
  BY OneThread
<1>1. NodeSays(ms, p, n[p])
  BY NodeSides
<1>2. PICK t \in Sides : Side(n[p], t) = e
  BY <1>1, ResultsAreSides
<1>3. n[p].winner # e
  <2> SUFFICES ASSUME n[p].winner = e
               PROVE  FALSE
    OBVIOUS
  <2>1. Side(n[p], 1) = Side(n[p], 2)
    BY <1>1, ResultsAreSides
  <2>2. 1 \in Sides /\ 2 \in Sides /\ \A u \in Sides : u = 1 \/ u = 2
    BY DEF Sides
  <2>3. Side(n[p], 1) = e /\ Side(n[p], 2) = e
    BY <1>2, <2>1, <2>2
  <2>4. Place(rounds, p) \in Int
    BY KeysByPlace
  <2>5. <<p, 1>> # <<p, 2>> /\ Place(rounds, p) <= Place(rounds, p)
    BY <2>4
  <2>6. Precedes(rounds, format, n, e, p, p)
    BY <1>0, <2>2, <2>3, <2>5 DEF Threaded
  <2> QED
    BY <2>4, <2>6 DEF Precedes
<1>4. Precedes(rounds, format, n, e, p, key)
  <2>1. <<p, t>> # <<key, s>>
    OBVIOUS
  <2> QED
    BY <1>0, <1>2, <2>1 DEF Threaded
<1>5. PICK c \in Keys(rounds, format), u \in Sides :
        Takes(rounds, n, e, p, c, u) /\ Place(rounds, c) <= Place(rounds, key)
  BY <1>4 DEF Precedes
<1> DEFINE f == Feeds(rounds, c)[u]
<1>6. FeedFits(rounds, format, c, u, f) /\ f.key = p /\ n[p][f.result] = e
  BY <1>5, FeedsFit DEF Takes, Sides
<1>7. Place(rounds, c) \in Int /\ Place(rounds, key) \in Int /\ Place(rounds, BronzeKey(rounds)) = rounds + 1
  BY KeysByPlace DEF Place, BronzeKey
<1> HIDE DEF f
<1>8. f.result = "loser"
  BY <1>3, <1>6 DEF FeedFits
<1>9. p[1] = "MAIN" /\ Place(rounds, c) > rounds
  BY <1>6, <1>7, <1>8 DEF FeedFits
<1> QED
  BY <1>5, <1>7, <1>9

LEMMA LostOnce ==
    ASSUME NEW rounds \in 1..MaxRounds, NEW format \in Formats, NEW seeds, NEW ms, NEW n,
           Played(rounds, format, seeds, ms, n), NEW e, e # NoEntry,
           NEW p \in Keys(rounds, format), n[p].loser = e,
           NEW key \in Keys(rounds, format), NEW s \in Sides, Side(n[key], s) = e,
           p # key, Place(rounds, p) <= Place(rounds, key)
    PROVE  p[1] = "MAIN" /\ Place(rounds, key) > rounds
<1>1. DistinctSlots(rounds, Slots(rounds, seeds)) /\ IsBracket(rounds, format, Slots(rounds, seeds), ms, n)
  BY SlotsAreDistinct DEF Played, DistinctSlots
<1> QED
  BY <1>1, LosersLeave

\* Whoever is somewhere and from everywhere but the last node gets further, gets there.
LEMMA Climbing ==
    ASSUME NEW rounds \in 1..MaxRounds, NEW format \in Formats, NEW Here, NEW last,
           Here \subseteq Keys(rounds, format), Here # {},
           \A k \in Here : k # last => \E c \in Here : Place(rounds, k) < Place(rounds, c)
    PROVE  last \in Here
<1> DEFINE n == Depth(rounds, format)
           Good == {l \in 0..n : last \in Here \/ \E k \in Here : Place(rounds, k) >= l}
<1>1. n \in Nat /\ \A k \in Here : Place(rounds, k) \in 1..n
  BY LayersAre, KeysByPlace
<1> HIDE DEF n
<1>2. ASSUME NEW l \in 0..n, \A m \in 0..n : m < l => m \in Good
      PROVE  l \in Good
  <2>1. CASE l = 0
    BY <1>1, <2>1
  <2>2. CASE l # 0
    <3>1. l - 1 \in 0..n /\ l - 1 < l
      BY <1>1, <2>2
    <3>2. last \in Here \/ \E k \in Here : Place(rounds, k) >= l - 1
      BY <1>2, <3>1
    <3>3. ASSUME NEW k \in Here, Place(rounds, k) >= l - 1, k # last
          PROVE  \E c \in Here : Place(rounds, c) >= l
      <4>1. PICK c \in Here : Place(rounds, k) < Place(rounds, c)
        BY <3>3
      <4>2. Place(rounds, c) >= l
        BY <1>1, <3>3, <4>1
      <4> QED
        BY <4>2
    <3> QED
      BY <3>2, <3>3
  <2> QED
    BY <2>1, <2>2
<1> HIDE DEF Good
<1>3. n \in Good
  BY <1>1, <1>2, Rising
<1>4. ASSUME last \notin Here
      PROVE  FALSE
  <2>1. PICK k \in Here : Place(rounds, k) >= n
    BY <1>3, <1>4 DEF Good
  <2>2. PICK c \in Here : Place(rounds, k) < Place(rounds, c)
    BY <1>4, <2>1
  <2> QED
    BY <1>1, <2>1, <2>2
<1> QED
  BY <1>4

\* As many series as teams that are not the champion, when each is lost by another one.
LEMMA OneEach ==
    ASSUME NEW T, IsFiniteSet(T), NEW champion \in T, NEW R, NEW g \in [R -> T \ {champion}],
           \A x, y \in R : g[x] = g[y] => x = y,
           \A e \in T \ {champion} : \E x \in R : g[x] = e
    PROVE  IsFiniteSet(R) /\ Cardinality(R) = Cardinality(T) - 1
<1> DEFINE U == T \ {champion}
<1>1. IsFiniteSet(U) /\ Cardinality(U) = Cardinality(T) - 1
  BY FS_RemoveElement
<1>2. g \in Injection(R, U) /\ g \in Surjection(R, U)
  BY DEF Injection, IsInjective, Surjection
<1> HIDE DEF U
<1>3. IsFiniteSet(R) /\ Cardinality(R) = Cardinality(U)
  BY <1>1, <1>2, FS_Injection
<1> QED
  BY <1>1, <1>3

LEMMA TeamsCount ==
    ASSUME NEW seeds, Len(seeds) \in Nat, Distinct(seeds)
    PROVE  IsFiniteSet(Teams(seeds)) /\ Cardinality(Teams(seeds)) = Len(seeds)
<1> DEFINE D == 1..Len(seeds)
           f == [i \in D |-> seeds[i]]
<1>1. IsFiniteSet(D) /\ Cardinality(D) = Len(seeds)
  <2>1. 1 \in Int /\ Len(seeds) \in Int
    OBVIOUS
  <2>2. IsFiniteSet(D) /\ Cardinality(D) = IF 1 > Len(seeds) THEN 0 ELSE Len(seeds) - 1 + 1
    BY <2>1, FS_Interval
  <2> QED
    BY <2>2
<1>2. f \in Surjection(D, Teams(seeds)) /\ f \in Injection(D, Teams(seeds))
  BY DEF Surjection, Injection, IsInjective, Teams, Distinct
<1> HIDE DEF D, f
<1>3. IsFiniteSet(Teams(seeds)) /\ Cardinality(Teams(seeds)) = Cardinality(D)
  BY <1>1, <1>2, FS_Surjection
<1> QED
  BY <1>1, <1>3

\* Whoever is in the bracket has started in its first round.
LEMMA TeamsStart ==
    ASSUME NEW rounds \in 1..MaxRounds, NEW format \in Formats, NEW seeds, NEW ms, NEW n,
           Played(rounds, format, seeds, ms, n), NEW e \in Teams(seeds)
    PROVE  \E key \in Keys(rounds, format), s \in Sides : key \in MainRound(rounds, 1) /\ Side(n[key], s) = e
<1>1. PICK i \in 1..Len(seeds) : e = seeds[i]
  BY DEF Teams
<1>2. PICK j \in 1..2^rounds : Slots(rounds, seeds)[j] = seeds[i]
  BY SlotOfSeed DEF Played
<1> DEFINE key == <<"MAIN", 1, Pair(j)>>
<1>3. /\ key \in MainRound(rounds, 1) /\ key \in Keys(rounds, format)
      /\ Half(j) \in Sides /\ Side(n[key], Half(j)) = Slots(rounds, seeds)[j]
  BY SeedsStart DEF Played
<1> QED
  BY <1>1, <1>2, <1>3

MainFinal(rounds) == <<"MAIN", rounds, 1>>

\* The keys of the main bracket.
LEMMA MainKeys ==
    ASSUME NEW rounds \in 1..MaxRounds, NEW format \in Formats
    PROVE  /\ MainFinal(rounds) \in Keys(rounds, format) /\ MainFinal(rounds) \in MainRound(rounds, rounds)
           /\ MainFinal(rounds)[1] = "MAIN" /\ Place(rounds, MainFinal(rounds)) = rounds
           /\ \A key \in MainRound(rounds, rounds) : key = MainFinal(rounds)
           /\ \A key \in Keys(rounds, format) : key[1] = "MAIN" =>
                /\ Place(rounds, key) = key[2] /\ key[2] \in 1..rounds
                /\ key \in MainRound(rounds, key[2])
<1>1. rounds \in 1..rounds
  BY DEF MaxRounds
<1>2. 2^(rounds - rounds) = 1
  BY <1>1, MainSizes
<1>3. MainFinal(rounds) \in MainRound(rounds, rounds) /\ \A key \in MainRound(rounds, rounds) : key = MainFinal(rounds)
  BY <1>2 DEF MainRound, MainFinal
<1>4. MainFinal(rounds)[1] = "MAIN" /\ Place(rounds, MainFinal(rounds)) = rounds
  BY DEF MainFinal, Place
<1>5. MainFinal(rounds) \in Keys(rounds, format)
  BY <1>1, <1>3, KeysByKind
<1>6. ASSUME NEW key \in Keys(rounds, format), key[1] = "MAIN"
      PROVE  Place(rounds, key) = key[2] /\ key[2] \in 1..rounds /\ key \in MainRound(rounds, key[2])
  <2>0. \/ \E r \in 1..rounds : key \in MainRound(rounds, r)
        \/ \E q \in 1..2*(rounds - 1) : key \in LowerRound(rounds, q)
        \/ key = GrandFinalKey
        \/ key = BronzeKey(rounds)
    BY KeysByKind
  <2>1. PICK r \in 1..rounds : key \in MainRound(rounds, r)
    BY <1>6, <2>0 DEF LowerRound, GrandFinalKey, BronzeKey
  <2>2. key[2] = r
    BY <2>1 DEF MainRound
  <2> QED
    BY <1>6, <2>1, <2>2 DEF Place
<1> QED
  BY <1>3, <1>4, <1>5, <1>6

\* The main bracket is won by a team: somebody else has lost each of its series.
LEMMA MainSeries ==
    ASSUME NEW rounds \in 1..MaxRounds, NEW format \in Formats, NEW seeds, NEW ms, NEW n,
           Played(rounds, format, seeds, ms, n)
    PROVE  LET R == {k \in DOMAIN ms : k[1] = "MAIN"}
           IN  IsFiniteSet(R) /\ Cardinality(R) = Len(seeds) - 1
<1> DEFINE R == {k \in DOMAIN ms : k[1] = "MAIN"}
           final == MainFinal(rounds)
           champion == n[final].winner
           T == Teams(seeds)
           g == [k \in R |-> n[k].loser]
           keys == Keys(rounds, format)
<1>0. /\ final \in keys /\ final[1] = "MAIN" /\ Place(rounds, final) = rounds
      /\ \A key \in MainRound(rounds, rounds) : key = final
      /\ \A key \in keys : key[1] = "MAIN" =>
           Place(rounds, key) = key[2] /\ key[2] \in 1..rounds /\ key \in MainRound(rounds, key[2])
  BY MainKeys
<1>1. champion # NoEntry /\ champion \in T
  <2>1. champion # NoEntry
    BY <1>0, WinnersAreKnown DEF Played
  <2> QED
    BY <1>0, <2>1, PlayedNode
<1>2. DOMAIN ms \subseteq keys
  BY DEF Played
<1>3. ASSUME NEW p \in R, NEW key \in keys, key[1] = "MAIN", NEW s \in Sides, Side(n[key], s) = n[p].loser,
             Place(rounds, p) <= Place(rounds, key)
      PROVE  p = key
  <2>1. n[p].loser # NoEntry
    BY <1>2, PlayedNode
  <2>2. Place(rounds, key) <= rounds
    BY <1>0, <1>3
  <2>3. Place(rounds, key) \in Int /\ rounds \in Int
    BY <1>0, <1>3
  <2> QED
    BY <1>2, <1>3, <2>1, <2>2, <2>3, LostOnce
<1>4. ASSUME NEW k \in R
      PROVE  n[k].loser \in T \ {champion}
  <2>1. n[k].loser # NoEntry /\ n[k].winner # n[k].loser /\ n[k].loser \in T
    BY <1>2, PlayedNode
  <2>2. PICK s \in Sides : Side(n[final], s) = champion
    BY <1>0, <1>1, PlayedNode
  <2>3. Place(rounds, k) <= Place(rounds, final)
    BY <1>0, <1>2
  <2> HIDE DEF R, final, champion, keys
  <2>4. n[k].loser = champion => k = final
    BY <1>0, <1>3, <2>2, <2>3
  <2> QED
    BY <2>1, <2>4 DEF champion
<1>5. \A x, y \in R : g[x] = g[y] => x = y
  <2> SUFFICES ASSUME NEW x \in R, NEW y \in R, n[x].loser = n[y].loser
               PROVE  x = y
    OBVIOUS
  <2>1. Place(rounds, x) \in Int /\ Place(rounds, y) \in Int /\ x \in keys /\ y \in keys /\ x[1] = "MAIN" /\ y[1] = "MAIN"
    BY <1>0, <1>2
  <2>2. (\E s \in Sides : Side(n[x], s) = n[x].loser) /\ (\E s \in Sides : Side(n[y], s) = n[y].loser)
    BY <1>2, PlayedNode
  <2>3. Place(rounds, x) <= Place(rounds, y) \/ Place(rounds, y) <= Place(rounds, x)
    BY <2>1
  <2> HIDE DEF R, keys
  <2> QED
    BY <1>3, <2>1, <2>2, <2>3
<1>6. ASSUME NEW e \in T \ {champion}
      PROVE  \E x \in R : n[x].loser = e
  <2> SUFFICES ASSUME \A x \in R : n[x].loser # e
               PROVE  FALSE
    OBVIOUS
  <2> DEFINE Here == {k \in keys : k[1] = "MAIN" /\ \E s \in Sides : Side(n[k], s) = e}
  <2>1. e # NoEntry
    BY DEF Played
  <2>2. ASSUME NEW k \in Here
        PROVE  n[k].winner = e
    <3>1. n[k].winner = e \/ n[k].loser = e
      BY <2>1, PlayedNode
    <3>2. n[k].loser # e
      BY <2>1, PlayedNode
    <3> QED
      BY <3>1, <3>2
  <2>3. ASSUME NEW k \in Here, k # final
        PROVE  \E c \in Here : Place(rounds, k) < Place(rounds, c)
    <3> DEFINE r == k[2]
    <3>1. r \in 1..rounds /\ k \in MainRound(rounds, r) /\ r # rounds
      BY <1>0, <2>3
    <3> HIDE DEF r
    <3>2. PICK c \in keys, s \in 1..2 : c \in MainRound(rounds, r + 1) /\ FedBy(rounds, k, "winner", c, s)
      BY <3>1, MainFedOn
    <3>3. s \in Sides /\ Side(n[c], s) = n[k]["winner"] /\ Place(rounds, k) < Place(rounds, c)
      BY <3>2, GoesOn DEF Played
    <3>4. c[1] = "MAIN"
      BY <3>2 DEF MainRound
    <3> QED
      BY <2>2, <2>3, <3>2, <3>3, <3>4
  <2>4. Here # {}
    <3>1. PICK key \in keys, s \in Sides : key \in MainRound(rounds, 1) /\ Side(n[key], s) = e
      BY TeamsStart
    <3>2. key[1] = "MAIN"
      BY <3>1 DEF MainRound
    <3> QED
      BY <3>1, <3>2
  <2>5. Here \subseteq keys
    OBVIOUS
  <2> HIDE DEF Here
  <2>6. final \in Here
    BY <2>3, <2>4, <2>5, Climbing
  <2> QED
    BY <2>2, <2>6
<1>7. IsFiniteSet(T) /\ Cardinality(T) = Len(seeds)
  BY TeamsCount DEF Played
<1>8. g \in [R -> T \ {champion}] /\ \A e \in T \ {champion} : \E x \in R : g[x] = e
  BY <1>4, <1>6
<1> HIDE DEF g, R, T, champion
<1>9. IsFiniteSet(R) /\ Cardinality(R) = Cardinality(T) - 1
  BY <1>1, <1>5, <1>7, <1>8, OneEach
<1> QED
  BY <1>7, <1>9 DEF R

\* Double elimination: every winner but the last goes on.
LEMMA WinnersFedOn ==
    ASSUME NEW rounds \in 1..MaxRounds, NEW format \in Formats, format = "DOUBLE_ELIMINATION",
           NEW key \in Keys(rounds, format), key # GrandFinalKey
    PROVE  \E c \in Keys(rounds, format), s \in 1..2 : FedBy(rounds, key, "winner", c, s)
<1>1. \/ \E r \in 1..rounds : key \in MainRound(rounds, r)
      \/ \E q \in 1..2*(rounds - 1) : key \in LowerRound(rounds, q)
  BY KeysByKind
<1>2. ASSUME NEW r \in 1..rounds, key \in MainRound(rounds, r), r # rounds
      PROVE  \E c \in Keys(rounds, format), s \in 1..2 : FedBy(rounds, key, "winner", c, s)
  <2>1. \E c \in Keys(rounds, format), s \in 1..2 : c \in MainRound(rounds, r + 1) /\ FedBy(rounds, key, "winner", c, s)
    BY <1>2, MainFedOn
  <2> QED
    BY <2>1
<1>3. ASSUME key \in MainRound(rounds, rounds)
      PROVE  \E c \in Keys(rounds, format), s \in 1..2 : FedBy(rounds, key, "winner", c, s)
  <2>1. key = <<"MAIN", rounds, 1>>
    BY <1>3, MainKeys DEF MainFinal
  <2> QED
    BY <2>1, FinalFedOn
<1>4. ASSUME NEW q \in 1..2*(rounds - 1), key \in LowerRound(rounds, q), q # 2*(rounds - 1)
      PROVE  \E c \in Keys(rounds, format), s \in 1..2 : FedBy(rounds, key, "winner", c, s)
  BY <1>4, LowerFedOn
<1>5. ASSUME NEW q \in 1..2*(rounds - 1), key \in LowerRound(rounds, q), q = 2*(rounds - 1)
      PROVE  \E c \in Keys(rounds, format), s \in 1..2 : FedBy(rounds, key, "winner", c, s)
  <2>1. rounds # 1 /\ LowerRoundSize(rounds, q) = 1
    BY <1>5, LowerSizes
  <2>2. key = <<"LOWER", 2*(rounds - 1), 1>>
    BY <1>5, <2>1 DEF LowerRound
  <2> QED
    BY <2>1, <2>2, FinalFedOn
<1> QED
  BY <1>1, <1>2, <1>3, <1>4, <1>5

\* Double elimination: everybody but the champion loses a series after the main bracket.
LEMMA AllButOneLose ==
    ASSUME NEW rounds \in 1..MaxRounds, NEW format \in Formats, format = "DOUBLE_ELIMINATION",
           NEW seeds, NEW ms, NEW n, Played(rounds, format, seeds, ms, n),
           NEW e \in Teams(seeds), e # n[GrandFinalKey].winner
    PROVE  \E x \in {k \in DOMAIN ms : k[1] # "MAIN"} : n[x].loser = e
<1> SUFFICES ASSUME \A x \in {k \in DOMAIN ms : k[1] # "MAIN"} : n[x].loser # e
             PROVE  FALSE
  OBVIOUS
<1> DEFINE keys == Keys(rounds, format)
           final == GrandFinalKey
<1>0. final \in keys /\ final[1] = "GRAND_FINAL"
  BY KeysByKind DEF GrandFinalKey
<1> DEFINE Here == {k \in keys : \E s \in Sides : Side(n[k], s) = e}
<1>1. e # NoEntry
  BY DEF Played
<1>2. ASSUME NEW k \in Here
      PROVE  n[k].winner = e \/ (n[k].loser = e /\ k[1] = "MAIN")
  <2>1. n[k].winner = e \/ n[k].loser = e
    BY <1>1, PlayedNode
  <2>2. n[k].loser = e => k \in DOMAIN ms
    BY <1>1, PlayedNode
  <2> QED
    BY <2>1, <2>2
<1>3. ASSUME NEW k \in Here, k # final
      PROVE  \E c \in Here : Place(rounds, k) < Place(rounds, c)
  <2>1. CASE n[k].winner = e
    <3>1. PICK c \in keys, s \in 1..2 : FedBy(rounds, k, "winner", c, s)
      BY <1>3, WinnersFedOn
    <3>2. s \in Sides /\ Side(n[c], s) = n[k]["winner"] /\ Place(rounds, k) < Place(rounds, c)
      BY <3>1, GoesOn DEF Played
    <3> QED
      BY <2>1, <3>2
  <2>2. CASE n[k].loser = e /\ k[1] = "MAIN"
    <3>1. k[2] \in 1..rounds /\ k \in MainRound(rounds, k[2])
      BY <2>2, MainKeys
    <3>2. PICK c \in keys, s \in 1..2 : c[1] # "MAIN" /\ FedBy(rounds, k, "loser", c, s)
      BY <3>1, LosersFedOn
    <3>3. s \in Sides /\ Side(n[c], s) = n[k]["loser"] /\ Place(rounds, k) < Place(rounds, c)
      BY <3>2, GoesOn DEF Played
    <3> QED
      BY <2>2, <3>3
  <2> QED
    BY <1>2, <2>1, <2>2
<1>4. Here # {}
  <2>1. PICK key \in keys, s \in Sides : key \in MainRound(rounds, 1) /\ Side(n[key], s) = e
    BY TeamsStart
  <2> QED
    BY <2>1
<1>5. Here \subseteq keys
  OBVIOUS
<1>6. \A k \in Here : k[1] = "GRAND_FINAL" => k[1] # "MAIN"
  OBVIOUS
<1> HIDE DEF Here
<1>7. final \in Here
  BY <1>3, <1>4, <1>5, Climbing
<1> QED
  BY <1>0, <1>2, <1>6, <1>7

\* Double elimination: there are as many series after the main bracket as teams
\* that are not the champion.
LEMMA OtherSeries ==
    ASSUME NEW rounds \in 1..MaxRounds, NEW format \in Formats, format = "DOUBLE_ELIMINATION",
           NEW seeds, NEW ms, NEW n, Played(rounds, format, seeds, ms, n)
    PROVE  LET R == {k \in DOMAIN ms : k[1] # "MAIN"}
           IN  IsFiniteSet(R) /\ Cardinality(R) = Len(seeds) - 1
<1> DEFINE R == {k \in DOMAIN ms : k[1] # "MAIN"}
           final == GrandFinalKey
           champion == n[final].winner
           T == Teams(seeds)
           g == [k \in R |-> n[k].loser]
           keys == Keys(rounds, format)
<1>0. /\ final \in keys /\ final[1] = "GRAND_FINAL"
      /\ \A k \in keys : Place(rounds, k) \in Int /\ Place(rounds, k) <= Place(rounds, final)
  <2>1. final \in keys /\ final[1] = "GRAND_FINAL"
    BY KeysByKind DEF GrandFinalKey
  <2>2. Place(rounds, final) = Depth(rounds, format)
    BY <2>1 DEF Place, Depth
  <2>3. \A k \in keys : Place(rounds, k) \in 1..Depth(rounds, format)
    BY KeysByPlace
  <2>4. Depth(rounds, format) \in Nat
    BY LayersAre
  <2> QED
    BY <2>1, <2>2, <2>3, <2>4
<1>1. champion # NoEntry /\ champion \in T
  <2>1. champion # NoEntry
    BY <1>0, WinnersAreKnown DEF Played
  <2> QED
    BY <1>0, <2>1, PlayedNode
<1>2. DOMAIN ms \subseteq keys
  BY DEF Played
<1>3. ASSUME NEW p \in R, NEW key \in keys, NEW s \in Sides, Side(n[key], s) = n[p].loser,
             Place(rounds, p) <= Place(rounds, key)
      PROVE  p = key
  <2>1. n[p].loser # NoEntry
    BY <1>2, PlayedNode
  <2> QED
    BY <1>2, <1>3, <2>1, LostOnce
<1>4. ASSUME NEW k \in R
      PROVE  n[k].loser \in T \ {champion}
  <2>1. n[k].loser # NoEntry /\ n[k].winner # n[k].loser /\ n[k].loser \in T
    BY <1>2, PlayedNode
  <2>2. PICK s \in Sides : Side(n[final], s) = champion
    BY <1>0, <1>1, PlayedNode
  <2>3. Place(rounds, k) <= Place(rounds, final)
    BY <1>0, <1>2
  <2> HIDE DEF R, final, champion, keys
  <2>4. n[k].loser = champion => k = final
    BY <1>0, <1>3, <2>2, <2>3
  <2> QED
    BY <2>1, <2>4 DEF champion
<1>5. \A x, y \in R : g[x] = g[y] => x = y
  <2> SUFFICES ASSUME NEW x \in R, NEW y \in R, n[x].loser = n[y].loser
               PROVE  x = y
    OBVIOUS
  <2>1. Place(rounds, x) \in Int /\ Place(rounds, y) \in Int /\ x \in keys /\ y \in keys
    BY <1>0, <1>2
  <2>2. (\E s \in Sides : Side(n[x], s) = n[x].loser) /\ (\E s \in Sides : Side(n[y], s) = n[y].loser)
    BY <1>2, PlayedNode
  <2>3. Place(rounds, x) <= Place(rounds, y) \/ Place(rounds, y) <= Place(rounds, x)
    BY <2>1
  <2> HIDE DEF R, keys
  <2> QED
    BY <1>3, <2>1, <2>2, <2>3
<1>6. ASSUME NEW e \in T \ {champion}
      PROVE  \E x \in R : n[x].loser = e
  BY AllButOneLose
<1>7. IsFiniteSet(T) /\ Cardinality(T) = Len(seeds)
  BY TeamsCount DEF Played
<1>8. g \in [R -> T \ {champion}] /\ \A e \in T \ {champion} : \E x \in R : g[x] = e
  BY <1>4, <1>6
<1> HIDE DEF g, R, T, champion
<1>9. IsFiniteSet(R) /\ Cardinality(R) = Cardinality(T) - 1
  BY <1>1, <1>5, <1>7, <1>8, OneEach
<1> QED
  BY <1>7, <1>9 DEF R

\* How many teams a bracket of few rounds has.
LEMMA FewTeams ==
    ASSUME NEW rounds \in 1..MaxRounds, NEW m \in Nat, 2^(rounds - 1) < m, m <= 2^rounds
    PROVE  /\ rounds = 1 => m = 2
           /\ rounds = 2 => m = 3 \/ m = 4
           /\ rounds > 2 => m > 4
<1>1. 2^0 = 1 /\ 2^1 = 2 /\ 2^2 = 4 /\ 2^3 = 8 /\ 2^4 = 16 /\ 2^5 = 32 /\ 2^6 = 64 /\ 2^7 = 128
  OBVIOUS
<1>2. rounds \in {1, 2, 3, 4, 5, 6, 7, 8}
  BY DEF MaxRounds
<1>3. CASE rounds = 1
  BY <1>1, <1>3
<1>4. CASE rounds = 2
  BY <1>1, <1>4
<1>5. CASE rounds = 3
  BY <1>1, <1>5
<1>6. CASE rounds = 4
  BY <1>1, <1>6
<1>7. CASE rounds = 5
  BY <1>1, <1>7
<1>8. CASE rounds = 6
  BY <1>1, <1>8
<1>9. CASE rounds = 7
  BY <1>1, <1>9
<1>10. CASE rounds = 8
  BY <1>1, <1>10
<1> QED
  BY <1>2, <1>3, <1>4, <1>5, <1>6, <1>7, <1>8, <1>9, <1>10

\* A team that is at a node wins it or loses it to another.
LEMMA KnownSide ==
    ASSUME NEW rounds \in 1..MaxRounds, NEW format \in Formats, NEW seeds, NEW ms, NEW n,
           Played(rounds, format, seeds, ms, n), NEW key \in Keys(rounds, format),
           NEW s \in Sides, Side(n[key], s) # NoEntry
    PROVE  n[key].winner # NoEntry
<1>1. CASE Side(n[key], s) = n[key].winner
  BY <1>1
<1>2. CASE Side(n[key], s) = n[key].loser
  BY <1>2, PlayedNode
<1> QED
  BY <1>1, <1>2, PlayedNode

\* A node with two known sides is lost by one of them.
LEMMA KnownSides ==
    ASSUME NEW rounds \in 1..MaxRounds, NEW format \in Formats, NEW seeds, NEW ms, NEW n,
           Played(rounds, format, seeds, ms, n), NEW key \in Keys(rounds, format),
           Side(n[key], 1) # NoEntry, Side(n[key], 2) # NoEntry
    PROVE  key \in DOMAIN ms /\ n[key].winner # NoEntry /\ n[key].loser # NoEntry
<1>1. Side(n[key], 1) = n[key].entryA /\ Side(n[key], 2) = n[key].entryB
  BY DEF Side
<1> QED
  BY <1>1, PlayedNode

\* After the first round two teams meet at every node of the main bracket.
LEMMA LaterMainSeries ==
    ASSUME NEW rounds \in 1..MaxRounds, NEW format \in Formats, NEW seeds, NEW ms, NEW n,
           Played(rounds, format, seeds, ms, n),
           NEW r \in 1..rounds, r # 1, NEW key \in MainRound(rounds, r)
    PROVE  n[key].winner # NoEntry /\ n[key].loser # NoEntry
<1>1. PICK i \in 1..2^(rounds - r) : key = <<"MAIN", r, i>>
  BY DEF MainRound
<1>2. key[1] = "MAIN" /\ key[2] = r /\ key[3] = i /\ ~Opening(key)
  BY <1>1 DEF Opening
<1>3. key \in Keys(rounds, format)
  BY KeysByKind
<1>4. ASSUME NEW s \in Sides
      PROVE  Side(n[key], s) # NoEntry
  <2> DEFINE f == Feeds(rounds, key)[s]
  <2>1. f.key[1] = "MAIN" /\ f.result = "winner"
    <3>1. Feeds(rounds, key) = <<WinnerOf("MAIN", r - 1, 2*i - 1), WinnerOf("MAIN", r - 1, 2*i)>>
      BY <1>2 DEF Feeds
    <3>2. s = 1 \/ s = 2
      BY DEF Sides
    <3>3. CASE s = 1
      <4>1. f = WinnerOf("MAIN", r - 1, 2*i - 1)
        BY <3>1, <3>3
      <4> QED
        BY <4>1, FeedParts
    <3>4. CASE s = 2
      <4>1. f = WinnerOf("MAIN", r - 1, 2*i)
        BY <3>1, <3>4
      <4> QED
        BY <4>1, FeedParts
    <3> QED
      BY <3>2, <3>3, <3>4
  <2>2. f.key \in Keys(rounds, format)
    BY <1>2, <1>3, FeedsFit DEF FeedFits, Sides
  <2>3. Side(n[key], s) = n[f.key][f.result]
    BY <1>2, <1>3, NodeSides DEF Played
  <2> HIDE DEF f
  <2>4. n[f.key].winner # NoEntry
    BY <2>1, <2>2, WinnersAreKnown DEF Played
  <2> QED
    BY <2>1, <2>3, <2>4
<1>5. 1 \in Sides /\ 2 \in Sides
  BY DEF Sides
<1> QED
  BY <1>3, <1>4, <1>5, KnownSides

\* A bracket of four is seeded 1-4 and 2-3.
LEMMA FourSlots ==
    ASSUME NEW seeds, Len(seeds) \in Nat
    PROVE  /\ Slots(2, seeds)[1] = IF 1 <= Len(seeds) THEN seeds[1] ELSE NoEntry
           /\ Slots(2, seeds)[2] = IF 4 <= Len(seeds) THEN seeds[4] ELSE NoEntry
           /\ Slots(2, seeds)[3] = IF 2 <= Len(seeds) THEN seeds[2] ELSE NoEntry
           /\ Slots(2, seeds)[4] = IF 3 <= Len(seeds) THEN seeds[3] ELSE NoEntry
<1> DEFINE one == SeedOrder[1]
           two == SeedOrder[2]
<1>1. one = <<1, 2>>
  BY SeedOrderRule
<1>2. two = Followed(one, 2)
  BY SeedOrderRule
<1> HIDE DEF one
<1>3. 2^2 = 4
  OBVIOUS
<1>4. two[1] = 1 /\ two[2] = 4 /\ two[3] = 2 /\ two[4] = 3
  BY <1>1, <1>2, <1>3 DEF Followed
<1>5. 2 \in 1..MaxRounds
  BY DEF MaxRounds
<1>6. \A i \in 1..4 : Slots(2, seeds)[i] = SlotSeed(two, seeds, i)
  BY <1>3, <1>5, SlotsAre
<1> HIDE DEF two
<1> QED
  BY <1>4, <1>6 DEF SlotSeed

Semifinal(rounds, i) == <<"MAIN", rounds - 1, i>>

\* The second semifinal has a loser, the first one unless there are only three teams.
LEMMA Semifinals ==
    ASSUME NEW rounds \in 1..MaxRounds, rounds # 1, NEW format \in Formats, NEW seeds, NEW ms, NEW n,
           Played(rounds, format, seeds, ms, n)
    PROVE  /\ \A i \in 1..2 : /\ Semifinal(rounds, i) \in Keys(rounds, format)
                              /\ Semifinal(rounds, i) \in MainRound(rounds, rounds - 1)
                              /\ Semifinal(rounds, i)[1] = "MAIN"
                              /\ Place(rounds, Semifinal(rounds, i)) = rounds - 1
           /\ n[Semifinal(rounds, 2)].loser # NoEntry
           /\ n[Semifinal(rounds, 1)].loser # NoEntry <=> Len(seeds) >= 4
<1>1. rounds - 1 \in 1..rounds /\ rounds \in 1..rounds /\ rounds > 1
  BY DEF MaxRounds
<1>2. 2^(rounds - (rounds - 1)) = 2
  <2>1. 2^(rounds - (rounds - 1)) = 2 * 2^(rounds - rounds) /\ 2^(rounds - rounds) = 1
    BY <1>1, MainSizes
  <2> QED
    BY <2>1
<1>3. \A i \in 1..2 : Semifinal(rounds, i) \in MainRound(rounds, rounds - 1)
  BY <1>2 DEF Semifinal, MainRound
<1>4. \A i \in 1..2 : /\ Semifinal(rounds, i) \in Keys(rounds, format)
                      /\ Semifinal(rounds, i) \in MainRound(rounds, rounds - 1)
                      /\ Semifinal(rounds, i)[1] = "MAIN"
                      /\ Place(rounds, Semifinal(rounds, i)) = rounds - 1
  BY <1>1, <1>3, KeysByKind DEF Semifinal, Place
<1>5. /\ Len(seeds) \in Nat
      /\ rounds = 2 => Len(seeds) = 3 \/ Len(seeds) = 4
      /\ rounds > 2 => Len(seeds) > 4
  BY FewTeams DEF Played
<1>6. CASE rounds > 2
  <2>1. rounds - 1 # 1
    BY <1>6
  <2>2. \A i \in 1..2 : n[Semifinal(rounds, i)].loser # NoEntry
    BY <1>1, <1>3, <2>1, LaterMainSeries
  <2> QED
    BY <1>4, <1>5, <1>6, <2>2
<1>7. CASE rounds = 2
  <2> DEFINE first == Semifinal(rounds, 1)
             second == Semifinal(rounds, 2)
             slots == Slots(rounds, seeds)
  <2>1. first \in Keys(rounds, format) /\ second \in Keys(rounds, format)
    BY <1>4
  <2>2. Opening(first) /\ Opening(second) /\ first[3] = 1 /\ second[3] = 2
    BY <1>7 DEF Opening, Semifinal
  <2>3. 1 \in Sides /\ 2 \in Sides
    BY DEF Sides
  <2>4. \A s \in Sides : Side(n[first], s) = slots[Slot(first, s)] /\ Side(n[second], s) = slots[Slot(second, s)]
    BY <2>1, <2>2, NodeSides DEF Played
  <2>5. Slot(first, 1) = 1 /\ Slot(first, 2) = 2 /\ Slot(second, 1) = 3 /\ Slot(second, 2) = 4
    BY <2>2 DEF Slot
  <2> HIDE DEF first, second
  <2>6. /\ Side(n[first], 1) = slots[1] /\ Side(n[first], 2) = slots[2]
        /\ Side(n[second], 1) = slots[3] /\ Side(n[second], 2) = slots[4]
    BY <2>3, <2>4, <2>5
  <2>7. slots[1] = seeds[1] /\ slots[3] = seeds[2] /\ slots[4] = seeds[3]
        /\ slots[2] = IF 4 <= Len(seeds) THEN seeds[4] ELSE NoEntry
    BY <1>5, <1>7, FourSlots
  <2>8. \A i \in 1..Len(seeds) : seeds[i] # NoEntry
    BY DEF Played, Teams
  <2>9. 1 \in 1..Len(seeds) /\ 2 \in 1..Len(seeds) /\ 3 \in 1..Len(seeds) /\ (Len(seeds) = 4 => 4 \in 1..Len(seeds))
    BY <1>5, <1>7
  <2>10. n[second].loser # NoEntry
    BY <2>1, <2>6, <2>7, <2>8, <2>9, KnownSides
  <2>11. Len(seeds) = 4 => n[first].loser # NoEntry
    <3> SUFFICES ASSUME Len(seeds) = 4
                 PROVE  n[first].loser # NoEntry
      OBVIOUS
    <3>1. slots[2] = seeds[4]
      BY <2>7
    <3> QED
      BY <2>1, <2>6, <2>7, <2>8, <2>9, <3>1, KnownSides
  <2>12. Len(seeds) = 3 => n[first].loser = NoEntry
    <3> SUFFICES ASSUME Len(seeds) = 3, n[first].loser # NoEntry
                 PROVE  FALSE
      OBVIOUS
    <3>1. n[first].entryB # NoEntry
      BY <2>1, PlayedNode
    <3>2. slots[2] = NoEntry
      BY <2>7
    <3> QED
      BY <2>6, <3>1, <3>2 DEF Side
  <2>13. n[first].loser # NoEntry <=> Len(seeds) >= 4
    <3>1. Len(seeds) = 3 \/ Len(seeds) = 4
      BY <1>5, <1>7
    <3>2. (3 >= 4) = FALSE /\ (4 >= 4) = TRUE
      OBVIOUS
    <3>3. Len(seeds) = 3 => ~(Len(seeds) >= 4)
      BY <3>2
    <3>4. Len(seeds) = 4 => Len(seeds) >= 4
      BY <3>2
    <3> QED
      BY <2>11, <2>12, <3>1, <3>3, <3>4, Zenon
  <2>14. /\ n[Semifinal(rounds, 2)].loser # NoEntry
         /\ n[Semifinal(rounds, 1)].loser # NoEntry <=> Len(seeds) >= 4
    BY <2>10, <2>13 DEF first, second
  <2> QED
    BY <1>4, <2>14
<1> QED
  BY <1>1, <1>6, <1>7

\* The third-place match is played when there are four teams or more, and has
\* a winner when there are three.
LEMMA BronzeSeries ==
    ASSUME NEW rounds \in 1..MaxRounds, rounds # 1, NEW format \in Formats, format # "DOUBLE_ELIMINATION",
           NEW seeds, NEW ms, NEW n, Played(rounds, format, seeds, ms, n)
    PROVE  LET bronze == BronzeKey(rounds)
           IN  /\ bronze \in Keys(rounds, format) /\ bronze[1] = "BRONZE"
               /\ \A s \in Sides : Side(n[bronze], s) = n[Semifinal(rounds, s)].loser
               /\ bronze \in DOMAIN ms <=> Len(seeds) >= 4
               /\ n[bronze].winner # NoEntry
<1> DEFINE bronze == BronzeKey(rounds)
<1>1. bronze \in Keys(rounds, format) /\ bronze[1] = "BRONZE" /\ ~Opening(bronze)
  <2>1. rounds >= 2
    BY DEF MaxRounds
  <2> QED
    BY <2>1, KeysByKind DEF BronzeKey, Opening
<1>2. /\ Feeds(rounds, bronze)[1] = LoserOf("MAIN", rounds - 1, 1)
      /\ Feeds(rounds, bronze)[2] = LoserOf("MAIN", rounds - 1, 2)
  BY <1>1 DEF Feeds
<1> HIDE DEF bronze
<1>3. 1 \in Sides /\ 2 \in Sides /\ \A s \in Sides : s = 1 \/ s = 2
  BY DEF Sides
<1>4. \A s \in Sides : Side(n[bronze], s) = n[Feeds(rounds, bronze)[s].key][Feeds(rounds, bronze)[s].result]
  BY <1>1, NodeSides DEF Played
<1>5. Side(n[bronze], 1) = n[Semifinal(rounds, 1)].loser
  <2>1. Feeds(rounds, bronze)[1].key = Semifinal(rounds, 1) /\ Feeds(rounds, bronze)[1].result = "loser"
    BY <1>2, FeedParts DEF Semifinal
  <2> QED
    BY <1>3, <1>4, <2>1
<1>6. Side(n[bronze], 2) = n[Semifinal(rounds, 2)].loser
  <2>1. Feeds(rounds, bronze)[2].key = Semifinal(rounds, 2) /\ Feeds(rounds, bronze)[2].result = "loser"
    BY <1>2, FeedParts DEF Semifinal
  <2> QED
    BY <1>3, <1>4, <2>1
<1>7. /\ n[Semifinal(rounds, 2)].loser # NoEntry
      /\ n[Semifinal(rounds, 1)].loser # NoEntry <=> Len(seeds) >= 4
  BY Semifinals
<1>8. bronze \in DOMAIN ms <=> Side(n[bronze], 1) # NoEntry /\ Side(n[bronze], 2) # NoEntry
  <2>1. bronze \in DOMAIN ms <=> n[bronze].entryA # NoEntry /\ n[bronze].entryB # NoEntry
    BY <1>1, PlayedNode
  <2> QED
    BY <2>1 DEF Side
<1>9. n[bronze].winner # NoEntry
  BY <1>1, <1>3, <1>6, <1>7, KnownSide
<1>10. \A s \in Sides : Side(n[bronze], s) = n[Semifinal(rounds, s)].loser
  BY <1>3, <1>5, <1>6
<1> QED
  BY <1>1, <1>5, <1>6, <1>7, <1>8, <1>9, <1>10 DEF bronze

\* How many series a bracket has when every node has its result.
LEMMA SeriesPlayed ==
    ASSUME NEW rounds \in 1..MaxRounds, NEW format \in Formats, NEW seeds, NEW ms, NEW n,
           Played(rounds, format, seeds, ms, n)
    PROVE  Cardinality(DOMAIN ms) =
             IF format = "DOUBLE_ELIMINATION" THEN 2 * Len(seeds) - 2
             ELSE IF Len(seeds) >= 4 THEN Len(seeds) ELSE Len(seeds) - 1
<1> DEFINE M == {k \in DOMAIN ms : k[1] = "MAIN"}
           R == {k \in DOMAIN ms : k[1] # "MAIN"}
           bronze == BronzeKey(rounds)
<1>1. IsFiniteSet(M) /\ Cardinality(M) = Len(seeds) - 1
  BY MainSeries
<1>2. M \cup R = DOMAIN ms /\ M \cap R = {}
  OBVIOUS
<1>3. Len(seeds) \in Nat /\ DOMAIN ms \subseteq Keys(rounds, format)
  BY DEF Played
<1>4. ASSUME IsFiniteSet(R), Cardinality(R) \in Nat
      PROVE  Cardinality(DOMAIN ms) = Len(seeds) - 1 + Cardinality(R)
  <2> HIDE DEF M, R
  <2>1. Cardinality(M \cup R) = Cardinality(M) + Cardinality(R) - Cardinality(M \cap R)
    BY <1>1, <1>4, FS_Union
  <2>2. Cardinality({}) = 0
    BY FS_EmptySet
  <2>3. Cardinality(DOMAIN ms) = Cardinality(M) + Cardinality(R) - 0
    BY <1>2, <2>1, <2>2
  <2> DEFINE c == Cardinality(R)
             d == Cardinality(M)
             m == Len(seeds)
  <2>4. c \in Nat /\ d = m - 1 /\ m \in Nat
    BY <1>1, <1>3, <1>4
  <2>5. Cardinality(DOMAIN ms) = d + c - 0
    BY <2>3
  <2> HIDE DEF c, d, m
  <2>6. Cardinality(DOMAIN ms) = m - 1 + c
    BY <2>4, <2>5
  <2> QED
    BY <2>6 DEF c, m
<1>5. CASE format = "DOUBLE_ELIMINATION"
  <2>1. IsFiniteSet(R) /\ Cardinality(R) = Len(seeds) - 1
    BY <1>5, OtherSeries
  <2>2. Cardinality(R) \in Nat
    BY <2>1, FS_CardinalityType
  <2> HIDE DEF R
  <2>3. Cardinality(DOMAIN ms) = Len(seeds) - 1 + Cardinality(R)
    BY <1>4, <2>1, <2>2
  <2> QED
    BY <1>3, <1>5, <2>1, <2>3
<1>6. CASE format # "DOUBLE_ELIMINATION"
  <2>1. R = IF rounds # 1 /\ bronze \in DOMAIN ms THEN {bronze} ELSE {}
    <3>1. ASSUME NEW k \in R
          PROVE  rounds # 1 /\ k = bronze
      <4>1. k[1] # "MAIN" /\ k \in Keys(rounds, format)
        BY <1>3
      <4>2. (\E r \in 1..rounds : k \in MainRound(rounds, r)) \/ (rounds >= 2 /\ k = bronze)
        BY <1>6, <4>1, KeysByKind
      <4>3. \A r \in 1..rounds : k \notin MainRound(rounds, r)
        BY <4>1 DEF MainRound
      <4> QED
        BY <4>2, <4>3
    <3>2. bronze[1] # "MAIN"
      BY DEF BronzeKey
    <3>3. CASE rounds # 1 /\ bronze \in DOMAIN ms
      <4>1. bronze \in R
        BY <3>2, <3>3
      <4> HIDE DEF R, bronze
      <4> QED
        BY <3>1, <3>3, <4>1
    <3>4. CASE ~(rounds # 1 /\ bronze \in DOMAIN ms)
      <4>1. \A k \in R : k \in DOMAIN ms
        OBVIOUS
      <4> HIDE DEF R, bronze
      <4> QED
        BY <3>1, <3>4, <4>1
    <3> QED
      BY <3>3, <3>4
  <2>2. rounds # 1 => (bronze \in DOMAIN ms <=> Len(seeds) >= 4)
    BY <1>6, BronzeSeries
  <2>3. rounds = 1 => Len(seeds) = 2
    BY <1>3, FewTeams DEF Played
  <2>4. IsFiniteSet({}) /\ Cardinality({}) = 0 /\ IsFiniteSet({bronze}) /\ Cardinality({bronze}) = 1
    BY FS_EmptySet, FS_Singleton
  <2> HIDE DEF R, bronze
  <2>5. CASE Len(seeds) >= 4
    <3>0. rounds # 1
      BY <2>3, <2>5
    <3>1. R = {bronze}
      BY <2>1, <2>2, <2>5, <3>0
    <3>2. IsFiniteSet(R) /\ Cardinality(R) = 1
      BY <2>4, <3>1
    <3>3. Cardinality(DOMAIN ms) = Len(seeds) - 1 + 1
      BY <1>4, <3>2
    <3> QED
      BY <1>3, <1>6, <2>5, <3>3
  <2>6. CASE ~(Len(seeds) >= 4)
    <3>1. R = {}
      BY <2>1, <2>2, <2>6
    <3>2. IsFiniteSet(R) /\ Cardinality(R) = 0
      BY <2>4, <3>1
    <3>3. Cardinality(DOMAIN ms) = Len(seeds) - 1 + 0
      BY <1>4, <3>2
    <3> QED
      BY <1>3, <1>6, <2>6, <3>3
  <2> QED
    BY <2>5, <2>6
<1> QED
  BY <1>5, <1>6

\* The sides of a node of an even lower round.
LEMMA DropInSides ==
    ASSUME NEW rounds \in 1..MaxRounds, NEW format \in Formats, format = "DOUBLE_ELIMINATION",
           NEW slots, NEW ms, NEW n, IsBracket(rounds, format, slots, ms, n),
           NEW q \in 1..2*(rounds - 1), q % 2 # 1, NEW i \in 1..LowerRoundSize(rounds, q)
    PROVE  LET key == <<"LOWER", q, i>>
               drop == <<"MAIN", q \div 2 + 1, Crossed(i, LowerRoundSize(rounds, q))>>
           IN  /\ key \in Keys(rounds, format) /\ Side(n[key], 1) = n[<<"LOWER", q - 1, i>>].winner
               /\ Side(n[key], 2) = n[drop].loser
               /\ q \div 2 + 1 \in 2..rounds /\ drop \in MainRound(rounds, q \div 2 + 1)
<1> DEFINE key == <<"LOWER", q, i>>
           size == LowerRoundSize(rounds, q)
           j == Crossed(i, size)
           r == q \div 2 + 1
           drop == <<"MAIN", r, j>>
<1>1. key \in LowerRound(rounds, q) /\ key[1] = "LOWER" /\ key[2] = q /\ key[3] = i /\ ~Opening(key) /\ q # 1
  BY DEF LowerRound, Opening
<1>2. key \in Keys(rounds, format)
  BY <1>1, KeysByKind
<1>3. /\ size \in Nat \ {0} /\ (size = 1 \/ size % 2 = 0) /\ i \in 1..size
      /\ r \in 2..rounds /\ 2^(rounds - r) = size
  BY LowerSizes
<1>4. Feeds(rounds, key) = <<WinnerOf("LOWER", q - 1, i), LoserOf("MAIN", r, j)>>
  BY <1>1 DEF Feeds, LowerFeeds
<1> HIDE DEF size, r
<1>5. j \in 1..size
  BY <1>3, CrossedSlots
<1>6. drop \in MainRound(rounds, r)
  BY <1>3, <1>5 DEF MainRound
<1> HIDE DEF j
<1>7. 1 \in Sides /\ 2 \in Sides
  BY DEF Sides
<1> HIDE DEF key
<1>8. \A s \in Sides : Side(n[key], s) = n[Feeds(rounds, key)[s].key][Feeds(rounds, key)[s].result]
  BY <1>1, <1>2, NodeSides
<1>9. Feeds(rounds, key)[1].key = <<"LOWER", q - 1, i>> /\ Feeds(rounds, key)[1].result = "winner"
  BY <1>4, FeedParts
<1>10. Feeds(rounds, key)[2].key = drop /\ Feeds(rounds, key)[2].result = "loser"
  BY <1>4, FeedParts
<1>11. Side(n[key], 1) = n[<<"LOWER", q - 1, i>>].winner /\ Side(n[key], 2) = n[drop].loser
  BY <1>7, <1>8, <1>9, <1>10
<1> QED
  BY <1>2, <1>3, <1>6, <1>11 DEF key, j, size, r

\* The sides of a node of the first lower round.
LEMMA FirstLowerSides ==
    ASSUME NEW rounds \in 1..MaxRounds, rounds # 1, NEW format \in Formats, format = "DOUBLE_ELIMINATION",
           NEW slots, NEW ms, NEW n, IsBracket(rounds, format, slots, ms, n),
           NEW i \in 1..LowerRoundSize(rounds, 1)
    PROVE  LET key == <<"LOWER", 1, i>>
           IN  /\ key \in LowerRound(rounds, 1) /\ key \in Keys(rounds, format)
               /\ Side(n[key], 1) = n[<<"MAIN", 1, 2*i - 1>>].loser
               /\ Side(n[key], 2) = n[<<"MAIN", 1, 2*i>>].loser
<1> DEFINE key == <<"LOWER", 1, i>>
<1>1. 1 \in 1..2*(rounds - 1)
  BY DEF MaxRounds
<1>2. key \in LowerRound(rounds, 1) /\ key[1] = "LOWER" /\ key[2] = 1 /\ key[3] = i /\ ~Opening(key)
  BY DEF LowerRound, Opening
<1>3. key \in Keys(rounds, format)
  BY <1>1, <1>2, KeysByKind
<1>4. Feeds(rounds, key) = <<LoserOf("MAIN", 1, 2*i - 1), LoserOf("MAIN", 1, 2*i)>>
  BY <1>2 DEF Feeds, LowerFeeds
<1> HIDE DEF key
<1>5. 1 \in Sides /\ 2 \in Sides
  BY DEF Sides
<1>6. \A s \in Sides : Side(n[key], s) = n[Feeds(rounds, key)[s].key][Feeds(rounds, key)[s].result]
  BY <1>2, <1>3, NodeSides
<1>7. /\ Feeds(rounds, key)[1].key = <<"MAIN", 1, 2*i - 1>> /\ Feeds(rounds, key)[1].result = "loser"
      /\ Feeds(rounds, key)[2].key = <<"MAIN", 1, 2*i>> /\ Feeds(rounds, key)[2].result = "loser"
  BY <1>4, FeedParts
<1>8. Side(n[key], 1) = n[<<"MAIN", 1, 2*i - 1>>].loser /\ Side(n[key], 2) = n[<<"MAIN", 1, 2*i>>].loser
  BY <1>5, <1>6, <1>7
<1> QED
  BY <1>2, <1>3, <1>8 DEF key

\* The sides of a node of a later odd lower round.
LEMMA SurvivorSides ==
    ASSUME NEW rounds \in 1..MaxRounds, NEW format \in Formats, format = "DOUBLE_ELIMINATION",
           NEW slots, NEW ms, NEW n, IsBracket(rounds, format, slots, ms, n),
           NEW q \in 1..2*(rounds - 1), q % 2 = 1, q # 1, NEW i \in 1..LowerRoundSize(rounds, q)
    PROVE  LET key == <<"LOWER", q, i>>
           IN  /\ key \in Keys(rounds, format)
               /\ Side(n[key], 1) = n[<<"LOWER", q - 1, 2*i - 1>>].winner
               /\ Side(n[key], 2) = n[<<"LOWER", q - 1, 2*i>>].winner
<1> DEFINE key == <<"LOWER", q, i>>
<1>1. key \in LowerRound(rounds, q) /\ key[1] = "LOWER" /\ key[2] = q /\ key[3] = i /\ ~Opening(key)
  BY DEF LowerRound, Opening
<1>2. key \in Keys(rounds, format)
  BY <1>1, KeysByKind
<1>3. Feeds(rounds, key) = <<WinnerOf("LOWER", q - 1, 2*i - 1), WinnerOf("LOWER", q - 1, 2*i)>>
  BY <1>1 DEF Feeds, LowerFeeds
<1> HIDE DEF key
<1>4. 1 \in Sides /\ 2 \in Sides
  BY DEF Sides
<1>5. \A s \in Sides : Side(n[key], s) = n[Feeds(rounds, key)[s].key][Feeds(rounds, key)[s].result]
  BY <1>1, <1>2, NodeSides
<1>6. /\ Feeds(rounds, key)[1].key = <<"LOWER", q - 1, 2*i - 1>> /\ Feeds(rounds, key)[1].result = "winner"
      /\ Feeds(rounds, key)[2].key = <<"LOWER", q - 1, 2*i>> /\ Feeds(rounds, key)[2].result = "winner"
  BY <1>3, FeedParts
<1>7. Side(n[key], 1) = n[<<"LOWER", q - 1, 2*i - 1>>].winner /\ Side(n[key], 2) = n[<<"LOWER", q - 1, 2*i>>].winner
  BY <1>4, <1>5, <1>6
<1> QED
  BY <1>2, <1>7 DEF key

\* Somebody drops into every node of an even lower round.
LEMMA LowerWinners ==
    ASSUME NEW rounds \in 1..MaxRounds, NEW format \in Formats, format = "DOUBLE_ELIMINATION",
           NEW seeds, NEW ms, NEW n, Played(rounds, format, seeds, ms, n),
           NEW q \in 1..2*(rounds - 1), q % 2 # 1, NEW i \in 1..LowerRoundSize(rounds, q)
    PROVE  n[<<"LOWER", q, i>>].winner # NoEntry /\ Side(n[<<"LOWER", q, i>>], 2) # NoEntry
<1> DEFINE key == <<"LOWER", q, i>>
           r == q \div 2 + 1
           drop == <<"MAIN", r, Crossed(i, LowerRoundSize(rounds, q))>>
<1>1. key \in Keys(rounds, format) /\ Side(n[key], 2) = n[drop].loser /\ r \in 2..rounds /\ drop \in MainRound(rounds, r)
  BY DropInSides, ZenonT(60) DEF Played
<1> HIDE DEF drop, r, key
<1>2. r \in 1..rounds /\ r # 1
  BY <1>1
<1>3. n[drop].loser # NoEntry
  BY <1>1, <1>2, LaterMainSeries
<1>4. 2 \in Sides
  BY DEF Sides
<1>5. n[key].winner # NoEntry
  BY <1>1, <1>3, <1>4, KnownSide
<1> QED
  BY <1>1, <1>3, <1>5 DEF key

LowerFinal(rounds) == <<"LOWER", 2*(rounds - 1), 1>>

\* Double elimination of three teams or more: two teams meet in the lower final.
LEMMA LowerFinalSeries ==
    ASSUME NEW rounds \in 1..MaxRounds, rounds # 1, NEW format \in Formats, format = "DOUBLE_ELIMINATION",
           NEW seeds, NEW ms, NEW n, Played(rounds, format, seeds, ms, n)
    PROVE  /\ LowerFinal(rounds) \in Keys(rounds, format) /\ LowerFinal(rounds)[1] = "LOWER"
           /\ Place(rounds, LowerFinal(rounds)) = 3*rounds - 2
           /\ n[LowerFinal(rounds)].winner # NoEntry /\ n[LowerFinal(rounds)].loser # NoEntry
<1> DEFINE q == 2*(rounds - 1)
           before == <<"LOWER", q - 1, 1>>
           b == 2*rounds - 3
           key == <<"LOWER", q, 1>>
<1>1. rounds \in Nat /\ rounds > 1 /\ q \in 1..2*(rounds - 1) /\ q - 1 = b /\ b \in 1..2*(rounds - 1)
  BY DEF MaxRounds
<1>2. LowerRoundSize(rounds, q) = 1 /\ q % 2 # 1
  BY <1>1, LowerSizes
<1>3. b % 2 = 1
  BY <1>1
<1>4. LowerRoundSize(rounds, b) \in Nat \ {0}
  BY <1>1, LowerSizes
<1>5. 1 \in Sides /\ 2 \in Sides
  BY DEF Sides
<1>6. 1 \in 1..LowerRoundSize(rounds, q) /\ 1 \in 1..LowerRoundSize(rounds, b)
  BY <1>2, <1>4
<1>0. IsBracket(rounds, format, Slots(rounds, seeds), ms, n)
  BY DEF Played
<1>20. ASSUME NEW p \in 1..2*(rounds - 1), p % 2 # 1, NEW i \in 1..LowerRoundSize(rounds, p)
       PROVE  /\ <<"LOWER", p, i>> \in Keys(rounds, format)
              /\ Side(n[<<"LOWER", p, i>>], 1) = n[<<"LOWER", p - 1, i>>].winner
  <2>1. LET k == <<"LOWER", p, i>>
            drop == <<"MAIN", p \div 2 + 1, Crossed(i, LowerRoundSize(rounds, p))>>
        IN  /\ k \in Keys(rounds, format) /\ Side(n[k], 1) = n[<<"LOWER", p - 1, i>>].winner
            /\ Side(n[k], 2) = n[drop].loser
            /\ p \div 2 + 1 \in 2..rounds /\ drop \in MainRound(rounds, p \div 2 + 1)
    BY <1>0, <1>20, DropInSides
  <2> QED
    BY <2>1
<1>21. ASSUME NEW i \in 1..LowerRoundSize(rounds, 1)
       PROVE  <<"LOWER", 1, i>> \in Keys(rounds, format) /\ Side(n[<<"LOWER", 1, i>>], 2) = n[<<"MAIN", 1, 2*i>>].loser
  <2>1. LET k == <<"LOWER", 1, i>>
        IN  /\ k \in LowerRound(rounds, 1) /\ k \in Keys(rounds, format)
            /\ Side(n[k], 1) = n[<<"MAIN", 1, 2*i - 1>>].loser
            /\ Side(n[k], 2) = n[<<"MAIN", 1, 2*i>>].loser
    BY <1>0, FirstLowerSides
  <2> QED
    BY <2>1
<1>22. ASSUME NEW p \in 1..2*(rounds - 1), p % 2 = 1, p # 1, NEW i \in 1..LowerRoundSize(rounds, p)
       PROVE  /\ <<"LOWER", p, i>> \in Keys(rounds, format)
              /\ Side(n[<<"LOWER", p, i>>], 1) = n[<<"LOWER", p - 1, 2*i - 1>>].winner
  <2>1. LET k == <<"LOWER", p, i>>
        IN  /\ k \in Keys(rounds, format)
            /\ Side(n[k], 1) = n[<<"LOWER", p - 1, 2*i - 1>>].winner
            /\ Side(n[k], 2) = n[<<"LOWER", p - 1, 2*i>>].winner
    BY <1>0, <1>22, SurvivorSides
  <2> QED
    BY <2>1
<1>7. n[key].winner # NoEntry /\ Side(n[key], 2) # NoEntry
  <2> HIDE DEF q
  <2> QED
    BY <1>1, <1>2, <1>6, LowerWinners
<1>8. key \in Keys(rounds, format) /\ Side(n[key], 1) = n[before].winner
  <2> HIDE DEF q
  <2>1. q \in 1..2*(rounds - 1) /\ q % 2 # 1 /\ 1 \in 1..LowerRoundSize(rounds, q)
    BY <1>1, <1>2, <1>6
  <2>2. /\ <<"LOWER", q, 1>> \in Keys(rounds, format)
        /\ Side(n[<<"LOWER", q, 1>>], 1) = n[<<"LOWER", q - 1, 1>>].winner
    BY <1>20, <2>1
  <2> QED
    BY <2>2
<1>9. before = <<"LOWER", b, 1>>
  BY <1>1
<1>10. before \in Keys(rounds, format) /\ \E s \in Sides : Side(n[before], s) # NoEntry
  <2>1. CASE b = 1
    <3>1. rounds = 2
      BY <1>1, <2>1
    <3>2. before \in Keys(rounds, format) /\ Side(n[before], 2) = n[<<"MAIN", 1, 2>>].loser
      <4> HIDE DEF q, b, before
      <4>1. /\ <<"LOWER", b, 1>> \in Keys(rounds, format)
            /\ Side(n[<<"LOWER", b, 1>>], 2) = n[<<"MAIN", 1, 2*1>>].loser
        <5>1. b \in 1..2*(rounds - 1) /\ b % 2 = 1 /\ 1 \in 1..LowerRoundSize(rounds, b)
          BY <1>1, <1>3, <1>6
        <5>2. /\ <<"LOWER", b, 1>> \in Keys(rounds, format)
              /\ Side(n[<<"LOWER", b, 1>>], 2) = n[<<"MAIN", 1, 2*1>>].loser
          BY <1>21, <2>1, <5>1
        <5> QED
          BY <2>1, <5>2
      <4>2. 2*1 = 2
        OBVIOUS
      <4> QED
        BY <1>9, <4>1, <4>2
    <3>3. n[Semifinal(rounds, 2)].loser # NoEntry
      BY Semifinals
    <3>4. Semifinal(rounds, 2) = <<"MAIN", 1, 2>>
      BY <3>1 DEF Semifinal
    <3> QED
      BY <1>5, <3>2, <3>3, <3>4
  <2>2. CASE b # 1
    <3> DEFINE c == b - 1
    <3>1. c \in 1..2*(rounds - 1) /\ c % 2 # 1
      BY <1>1, <1>3, <2>2
    <3>2. LowerRoundSize(rounds, c) \in Nat \ {0}
      BY <3>1, LowerSizes
    <3>3. 1 \in 1..LowerRoundSize(rounds, c)
      BY <3>2
    <3>4. before \in Keys(rounds, format) /\ Side(n[before], 1) = n[<<"LOWER", c, 1>>].winner
      <4> HIDE DEF q, b, before
      <4>1. /\ <<"LOWER", b, 1>> \in Keys(rounds, format)
            /\ Side(n[<<"LOWER", b, 1>>], 1) = n[<<"LOWER", b - 1, 2*1 - 1>>].winner
        <5>1. b \in 1..2*(rounds - 1) /\ b % 2 = 1 /\ 1 \in 1..LowerRoundSize(rounds, b)
          BY <1>1, <1>3, <1>6
        <5>2. /\ <<"LOWER", b, 1>> \in Keys(rounds, format)
              /\ Side(n[<<"LOWER", b, 1>>], 1) = n[<<"LOWER", b - 1, 2*1 - 1>>].winner
          BY <1>22, <2>2, <5>1
        <5> QED
          BY <2>2, <5>2
      <4>2. 2*1 - 1 = 1
        OBVIOUS
      <4> QED
        BY <1>9, <4>1, <4>2
    <3>5. n[<<"LOWER", c, 1>>].winner # NoEntry
      <4> HIDE DEF c
      <4> QED
        BY <3>1, <3>3, LowerWinners
    <3> QED
      BY <1>5, <3>4, <3>5
  <2> QED
    BY <2>1, <2>2
<1> HIDE DEF before
<1>11. n[before].winner # NoEntry
  BY <1>10, KnownSide
<1>12. n[key].loser # NoEntry
  <2> HIDE DEF key
  <2> QED
    BY <1>7, <1>8, <1>11, KnownSides
<1>13. key[1] = "LOWER" /\ Place(rounds, key) = 3*rounds - 2
  BY <1>1 DEF Place
<1> QED
  BY <1>7, <1>8, <1>12, <1>13 DEF LowerFinal

\* Two teams meet in the last node of the main bracket.
LEMMA MainFinalSeries ==
    ASSUME NEW rounds \in 1..MaxRounds, NEW format \in Formats, NEW seeds, NEW ms, NEW n,
           Played(rounds, format, seeds, ms, n)
    PROVE  n[MainFinal(rounds)].winner # NoEntry /\ n[MainFinal(rounds)].loser # NoEntry
<1> DEFINE final == MainFinal(rounds)
           slots == Slots(rounds, seeds)
<1>1. final \in Keys(rounds, format) /\ final \in MainRound(rounds, rounds)
  BY MainKeys
<1>2. CASE rounds # 1
  <2>1. rounds \in 1..rounds
    BY DEF MaxRounds
  <2> QED
    BY <1>1, <1>2, <2>1, LaterMainSeries
<1>3. CASE rounds = 1
  <2>1. Opening(final) /\ final[3] = 1
    BY <1>3 DEF Opening, MainFinal
  <2> HIDE DEF final
  <2>2. \A s \in Sides : Side(n[final], s) = slots[Slot(final, s)]
    BY <1>1, <2>1, NodeSides DEF Played
  <2>3. Slot(final, 1) = 1 /\ Slot(final, 2) = 2
    BY <2>1 DEF Slot
  <2>4. 1 \in Sides /\ 2 \in Sides
    BY DEF Sides
  <2>5. Len(seeds) = 2
    BY <1>3, FewTeams DEF Played
  <2>6. slots[1] = seeds[1] /\ slots[2] = seeds[2]
    <3>1. SeedOrder[1] = <<1, 2>>
      BY SeedOrderRule
    <3>2. 2^1 = 2
      OBVIOUS
    <3>3. \A i \in 1..2 : slots[i] = SlotSeed(SeedOrder[1], seeds, i)
      BY <1>3, <3>2, SlotsAre, ZenonT(60)
    <3> HIDE DEF slots
    <3> QED
      BY <2>5, <3>1, <3>3 DEF SlotSeed
  <2>7. \A i \in 1..Len(seeds) : seeds[i] # NoEntry
    BY DEF Played, Teams
  <2>8. seeds[1] # NoEntry /\ seeds[2] # NoEntry
    BY <2>5, <2>7
  <2>9. Side(n[final], 1) # NoEntry /\ Side(n[final], 2) # NoEntry
    BY <2>2, <2>3, <2>4, <2>6, <2>8
  <2>10. n[final].winner # NoEntry /\ n[final].loser # NoEntry
    BY <1>1, <2>9, KnownSides
  <2> QED
    BY <2>10 DEF final
<1> QED
  BY <1>2, <1>3

\* Double elimination: two teams meet in the grand final.
LEMMA GrandFinalSeries ==
    ASSUME NEW rounds \in 1..MaxRounds, NEW format \in Formats, format = "DOUBLE_ELIMINATION",
           NEW seeds, NEW ms, NEW n, Played(rounds, format, seeds, ms, n)
    PROVE  /\ GrandFinalKey \in Keys(rounds, format) /\ Place(rounds, GrandFinalKey) = 3*rounds - 1
           /\ n[GrandFinalKey].winner # NoEntry /\ n[GrandFinalKey].loser # NoEntry
<1> DEFINE key == GrandFinalKey
           champion == LowerChampion(rounds)
<1>1. key \in Keys(rounds, format) /\ key[1] = "GRAND_FINAL" /\ ~Opening(key) /\ Place(rounds, key) = 3*rounds - 1
  BY KeysByKind DEF GrandFinalKey, Opening, Place
<1>2. Feeds(rounds, key)[1] = WinnerOf("MAIN", rounds, 1) /\ Feeds(rounds, key)[2] = champion
  BY <1>1 DEF Feeds
<1>3. rounds = 1 => champion = LoserOf("MAIN", 1, 1)
  BY DEF LowerChampion
<1>4. rounds # 1 => champion = WinnerOf("LOWER", 2*(rounds - 1), 1)
  BY DEF LowerChampion
<1> HIDE DEF key, champion
<1>5. 1 \in Sides /\ 2 \in Sides
  BY DEF Sides
<1>6. \A s \in Sides : Side(n[key], s) = n[Feeds(rounds, key)[s].key][Feeds(rounds, key)[s].result]
  BY <1>1, NodeSides DEF Played
<1>7. /\ MainFinal(rounds) \in Keys(rounds, format) /\ MainFinal(rounds)[1] = "MAIN"
      /\ MainFinal(rounds) \in MainRound(rounds, rounds)
  BY MainKeys
<1>8. Side(n[key], 1) # NoEntry
  <2>1. n[MainFinal(rounds)].winner # NoEntry
    BY <1>7, WinnersAreKnown DEF Played
  <2>2. Feeds(rounds, key)[1].key = MainFinal(rounds) /\ Feeds(rounds, key)[1].result = "winner"
    BY <1>2, FeedParts DEF MainFinal
  <2> QED
    BY <1>5, <1>6, <2>1, <2>2
<1>9. Side(n[key], 2) # NoEntry
  <2>1. CASE rounds = 1
    <3>1. champion.key = MainFinal(rounds) /\ champion.result = "loser"
      BY <1>3, <2>1, FeedParts DEF MainFinal
    <3>2. n[MainFinal(rounds)].loser # NoEntry
      BY MainFinalSeries
    <3> QED
      BY <1>2, <1>5, <1>6, <3>1, <3>2
  <2>2. CASE rounds # 1
    <3>1. n[LowerFinal(rounds)].winner # NoEntry
      BY <2>2, LowerFinalSeries
    <3>2. champion.key = LowerFinal(rounds) /\ champion.result = "winner"
      BY <1>4, <2>2, FeedParts DEF LowerFinal
    <3> QED
      BY <1>2, <1>5, <1>6, <3>1, <3>2
  <2> QED
    BY <2>1, <2>2
<1>10. n[key].winner # NoEntry /\ n[key].loser # NoEntry
  BY <1>1, <1>8, <1>9, KnownSides
<1> QED
  BY <1>1, <1>10 DEF key

\* The podium of a bracket where every node has its result: two teams, and a
\* third when there are three or more.
LEMMA PodiumPlaces ==
    ASSUME NEW rounds \in 1..MaxRounds, NEW format \in Formats, NEW seeds, NEW ms, NEW n,
           Played(rounds, format, seeds, ms, n)
    PROVE  LET podium == Podium(rounds, n, format)
           IN  /\ podium[1] \in Teams(seeds) /\ podium[2] \in Teams(seeds) /\ podium[1] # podium[2]
               /\ rounds = 1 => podium[3] = NoEntry
               /\ rounds # 1 => podium[3] \in Teams(seeds) /\ podium[3] # podium[1] /\ podium[3] # podium[2]
<1> DEFINE final == FinalKey(rounds, format)
           third == IF rounds = 1 THEN NoEntry
                    ELSE IF format = "DOUBLE_ELIMINATION" THEN n[LowerFinal(rounds)].loser
                    ELSE n[BronzeKey(rounds)].winner
           podium == Podium(rounds, n, format)
<1>1. podium[1] = n[final].winner /\ podium[2] = n[final].loser /\ podium[3] = third
  BY DEF Podium, FinalKey, LowerFinal
<1>2. /\ MainFinal(rounds) \in Keys(rounds, format) /\ MainFinal(rounds)[1] = "MAIN"
      /\ MainFinal(rounds) \in MainRound(rounds, rounds) /\ Place(rounds, MainFinal(rounds)) = rounds
  BY MainKeys
<1>3. rounds \in Int /\ rounds \in 1..rounds
  BY DEF MaxRounds
<1>4. NoEntry \notin Teams(seeds)
  BY DEF Played
<1>5. CASE format = "DOUBLE_ELIMINATION"
  <2>1. final = GrandFinalKey /\ (rounds # 1 => third = n[LowerFinal(rounds)].loser)
    BY <1>5 DEF FinalKey
  <2>2. /\ final \in Keys(rounds, format) /\ Place(rounds, final) = 3*rounds - 1
        /\ n[final].winner # NoEntry /\ n[final].loser # NoEntry
    BY <1>5, <2>1, GrandFinalSeries
  <2> HIDE DEF final, third
  <2>3. /\ n[final].winner \in Teams(seeds) /\ n[final].loser \in Teams(seeds) /\ n[final].winner # n[final].loser
        /\ \E s \in Sides : Side(n[final], s) = n[final].winner
        /\ \E s \in Sides : Side(n[final], s) = n[final].loser
    BY <2>2, PlayedNode
  <2>4. ASSUME rounds # 1
        PROVE  third \in Teams(seeds) /\ third # n[final].winner /\ third # n[final].loser
    <3> DEFINE lower == LowerFinal(rounds)
    <3>1. /\ lower \in Keys(rounds, format) /\ lower[1] = "LOWER" /\ Place(rounds, lower) = 3*rounds - 2
          /\ n[lower].loser # NoEntry
      BY <1>5, <2>4, LowerFinalSeries
    <3>2. third = n[lower].loser
      BY <2>1, <2>4
    <3> HIDE DEF lower
    <3>3. n[lower].loser \in Teams(seeds)
      BY <3>1, PlayedNode
    <3>4. Place(rounds, lower) <= Place(rounds, final) /\ lower # final
      BY <1>3, <2>2, <3>1
    <3>5. ASSUME NEW s \in Sides
          PROVE  Side(n[final], s) # third
      <4> SUFFICES ASSUME Side(n[final], s) = third
                   PROVE  FALSE
        OBVIOUS
      <4>1. third # NoEntry /\ n[lower].loser = third /\ final \in Keys(rounds, format) /\ lower \in Keys(rounds, format)
        BY <2>2, <3>1, <3>2
      <4>2. lower[1] = "MAIN"
        BY <3>4, <4>1, LostOnce
      <4> QED
        BY <3>1, <4>2
    <3> QED
      BY <2>3, <3>2, <3>3, <3>5
  <2>5. rounds = 1 => third = NoEntry
    BY DEF third
  <2> HIDE DEF podium
  <2> QED
    BY <1>1, <2>3, <2>4, <2>5 DEF podium
<1>6. CASE format # "DOUBLE_ELIMINATION"
  <2>1. final = MainFinal(rounds) /\ (rounds # 1 => third = n[BronzeKey(rounds)].winner)
    BY <1>6 DEF FinalKey, MainFinal
  <2>2. n[final].winner # NoEntry /\ n[final].loser # NoEntry
    BY <2>1, MainFinalSeries
  <2>4. final \in Keys(rounds, format) /\ Place(rounds, final) = rounds
    BY <1>2, <2>1
  <2> HIDE DEF final, third
  <2>5. /\ n[final].winner \in Teams(seeds) /\ n[final].loser \in Teams(seeds) /\ n[final].winner # n[final].loser
        /\ \E s \in Sides : Side(n[final], s) = n[final].winner
        /\ \E s \in Sides : Side(n[final], s) = n[final].loser
    BY <2>2, <2>4, PlayedNode
  <2>6. ASSUME rounds # 1
        PROVE  third \in Teams(seeds) /\ third # n[final].winner /\ third # n[final].loser
    <3> DEFINE bronze == BronzeKey(rounds)
    <3>1. /\ bronze \in Keys(rounds, format) /\ n[bronze].winner # NoEntry
          /\ \A s \in Sides : Side(n[bronze], s) = n[Semifinal(rounds, s)].loser
      BY <1>6, <2>6, BronzeSeries
    <3>2. third = n[bronze].winner
      BY <2>1, <2>6
    <3> HIDE DEF bronze
    <3>3. third \in Teams(seeds) /\ \E s \in Sides : Side(n[bronze], s) = third
      BY <3>1, <3>2, PlayedNode
    <3>4. PICK i \in Sides : n[Semifinal(rounds, i)].loser = third
      BY <3>1, <3>3
    <3>5. i \in 1..2
      BY DEF Sides
    <3> DEFINE semi == Semifinal(rounds, i)
    <3>6. semi \in Keys(rounds, format) /\ Place(rounds, semi) = rounds - 1
      BY <2>6, <3>5, Semifinals
    <3> HIDE DEF semi
    <3>7. semi # final /\ Place(rounds, semi) <= Place(rounds, final) /\ ~(Place(rounds, final) > rounds)
      BY <1>3, <2>4, <3>6
    <3>8. third # NoEntry /\ n[semi].loser = third
      BY <1>4, <3>3, <3>4 DEF semi
    <3>9. ASSUME NEW s \in Sides
          PROVE  Side(n[final], s) # third
      BY <2>4, <3>6, <3>7, <3>8, LostOnce
    <3> QED
      BY <2>5, <3>3, <3>9
  <2>7. rounds = 1 => third = NoEntry
    BY DEF third
  <2> HIDE DEF podium
  <2> QED
    BY <1>1, <2>5, <2>6, <2>7 DEF podium
<1> QED
  BY <1>5, <1>6

-----------------------------------------------------------------------------
(* Seeding *)

LEMMA PowersGrow ==
    ASSUME NEW a \in 0..MaxRounds, NEW b \in 0..MaxRounds, a <= b
    PROVE  2^a <= 2^b
<1>1. a \in {0, 1, 2, 3, 4, 5, 6, 7, 8} /\ b \in {0, 1, 2, 3, 4, 5, 6, 7, 8}
  BY DEF MaxRounds
<1>2. /\ 2^0 = 1 /\ 2^1 = 2 /\ 2^2 = 4 /\ 2^3 = 8 /\ 2^4 = 16 /\ 2^5 = 32 /\ 2^6 = 64 /\ 2^7 = 128
      /\ 2^8 = 256
  OBVIOUS
<1> DEFINE Value(x) == IF x = 0 THEN 1 ELSE IF x = 1 THEN 2 ELSE IF x = 2 THEN 4 ELSE IF x = 3 THEN 8
                       ELSE IF x = 4 THEN 16 ELSE IF x = 5 THEN 32 ELSE IF x = 6 THEN 64
                       ELSE IF x = 7 THEN 128 ELSE 256
<1>3. ASSUME NEW x \in {0, 1, 2, 3, 4, 5, 6, 7, 8}
      PROVE  2^x = Value(x)
  <2>1. CASE x = 0
    BY <1>2, <2>1
  <2>2. CASE x = 1
    BY <1>2, <2>2
  <2>3. CASE x = 2
    BY <1>2, <2>3
  <2>4. CASE x = 3
    BY <1>2, <2>4
  <2>5. CASE x = 4
    BY <1>2, <2>5
  <2>6. CASE x = 5
    BY <1>2, <2>6
  <2>7. CASE x = 6
    BY <1>2, <2>7
  <2>8. CASE x = 7
    BY <1>2, <2>8
  <2>9. CASE x = 8
    BY <1>2, <2>9
  <2> QED
    BY <2>1, <2>2, <2>3, <2>4, <2>5, <2>6, <2>7, <2>8, <2>9
<1>4. Value(a) <= Value(b)
  BY <1>1
<1> HIDE DEF Value
<1> QED
  BY <1>1, <1>3, <1>4

\* The slots of the first round are taken in blocks of q.
Block(q, b, j) == (b - 1)*q < j /\ j <= b*q

LEMMA Blocks ==
    ASSUME NEW q \in Nat, NEW b \in Nat, NEW j \in Nat
    PROVE  /\ Block(2*q, b, 2*j - 1) => Block(q, b, j)
           /\ Block(q, 2*b - 1, j) \/ Block(q, 2*b, j) => Block(2*q, b, j)
           /\ Block(1, b, j) => j = b
<1> DEFINE x == b*q
<1>1. x \in Int
  OBVIOUS
<1>2. /\ (b - 1)*(2*q) = 2*x - 2*q /\ b*(2*q) = 2*x /\ (b - 1)*q = x - q
      /\ ((2*b - 1) - 1)*q = 2*x - 2*q /\ (2*b - 1)*q = 2*x - q /\ (2*b)*q = 2*x
      /\ (b - 1)*1 = b - 1 /\ b*1 = b
  OBVIOUS
<1> HIDE DEF x
<1>3. Block(2*q, b, 2*j - 1) => Block(q, b, j)
  BY <1>1, <1>2 DEF Block
<1>4. Block(q, 2*b - 1, j) => Block(2*q, b, j)
  BY <1>1, <1>2 DEF Block
<1>5. Block(q, 2*b, j) => Block(2*q, b, j)
  BY <1>1, <1>2 DEF Block
<1>6. Block(1, b, j) => j = b
  BY <1>2 DEF Block
<1> QED
  BY <1>3, <1>4, <1>5, <1>6

\* The seeds of the smaller bracket stay in order, and each is followed by a worse one.
LEMMA NextOrder ==
    ASSUME NEW k \in 1..MaxRounds, k # 1, NEW j \in 1..2^k
    PROVE  /\ j % 2 = 1 => Pair(j) \in 1..2^(k - 1) /\ SeedOrder[k][j] = SeedOrder[k - 1][Pair(j)]
           /\ j % 2 # 1 => SeedOrder[k][j] > 2^(k - 1)
<1> DEFINE m == 2^(k - 1)
           before == SeedOrder[k - 1]
           order == SeedOrder[k]
<1>1. k \in Nat \ {0} /\ k - 1 \in 1..MaxRounds /\ k \in 0..MaxRounds /\ k > 0
  BY DEF MaxRounds
<1>2. m \in Nat \ {0} /\ 2^k = 2*m
  BY <1>1, Powers
<1>3. before \in [1..m -> 1..m]
  BY <1>1, SeedOrderPlacesAll
<1>4. order = Followed(before, k)
  BY <1>1, SeedOrderRule
<1>5. order = [i \in 1..(2*m) |-> IF i % 2 = 1 THEN before[(i + 1) \div 2] ELSE 2*m + 1 - before[i \div 2]]
  BY <1>2, <1>4 DEF Followed
<1>6. j \in 1..(2*m)
  BY <1>2
<1> HIDE DEF m, before, order
<1>7. ASSUME j % 2 = 1
      PROVE  Pair(j) \in 1..m /\ order[j] = before[Pair(j)]
  BY <1>2, <1>5, <1>6, <1>7 DEF Pair
<1>8. ASSUME j % 2 # 1
      PROVE  order[j] > m
  <2>1. j \div 2 \in 1..m
    BY <1>2, <1>6, <1>8
  <2> DEFINE x == before[j \div 2]
  <2>2. x \in 1..m
    BY <1>3, <2>1
  <2>3. order[j] = 2*m + 1 - x
    BY <1>5, <1>6, <1>8
  <2> HIDE DEF x
  <2> QED
    BY <1>2, <2>2, <2>3
<1> QED
  BY <1>7, <1>8 DEF m, before, order

\* Who is in the second half of what a node of round r unites is not among the
\* first 2^(rounds - r) seeds.
LEMMA SeedsApart ==
    ASSUME NEW rounds \in 1..MaxRounds, NEW r \in 1..rounds, NEW i \in Nat, NEW j \in 1..2^rounds,
           Block(2^(r - 1), 2*i, j)
    PROVE  SeedOrder[rounds][j] > 2^(rounds - r)
<1> DEFINE Apart(k) == \A q \in 1..k : \A p \in 1..2^k :
                         Block(2^(q - 1), 2*i, p) => SeedOrder[k][p] > 2^(k - q)
           Good == {k \in 0..MaxRounds : k = 0 \/ Apart(k)}
<1>1. MaxRounds \in Nat /\ MaxRounds = 8
  BY DEF MaxRounds
<1>2. ASSUME NEW k \in 0..MaxRounds, \A m \in 0..MaxRounds : m < k => m \in Good
      PROVE  k \in Good
  <2>1. CASE k = 0
    BY <2>1
  <2>2. CASE k # 0
    <3> SUFFICES ASSUME NEW q \in 1..k, NEW p \in 1..2^k, Block(2^(q - 1), 2*i, p)
                 PROVE  SeedOrder[k][p] > 2^(k - q)
      OBVIOUS
    <3> DEFINE order == SeedOrder[k]
    <3>1. k \in 1..MaxRounds /\ k \in Nat /\ q \in Nat /\ k - 1 \in 0..MaxRounds /\ k - 1 < k
      BY <1>1, <2>2
    <3>2. 2^k \in Nat
      BY Powers
    <3>3. p \in Nat
      BY <3>2
    <3>4. CASE k = 1
      <4>1. q = 1 /\ 2^(q - 1) = 1 /\ 2^(k - q) = 1
        BY <3>4
      <4>2. p = 2*i
        BY <3>3, <4>1, Blocks
      <4>3. order = <<1, 2>> /\ p \in 1..2
        BY <3>4, SeedOrderRule
      <4>4. p = 2
        BY <4>2, <4>3
      <4> QED
        BY <4>1, <4>3, <4>4
    <3>5. CASE k # 1 /\ p % 2 # 1
      <4>1. order[p] > 2^(k - 1)
        BY <3>1, <3>5, NextOrder
      <4>2. order[p] \in 1..2^k
        BY <3>1, SeedOrderPlacesAll
      <4>3. k - q \in 0..MaxRounds /\ k - q <= k - 1
        BY <1>1, <3>1
      <4>4. 2^(k - q) <= 2^(k - 1) /\ 2^(k - q) \in Nat /\ 2^(k - 1) \in Nat
        BY <3>1, <4>3, PowersGrow, Powers
      <4> DEFINE x == order[p]
                 a == 2^(k - q)
                 b == 2^(k - 1)
      <4>5. x \in Nat /\ a \in Nat /\ b \in Nat /\ x > b /\ a <= b
        BY <3>2, <4>1, <4>2, <4>4
      <4> HIDE DEF x, a, b
      <4>6. x > a
        BY <4>5
      <4> QED
        BY <4>6 DEF x, a
    <3>6. CASE k # 1 /\ p % 2 = 1
      <4>1. Pair(p) \in 1..2^(k - 1) /\ order[p] = SeedOrder[k - 1][Pair(p)] /\ 2*Pair(p) - 1 = p
        <5>1. Pair(p) \in 1..2^(k - 1) /\ order[p] = SeedOrder[k - 1][Pair(p)]
          BY <3>1, <3>6, NextOrder
        <5>2. 2*Pair(p) - 1 = p
          BY <3>3, <3>6 DEF Pair
        <5> QED
          BY <5>1, <5>2
      <4>2. q # 1
        <5>1. q = 1 => p = 2*i
          <6> SUFFICES ASSUME q = 1 PROVE p = 2*i
            OBVIOUS
          <6>1. 2^(q - 1) = 1
            OBVIOUS
          <6> QED
            BY <3>3, <6>1, Blocks
        <5> QED
          BY <3>6, <5>1
      <4>3. q - 1 \in 1..(k - 1) /\ (k - 1) - (q - 1) = k - q
        BY <3>1, <4>2
      <4> DEFINE w == 2^((q - 1) - 1)
      <4>4. w \in Nat /\ 2^(q - 1) = 2*w
        <5>1. q - 1 \in 0..MaxRounds /\ q - 1 > 0
          BY <1>1, <3>1, <4>3
        <5> QED
          BY <5>1, Powers
      <4>5. Pair(p) \in Nat
        BY <3>3 DEF Pair
      <4>6. Block(w, 2*i, Pair(p))
        <5> HIDE DEF w
        <5>1. Block(2*w, 2*i, 2*Pair(p) - 1)
          BY <4>1, <4>4
        <5>2. 2*i \in Nat
          OBVIOUS
        <5> QED
          BY <4>4, <4>5, <5>1, <5>2, Blocks
      <4>7. Apart(k - 1)
        BY <1>2, <3>1, <3>6
      <4>8. SeedOrder[k - 1][Pair(p)] > 2^((k - 1) - (q - 1))
        BY <4>1, <4>3, <4>6, <4>7
      <4> QED
        BY <4>1, <4>3, <4>8
    <3> QED
      BY <3>4, <3>5, <3>6
  <2> QED
    BY <2>1, <2>2
<1> HIDE DEF Good
<1>3. \A k \in 0..MaxRounds : k \in Good
  BY <1>1, <1>2, Rising
<1>4. rounds \in Good /\ rounds # 0
  BY <1>1, <1>3
<1>5. Apart(rounds)
  BY <1>4 DEF Good
<1> QED
  BY <1>5

\* A node of the main bracket has the winners of the two nodes before it.
MainFeed(key, s) == <<"MAIN", key[2] - 1, Slot(key, s)>>

LEMMA MainBefore ==
    ASSUME NEW rounds \in 1..MaxRounds, NEW format \in Formats, NEW slots, NEW ms, NEW n,
           IsBracket(rounds, format, slots, ms, n),
           NEW r \in 1..rounds, r # 1, NEW key \in MainRound(rounds, r), NEW s \in Sides
    PROVE  /\ r - 1 \in 1..rounds /\ MainFeed(key, s) \in MainRound(rounds, r - 1)
           /\ MainFeed(key, s) \in Keys(rounds, format) /\ MainFeed(key, s)[3] = Slot(key, s)
           /\ Side(n[key], s) = n[MainFeed(key, s)].winner
<1> DEFINE p == <<"MAIN", r - 1, Slot(key, s)>>
<1>1. PICK i \in 1..2^(rounds - r) : key = <<"MAIN", r, i>>
  BY DEF MainRound
<1>2. key[1] = "MAIN" /\ key[2] = r /\ key[3] = i /\ ~Opening(key) /\ key \in Keys(rounds, format)
  BY <1>1, KeysByKind DEF Opening
<1>3. r - 1 \in 1..rounds /\ r > 1 /\ r \in Nat
  BY DEF MaxRounds
<1>4. 2^(rounds - r) \in Nat \ {0} /\ 2^(rounds - (r - 1)) = 2 * 2^(rounds - r)
  BY <1>3, MainSizes
<1>5. Feeds(rounds, key) = <<WinnerOf("MAIN", r - 1, 2*i - 1), WinnerOf("MAIN", r - 1, 2*i)>>
  BY <1>2 DEF Feeds
<1>6. s = 1 \/ s = 2
  BY DEF Sides
<1>7. Feeds(rounds, key)[s].key = p /\ Feeds(rounds, key)[s].result = "winner"
  <2>1. CASE s = 1
    BY <1>2, <1>5, <2>1, FeedParts DEF Slot
  <2>2. CASE s = 2
    BY <1>2, <1>5, <2>2, FeedParts DEF Slot
  <2> QED
    BY <1>6, <2>1, <2>2
<1>8. Slot(key, s) \in 1..2^(rounds - (r - 1))
  BY <1>2, <1>4, <1>6 DEF Slot
<1>9. p \in MainRound(rounds, r - 1)
  BY <1>4, <1>8 DEF MainRound
<1>10. Side(n[key], s) = n[p].winner
  BY <1>2, <1>7, NodeSides
<1>11. p \in Keys(rounds, format) /\ p[3] = Slot(key, s)
  BY <1>3, <1>9, KeysByKind
<1>12. MainFeed(key, s) = p
  BY <1>2 DEF MainFeed
<1> HIDE DEF p
<1> QED
  BY <1>3, <1>9, <1>10, <1>11, <1>12

\* Whoever is at a side of a node of the main bracket has started in its block.
LEMMA MainOrigins ==
    ASSUME NEW rounds \in 1..MaxRounds, NEW format \in Formats, NEW slots, NEW ms, NEW n,
           IsBracket(rounds, format, slots, ms, n)
    PROVE  \A r \in 1..rounds : \A key \in MainRound(rounds, r), s \in Sides :
             Side(n[key], s) # NoEntry =>
               \E j \in 1..2^rounds : slots[j] = Side(n[key], s) /\ Block(2^(r - 1), Slot(key, s), j)
<1> DEFINE From(key, r) == \A s \in Sides : Side(n[key], s) # NoEntry =>
                             \E j \in 1..2^rounds : slots[j] = Side(n[key], s) /\ Block(2^(r - 1), Slot(key, s), j)
           Good == {r \in 0..rounds : r = 0 \/ \A key \in MainRound(rounds, r) : From(key, r)}
<1>1. rounds \in Nat
  BY DEF MaxRounds
<1>2. 2^rounds \in Nat
  <2>1. rounds \in 0..MaxRounds
    BY DEF MaxRounds
  <2> QED
    BY <2>1, Powers
<1>3. ASSUME NEW r \in 0..rounds, \A m \in 0..rounds : m < r => m \in Good
      PROVE  r \in Good
  <2>1. CASE r = 0
    BY <2>1
  <2>2. CASE r # 0
    <3> SUFFICES ASSUME NEW key \in MainRound(rounds, r), NEW s \in Sides, Side(n[key], s) # NoEntry
                 PROVE  \E j \in 1..2^rounds : slots[j] = Side(n[key], s) /\ Block(2^(r - 1), Slot(key, s), j)
      OBVIOUS
    <3> DEFINE b == Slot(key, s)
    <3>1. r \in 1..rounds
      BY <1>1, <2>2
    <3>2. PICK i \in 1..2^(rounds - r) : key = <<"MAIN", r, i>>
      BY DEF MainRound
    <3>3. 2^(rounds - r) \in Nat \ {0}
      BY <3>1, MainSizes
    <3>4. i \in Nat /\ i >= 1 /\ key[1] = "MAIN" /\ key[2] = r /\ key[3] = i /\ (s = 1 \/ s = 2)
      BY <3>2, <3>3 DEF Sides
    <3>5. b \in Nat /\ (b = 2*i - 1 \/ b = 2*i) /\ b >= 1
      BY <3>4 DEF Slot
    <3>6. CASE r = 1
      <4>1. Opening(key) /\ key \in Keys(rounds, format)
        BY <3>1, <3>4, <3>6, KeysByKind DEF Opening
      <4>2. Side(n[key], s) = slots[b]
        BY <4>1, NodeSides
      <4>3. b \in 1..2^rounds
        <5>1. 2^rounds = 2 * 2^(rounds - r)
          <6>1. rounds \in 0..MaxRounds /\ rounds > 0
            BY DEF MaxRounds
          <6> QED
            BY <3>6, <6>1, Powers
        <5> QED
          BY <3>2, <3>3, <3>5, <5>1
      <4>4. 2^(r - 1) = 1
        BY <3>6
      <4>5. Block(2^(r - 1), b, b)
        <5> HIDE DEF b
        <5>1. Block(1, b, b)
          BY <3>5 DEF Block
        <5> QED
          BY <4>4, <5>1
      <4> QED
        BY <4>2, <4>3, <4>5
    <3>7. CASE r # 1
      <4> DEFINE p == MainFeed(key, s)
                 q == 2^((r - 1) - 1)
      <4>1. /\ r - 1 \in 1..rounds /\ p \in MainRound(rounds, r - 1)
            /\ p \in Keys(rounds, format) /\ p[3] = b
            /\ Side(n[key], s) = n[p].winner
        BY <3>1, <3>7, MainBefore
      <4>2. p[3] = b
        BY <4>1
      <4>3. q \in Nat /\ 2^(r - 1) = 2*q
        <5>1. r - 1 \in 0..MaxRounds /\ r - 1 > 0
          BY <4>1 DEF MaxRounds
        <5> QED
          BY <5>1, Powers
      <4> HIDE DEF p, b, q
      <4>4. PICK t \in Sides : Side(n[p], t) = n[p].winner
        BY <4>1, NodeSides, ResultsAreSides
      <4>5. r - 1 \in Good /\ r - 1 # 0
        BY <1>3, <4>1
      <4>6. From(p, r - 1)
        BY <4>1, <4>5
      <4>7. PICK j \in 1..2^rounds : slots[j] = Side(n[p], t) /\ Block(q, Slot(p, t), j)
        <5>1. Side(n[p], t) # NoEntry
          BY <4>1, <4>4
        <5> QED
          BY <4>6, <5>1 DEF q
      <4>8. Slot(p, t) = 2*b - 1 \/ Slot(p, t) = 2*b
        BY <4>2, <4>4 DEF Slot
      <4>9. j \in Nat
        BY <1>2
      <4>10. Block(2*q, b, j)
        <5>1. Block(q, 2*b - 1, j) \/ Block(q, 2*b, j)
          BY <4>7, <4>8
        <5>2. q \in Nat /\ b \in Nat /\ j \in Nat
          BY <3>5, <4>3, <4>9
        <5> QED
          BY <5>1, <5>2, Blocks
      <4>11. slots[j] = Side(n[key], s) /\ Block(2^(r - 1), b, j)
        BY <4>1, <4>3, <4>4, <4>7, <4>10
      <4> QED
        BY <4>11 DEF b
    <3> QED
      BY <3>6, <3>7
  <2> QED
    BY <2>1, <2>2
<1> HIDE DEF Good
<1>4. \A r \in 0..rounds : r \in Good
  BY <1>1, <1>3, Rising
<1>5. ASSUME NEW r \in 1..rounds
      PROVE  \A key \in MainRound(rounds, r) : From(key, r)
  <2>1. r \in Good /\ r # 0
    BY <1>4
  <2> QED
    BY <2>1 DEF Good
<1> QED
  BY <1>5

\* The second side of a node of round r has none of the best 2^(rounds - r) seeds.
LEMMA SecondSides ==
    ASSUME NEW rounds \in 1..MaxRounds, NEW format \in Formats, NEW seeds, Len(seeds) \in Nat, Distinct(seeds),
           NEW ms, NEW n, IsBracket(rounds, format, Slots(rounds, seeds), ms, n),
           NEW r \in 1..rounds, NEW key \in MainRound(rounds, r), Side(n[key], 2) # NoEntry
    PROVE  /\ \E x \in 1..Len(seeds) : seeds[x] = Side(n[key], 2)
           /\ \A x \in 1..Len(seeds) : seeds[x] = Side(n[key], 2) => x > 2^(rounds - r)
<1> DEFINE order == SeedOrder[rounds]
<1>1. PICK i \in 1..2^(rounds - r) : key = <<"MAIN", r, i>>
  BY DEF MainRound
<1>2. 2^(rounds - r) \in Nat \ {0}
  BY MainSizes
<1>3. i \in Nat /\ Slot(key, 2) = 2*i /\ 2 \in Sides
  BY <1>1, <1>2 DEF Slot, Sides
<1>4. PICK j \in 1..2^rounds : Slots(rounds, seeds)[j] = Side(n[key], 2) /\ Block(2^(r - 1), Slot(key, 2), j)
  BY <1>3, MainOrigins
<1>5. order[j] > 2^(rounds - r)
  BY <1>3, <1>4, SeedsApart
<1>6. order[j] \in 1..2^rounds
  BY SeedOrderPlacesAll
<1>7. Slots(rounds, seeds)[j] = SlotSeed(order, seeds, j)
  BY SlotsAre
<1> DEFINE y == order[j]
<1>8. 2^rounds \in Nat
  BY Powers DEF MaxRounds
<1>9. y \in Nat /\ y >= 1
  BY <1>6, <1>8
<1>10. y <= Len(seeds) /\ seeds[y] = Side(n[key], 2)
  BY <1>4, <1>7 DEF SlotSeed
<1> HIDE DEF y
<1>11. y \in 1..Len(seeds)
  BY <1>9, <1>10
<1>12. ASSUME NEW x \in 1..Len(seeds), seeds[x] = Side(n[key], 2)
       PROVE  x > 2^(rounds - r)
  <2>1. x = y
    BY <1>10, <1>11, <1>12 DEF Distinct
  <2> QED
    BY <1>5, <2>1 DEF y
<1> QED
  BY <1>10, <1>11, <1>12

\* Whoever drops into the second lower round does not meet there somebody it has beaten before.
LEMMA NoRematch ==
    ASSUME NEW rounds \in 1..MaxRounds, rounds > 2, NEW format \in Formats, format = "DOUBLE_ELIMINATION",
           NEW slots, NEW ms, NEW n, IsBracket(rounds, format, slots, ms, n), DistinctSlots(rounds, slots),
           NEW key \in LowerRound(rounds, 2), NEW m \in Keys(rounds, format), m[1] = "MAIN",
           NEW x, x = Side(n[key], 1), x # NoEntry, NEW y, y = Side(n[key], 2), y # NoEntry,
           NEW sx \in Sides, Side(n[m], sx) = x, NEW sy \in Sides, Side(n[m], sy) = y
    PROVE  FALSE
<1> DEFINE size == LowerRoundSize(rounds, 2)
<1>1. rounds \in Nat /\ 1 \in 1..2*(rounds - 1) /\ 2 \in 1..2*(rounds - 1) /\ 2 % 2 # 1
  BY DEF MaxRounds
<1>2. size \in Nat \ {0} /\ LowerRoundSize(rounds, 1) = size /\ size # 1
  <2>1. rounds - 2 \in 0..MaxRounds /\ rounds - 2 > 0 /\ (rounds - 2) - 1 \in 0..MaxRounds
    BY DEF MaxRounds
  <2> DEFINE h == 2^((rounds - 2) - 1)
  <2>2. h \in Nat /\ 2^(rounds - 2) = 2*h
    BY <2>1, Powers
  <2>3. size = 2^(rounds - 2) /\ LowerRoundSize(rounds, 1) = 2^(rounds - 2)
    <3>1. rounds - 2 - (2 - 1) \div 2 = rounds - 2 /\ rounds - 2 - (1 - 1) \div 2 = rounds - 2
      BY <1>1
    <3> QED
      BY <3>1 DEF LowerRoundSize
  <2>4. size \in Nat \ {0}
    BY <1>1, LowerSizes
  <2> HIDE DEF h, size
  <2>5. size # 1
    BY <2>2, <2>3
  <2> QED
    BY <2>3, <2>4, <2>5
<1>3. PICK i \in 1..size : key = <<"LOWER", 2, i>>
  BY DEF LowerRound
<1> DEFINE c == Crossed(i, size)
           drop == <<"MAIN", 2, c>>
           q == <<"LOWER", 1, i>>
<1>4. /\ x = n[q].winner /\ y = n[drop].loser /\ 2 \in 2..rounds /\ drop \in MainRound(rounds, 2)
  <2>1. 2 \div 2 + 1 = 2 /\ 2 - 1 = 1
    OBVIOUS
  <2>2. /\ Side(n[<<"LOWER", 2, i>>], 1) = n[<<"LOWER", 2 - 1, i>>].winner
        /\ Side(n[<<"LOWER", 2, i>>], 2) = n[<<"MAIN", 2 \div 2 + 1, Crossed(i, LowerRoundSize(rounds, 2))>>].loser
        /\ 2 \div 2 + 1 \in 2..rounds
        /\ <<"MAIN", 2 \div 2 + 1, Crossed(i, LowerRoundSize(rounds, 2))>> \in MainRound(rounds, 2 \div 2 + 1)
    BY <1>1, <1>3, DropInSides
  <2> QED
    BY <1>3, <2>1, <2>2
<1>5. /\ q \in Keys(rounds, format)
      /\ Side(n[q], 1) = n[<<"MAIN", 1, 2*i - 1>>].loser
      /\ Side(n[q], 2) = n[<<"MAIN", 1, 2*i>>].loser
  <2>1. i \in 1..LowerRoundSize(rounds, 1) /\ rounds # 1
    BY <1>1, <1>2, <1>3
  <2> QED
    BY <2>1, FirstLowerSides
<1>6. i \in Nat /\ i >= 1 /\ i <= size
  BY <1>2, <1>3
<1>7. c \in Nat /\ c # i
  <2> HIDE DEF size
  <2> QED
    BY <1>2, <1>6 DEF Crossed
<1> DEFINE a == 2*i - 1
           b == 2*i
<1> HIDE DEF size, c
<1>8. PICK p \in {a, b} : n[<<"MAIN", 1, p>>].loser = x
  <2>1. NodeSays(ms, q, n[q])
    BY <1>5, NodeSides
  <2> HIDE DEF q
  <2>2. PICK t \in Sides : x = Side(n[q], t)
    BY <1>4, <2>1, ResultsAreSides
  <2>3. t = 1 \/ t = 2
    BY DEF Sides
  <2> QED
    BY <1>5, <2>2, <2>3
<1> DEFINE k == <<"MAIN", 1, p>>
<1>9. k \in MainRound(rounds, 1) /\ k \in Keys(rounds, format) /\ Place(rounds, k) = 1
  <2>1. 2^(rounds - 1) = 2 * size
    BY <1>1, <1>2, LowerSizes
  <2> DEFINE w == 2^(rounds - 1)
  <2> HIDE DEF w
  <2>2. w = 2 * size
    BY <2>1 DEF w
  <2>3. p \in 1..w
    BY <1>2, <1>6, <2>2
  <2>4. k \in MainRound(rounds, 1)
    BY <2>3 DEF MainRound, w
  <2>5. 1 \in 1..rounds
    BY <1>1
  <2> QED
    BY <2>4, <2>5, KeysByKind DEF Place
<1>10. m = k
  <2>1. Place(rounds, m) = m[2] /\ m[2] \in 1..rounds
    BY MainKeys
  <2>2. Place(rounds, k) <= Place(rounds, m) /\ ~(Place(rounds, m) > rounds)
    BY <1>1, <1>9, <2>1
  <2> HIDE DEF k
  <2>3. n[k].loser = x
    BY <1>8 DEF k
  <2> QED
    BY <1>9, <2>2, <2>3, LosersLeave
<1>11. p \in Nat /\ (p = 2*i - 1 \/ p = 2*i)
  BY <1>6
<1> HIDE DEF k
<1>12. PICK j \in 1..2^rounds : slots[j] = y /\ Block(1, Slot(k, sy), j)
  <2>1. ASSUME NEW r \in 1..rounds, r = 1, NEW o \in MainRound(rounds, r), Side(n[o], sy) = y
        PROVE  \E j \in 1..2^rounds : slots[j] = y /\ Block(1, Slot(o, sy), j)
    <3>1. \E j \in 1..2^rounds : slots[j] = Side(n[o], sy) /\ Block(2^(r - 1), Slot(o, sy), j)
      <4>1. \A l \in 1..rounds : \A u \in MainRound(rounds, l), s \in Sides :
              Side(n[u], s) # NoEntry =>
                \E g \in 1..2^rounds : slots[g] = Side(n[u], s) /\ Block(2^(l - 1), Slot(u, s), g)
        BY MainOrigins
      <4>2. Side(n[o], sy) # NoEntry
        BY <2>1
      <4> QED
        BY <4>1, <4>2, Zenon
    <3>2. 2^(r - 1) = 1
      BY <2>1
    <3> QED
      BY <2>1, <3>1, <3>2
  <2>2. 1 \in 1..rounds /\ Side(n[k], sy) = y
    BY <1>1, <1>10
  <2> QED
    BY <1>9, <2>1, <2>2
<1>13. PICK t \in Sides : Side(n[drop], t) = y
  <2>1. 2 \in 1..rounds
    BY <1>4
  <2>2. drop \in Keys(rounds, format)
    BY <1>4, <2>1, KeysByKind
  <2>3. NodeSays(ms, drop, n[drop])
    BY <2>2, NodeSides
  <2> HIDE DEF drop
  <2> QED
    BY <1>4, <2>3, ResultsAreSides
<1>14. PICK h \in 1..2^rounds : slots[h] = y /\ Block(2, Slot(drop, t), h)
  <2>1. ASSUME NEW r \in 1..rounds, r = 2, NEW o \in MainRound(rounds, r), Side(n[o], t) = y
        PROVE  \E h \in 1..2^rounds : slots[h] = y /\ Block(2, Slot(o, t), h)
    <3>1. \E h \in 1..2^rounds : slots[h] = Side(n[o], t) /\ Block(2^(r - 1), Slot(o, t), h)
      <4>1. \A l \in 1..rounds : \A u \in MainRound(rounds, l), s \in Sides :
              Side(n[u], s) # NoEntry =>
                \E g \in 1..2^rounds : slots[g] = Side(n[u], s) /\ Block(2^(l - 1), Slot(u, s), g)
        BY MainOrigins
      <4>2. Side(n[o], t) # NoEntry
        BY <2>1
      <4> QED
        BY <4>1, <4>2, Zenon
    <3>2. 2^(r - 1) = 2
      BY <2>1
    <3> QED
      BY <2>1, <3>1, <3>2
  <2>2. 2 \in 1..rounds
    BY <1>4
  <2> HIDE DEF drop
  <2> QED
    BY <1>4, <1>13, <2>1, <2>2
<1>15. h = j
  BY <1>12, <1>14 DEF DistinctSlots
<1>16. j \in Nat
  <2>1. rounds \in 0..MaxRounds
    BY DEF MaxRounds
  <2>2. 2^rounds \in Nat
    BY <2>1, Powers
  <2> QED
    BY <2>2
<1>17. (Slot(k, sy) = 2*p - 1 \/ Slot(k, sy) = 2*p) /\ (Slot(drop, t) = 2*c - 1 \/ Slot(drop, t) = 2*c)
  <2>1. k[3] = p /\ drop[3] = c
    BY DEF k
  <2> HIDE DEF drop
  <2> QED
    BY <2>1 DEF Slot
<1> HIDE DEF drop, q, a, b
<1>18. j = Slot(k, sy)
  <2>1. Slot(k, sy) \in Nat
    BY <1>6, <1>11, <1>17
  <2> QED
    BY <1>12, <1>16, <2>1, Blocks
<1>19. (Slot(drop, t) - 1)*2 < j /\ j <= Slot(drop, t)*2
  BY <1>14, <1>15 DEF Block
<1>20. c = i
  BY <1>6, <1>7, <1>11, <1>17, <1>18, <1>19
<1> QED
  BY <1>7, <1>20

-----------------------------------------------------------------------------
(* When the better seed wins every series *)

\* The better seed wins.
Favoured(rounds, format, seeds, n) ==
    \A k \in Keys(rounds, format), i \in 1..Len(seeds), j \in 1..Len(seeds) :
      n[k].winner = seeds[i] /\ n[k].loser = seeds[j] => i < j

\* A favourite loses to a better one.
LEMMA BeatenByBetter ==
    ASSUME NEW rounds \in 1..MaxRounds, NEW format \in Formats, NEW seeds, NEW ms, NEW n,
           Played(rounds, format, seeds, ms, n), Favoured(rounds, format, seeds, n),
           NEW k \in Keys(rounds, format), NEW i \in 1..Len(seeds), n[k].loser = seeds[i]
    PROVE  \E h \in 1..Len(seeds) : h < i /\ n[k].winner = seeds[h]
<1>1. seeds[i] # NoEntry
  BY DEF Played, Teams
<1>2. k \in DOMAIN ms
  BY <1>1, PlayedNode
<1>3. n[k].winner # NoEntry /\ n[k].winner \in Teams(seeds) \cup {NoEntry}
  BY <1>2, PlayedNode
<1>4. PICK h \in 1..Len(seeds) : n[k].winner = seeds[h]
  BY <1>3 DEF Teams
<1> QED
  BY <1>4 DEF Favoured

\* Nobody meets itself.
LEMMA TwoTeams ==
    ASSUME NEW rounds \in 1..MaxRounds, NEW format \in Formats, NEW seeds, NEW ms, NEW n,
           Played(rounds, format, seeds, ms, n), NEW k \in Keys(rounds, format),
           Side(n[k], 1) # NoEntry
    PROVE  Side(n[k], 1) # Side(n[k], 2)
<1> SUFFICES ASSUME Side(n[k], 1) = Side(n[k], 2)
             PROVE  FALSE
  OBVIOUS
<1>1. Side(n[k], 2) # NoEntry
  OBVIOUS
<1>2. n[k].winner # NoEntry /\ n[k].loser # NoEntry
  BY <1>1, KnownSides
<1>3. n[k].winner # n[k].loser
  BY <1>2, PlayedNode
<1>4. (\E s \in Sides : Side(n[k], s) = n[k].winner) /\ (\E s \in Sides : Side(n[k], s) = n[k].loser)
  BY <1>2, PlayedNode
<1>5. \A s \in Sides : Side(n[k], s) = Side(n[k], 1)
  BY DEF Sides
<1> QED
  BY <1>3, <1>4, <1>5

\* One of the best of a round of the main bracket wins every series up to it.
LEMMA BestWin ==
    ASSUME NEW rounds \in 1..MaxRounds, NEW format \in Formats, NEW seeds, NEW ms, NEW n,
           Played(rounds, format, seeds, ms, n), Favoured(rounds, format, seeds, n),
           NEW r \in 1..rounds, NEW i \in 1..Len(seeds), i <= 2^(rounds - r),
           NEW key \in MainRound(rounds, r), NEW s \in Sides, Side(n[key], s) = seeds[i]
    PROVE  n[key].winner = seeds[i]
<1>1. key \in Keys(rounds, format)
  BY KeysByKind
<1>2. seeds[i] # NoEntry
  BY DEF Played, Teams
<1>3. n[key].winner = seeds[i] \/ n[key].loser = seeds[i]
  BY <1>1, <1>2, PlayedNode
<1> SUFFICES ASSUME n[key].loser = seeds[i]
             PROVE  FALSE
  BY <1>3
<1>4. PICK h \in 1..Len(seeds) : h < i /\ n[key].winner = seeds[h]
  BY <1>1, BeatenByBetter
<1>5. seeds[h] # NoEntry
  BY DEF Played, Teams
<1>6. PICK t \in Sides : Side(n[key], t) = seeds[h]
  BY <1>1, <1>4, <1>5, PlayedNode
<1>7. PICK u \in Sides : Side(n[key], u) = seeds[i]
  OBVIOUS
<1>8. seeds[h] # seeds[i]
  BY <1>4 DEF Played, Distinct
<1>9. (t = 1 \/ t = 2) /\ (u = 1 \/ u = 2)
  BY DEF Sides
<1>10. Side(n[key], 2) = seeds[h] \/ Side(n[key], 2) = seeds[i]
  BY <1>6, <1>7, <1>8, <1>9
<1>11. Side(n[key], 2) # NoEntry
  BY <1>2, <1>5, <1>10
<1>12. \A x \in 1..Len(seeds) : seeds[x] = Side(n[key], 2) => x > 2^(rounds - r)
  <2>1. Len(seeds) \in Nat /\ Distinct(seeds) /\ IsBracket(rounds, format, Slots(rounds, seeds), ms, n)
    BY DEF Played
  <2> QED
    BY <1>11, <2>1, SecondSides
<1>13. 2^(rounds - r) \in Nat
  BY MainSizes
<1> DEFINE w == 2^(rounds - r)
<1> HIDE DEF w
<1>14. w \in Nat /\ i <= w
  BY <1>13 DEF w
<1>15. i > w \/ h > w
  BY <1>10, <1>12 DEF w
<1> QED
  BY <1>4, <1>14, <1>15

\* ... and is in it.
LEMMA BestReach ==
    ASSUME NEW rounds \in 1..MaxRounds, NEW format \in Formats, NEW seeds, NEW ms, NEW n,
           Played(rounds, format, seeds, ms, n), Favoured(rounds, format, seeds, n),
           NEW i \in 1..Len(seeds)
    PROVE  \A r \in 1..rounds : i <= 2 * 2^(rounds - r) =>
             \E key \in MainRound(rounds, r), s \in Sides : Side(n[key], s) = seeds[i]
<1> DEFINE There(r) == \E key \in MainRound(rounds, r), s \in Sides : Side(n[key], s) = seeds[i]
           Good == {r \in 0..rounds : r = 0 \/ (i <= 2 * 2^(rounds - r) => There(r))}
<1>1. rounds \in Nat /\ i \in Nat
  BY DEF MaxRounds, Played
<1>2. ASSUME NEW r \in 0..rounds, \A m \in 0..rounds : m < r => m \in Good
      PROVE  r \in Good
  <2>1. CASE r = 0
    BY <2>1
  <2>2. CASE r = 1
    <3>1. seeds[i] \in Teams(seeds)
      BY DEF Teams
    <3>2. \E key \in Keys(rounds, format), s \in Sides : key \in MainRound(rounds, 1) /\ Side(n[key], s) = seeds[i]
      BY <3>1, TeamsStart
    <3>3. There(1)
      BY <3>2
    <3> QED
      BY <2>2, <3>3
  <2>3. CASE r # 0 /\ r # 1
    <3> SUFFICES ASSUME i <= 2 * 2^(rounds - r)
                 PROVE  There(r)
      OBVIOUS
    <3> DEFINE q == r - 1
    <3>1. r \in 1..rounds /\ r > 1 /\ q \in 1..rounds /\ q \in 0..rounds /\ q < r /\ q # 0 /\ q # rounds /\ q + 1 = r
      BY <1>1, <2>3
    <3>2. 2^(rounds - q) = 2 * 2^(rounds - r) /\ 2^(rounds - r) \in Nat
      BY <3>1, MainSizes
    <3> HIDE DEF q
    <3>3. i <= 2^(rounds - q) /\ i <= 2 * 2^(rounds - q)
      <4> DEFINE w == 2^(rounds - r)
                 v == 2^(rounds - q)
      <4> HIDE DEF w, v
      <4>1. v = 2*w /\ w \in Nat /\ i <= 2*w
        BY <3>2 DEF w, v
      <4>2. i <= v /\ i <= 2*v
        BY <1>1, <4>1
      <4> QED
        BY <4>2 DEF v
    <3>4. q \in Good
      BY <1>2, <3>1
    <3>5. There(q)
      BY <3>1, <3>3, <3>4
    <3>6. PICK key \in MainRound(rounds, q), s \in Sides : Side(n[key], s) = seeds[i]
      BY <3>5
    <3>7. n[key].winner = seeds[i]
      BY <3>1, <3>3, <3>6, BestWin
    <3>8. PICK c \in Keys(rounds, format), t \in 1..2 :
            c \in MainRound(rounds, q + 1) /\ FedBy(rounds, key, "winner", c, t)
      BY <3>1, MainFedOn
    <3>9. t \in Sides /\ Side(n[c], t) = n[key]["winner"]
      BY <3>8, GoesOn DEF Played
    <3> QED
      BY <3>1, <3>7, <3>8, <3>9
  <2> QED
    BY <2>1, <2>2, <2>3
<1> HIDE DEF Good
<1>3. \A r \in 0..rounds : r \in Good
  BY <1>1, <1>2, Rising
<1>4. ASSUME NEW r \in 1..rounds, i <= 2 * 2^(rounds - r)
      PROVE  There(r)
  <2>1. r \in Good /\ r # 0
    BY <1>3
  <2> QED
    BY <1>4, <2>1 DEF Good
<1> QED
  BY <1>4

\* The best two are in the last node of the main bracket, and the best wins it.
LEMMA BestTwoMeet ==
    ASSUME NEW rounds \in 1..MaxRounds, NEW format \in Formats, NEW seeds, NEW ms, NEW n,
           Played(rounds, format, seeds, ms, n), Favoured(rounds, format, seeds, n),
           NEW a \in 1..Len(seeds), a = 1, NEW b \in 1..Len(seeds), b = 2
    PROVE  n[MainFinal(rounds)].winner = seeds[a] /\ n[MainFinal(rounds)].loser = seeds[b]
<1> DEFINE final == MainFinal(rounds)
           w == 2^(rounds - rounds)
<1>1. rounds \in 1..rounds
  BY DEF MaxRounds
<1>2. w = 1
  BY <1>1, MainSizes
<1>3. /\ final \in Keys(rounds, format) /\ final \in MainRound(rounds, rounds)
      /\ \A key \in MainRound(rounds, rounds) : key = final
  BY MainKeys
<1>4. ASSUME NEW i \in 1..Len(seeds), i <= 2
      PROVE  \E s \in Sides : Side(n[final], s) = seeds[i]
  <2>1. \A r \in 1..rounds : i <= 2 * 2^(rounds - r) =>
             \E key \in MainRound(rounds, r), s \in Sides : Side(n[key], s) = seeds[i]
    BY BestReach
  <2>2. i <= 2 * w => \E key \in MainRound(rounds, rounds), s \in Sides : Side(n[key], s) = seeds[i]
    BY <1>1, <2>1
  <2>3. i <= 2 * w
    <3> HIDE DEF w
    <3> QED
      BY <1>2, <1>4
  <2> QED
    BY <1>3, <2>2, <2>3
<1> HIDE DEF final
<1>5. PICK s \in Sides : Side(n[final], s) = seeds[a]
  BY <1>4
<1>6. n[final].winner = seeds[a]
  <2>1. ASSUME NEW r \in 1..rounds, r = rounds
        PROVE  n[final].winner = seeds[a]
    <3>1. a <= 2^(rounds - r)
      BY <1>2, <2>1 DEF w
    <3>2. final \in MainRound(rounds, r)
      BY <1>3, <2>1
    <3> QED
      BY <1>5, <3>1, <3>2, BestWin
  <2> QED
    BY <1>1, <2>1
<1>7. PICK t \in Sides : Side(n[final], t) = seeds[b]
  BY <1>4
<1>8. seeds[b] # NoEntry /\ seeds[b] # seeds[a]
  BY DEF Played, Teams, Distinct
<1>9. n[final].winner = seeds[b] \/ n[final].loser = seeds[b]
  BY <1>3, <1>7, <1>8, PlayedNode
<1> QED
  BY <1>6, <1>8, <1>9 DEF final

\* When the best two meet the best wins.
LEMMA BestOfTwo ==
    ASSUME NEW rounds \in 1..MaxRounds, NEW format \in Formats, NEW seeds, NEW ms, NEW n,
           Played(rounds, format, seeds, ms, n), Favoured(rounds, format, seeds, n),
           NEW a \in 1..Len(seeds), a = 1, NEW b \in 1..Len(seeds), b = 2,
           NEW k \in Keys(rounds, format), NEW s \in Sides, Side(n[k], s) = seeds[a],
           NEW t \in Sides, Side(n[k], t) = seeds[b]
    PROVE  n[k].winner = seeds[a] /\ n[k].loser = seeds[b]
<1>1. seeds[a] # NoEntry /\ seeds[b] # NoEntry /\ seeds[b] # seeds[a]
  BY DEF Played, Teams, Distinct
<1>2. n[k].winner = seeds[a] \/ n[k].loser = seeds[a]
  BY <1>1, PlayedNode
<1>3. n[k].winner = seeds[b] \/ n[k].loser = seeds[b]
  BY <1>1, PlayedNode
<1>4. n[k].loser # seeds[a]
  <2> SUFFICES ASSUME n[k].loser = seeds[a]
               PROVE  FALSE
    OBVIOUS
  <2>1. PICK h \in 1..Len(seeds) : h < a
    BY BeatenByBetter
  <2> QED
    BY <2>1 DEF Played
<1> QED
  BY <1>1, <1>2, <1>3, <1>4

\* Double elimination: who has played the last node of the main bracket is not
\* seen again before the lower final.
LEMMA FinalistsWait ==
    ASSUME NEW rounds \in 1..MaxRounds, rounds # 1, NEW format \in Formats, format = "DOUBLE_ELIMINATION",
           NEW seeds, NEW ms, NEW n, Played(rounds, format, seeds, ms, n),
           NEW e, e # NoEntry, NEW s \in Sides, Side(n[MainFinal(rounds)], s) = e,
           NEW k \in Keys(rounds, format), k[1] # "MAIN", NEW t \in Sides, Side(n[k], t) = e
    PROVE  Place(rounds, k) >= 3*rounds - 2
<1> DEFINE final == MainFinal(rounds)
<1>1. final \in Keys(rounds, format) /\ final[1] = "MAIN" /\ final[2] = rounds /\ Place(rounds, final) = rounds
  BY MainKeys DEF MainFinal
<1>2. rounds \in Nat /\ rounds > 1
  BY DEF MaxRounds
<1>3. Place(rounds, k) > rounds /\ Place(rounds, k) \in Int
  <2>1. Place(rounds, k) \in Int
    BY KeysByPlace
  <2>2. \/ \E q \in 1..2*(rounds - 1) : k \in LowerRound(rounds, q)
        \/ k = GrandFinalKey
    <3>1. \/ \E r \in 1..rounds : k \in MainRound(rounds, r)
          \/ \E q \in 1..2*(rounds - 1) : k \in LowerRound(rounds, q)
          \/ k = GrandFinalKey
      BY KeysByKind
    <3> QED
      BY <3>1 DEF MainRound
  <2>3. CASE \E q \in 1..2*(rounds - 1) : k \in LowerRound(rounds, q)
    <3>1. PICK q \in 1..2*(rounds - 1) : k \in LowerRound(rounds, q)
      BY <2>3
    <3>2. k[1] = "LOWER" /\ k[2] = q
      BY <3>1 DEF LowerRound
    <3> QED
      BY <1>2, <2>1, <3>2 DEF Place
  <2>4. CASE k = GrandFinalKey
    BY <1>2, <2>1, <2>4 DEF Place, GrandFinalKey
  <2> QED
    BY <2>2, <2>3, <2>4
<1> HIDE DEF final
<1>4. Place(rounds, final) <= Place(rounds, k) /\ final # k
  BY <1>1, <1>2, <1>3
<1>5. Threaded(rounds, format, n, e, k)
  BY PlayedThreads
<1>6. Precedes(rounds, format, n, e, final, k)
  <2>1. Side(n[final], s) = e
    BY DEF final
  <2>2. <<final, s>> # <<k, t>>
    BY <1>4
  <2> QED
    BY <1>1, <1>4, <1>5, <2>1, <2>2 DEF Threaded
<1>7. PICK c \in Keys(rounds, format), u \in Sides :
        Takes(rounds, n, e, final, c, u) /\ Place(rounds, c) <= Place(rounds, k)
  BY <1>6 DEF Precedes
<1> DEFINE f == Feeds(rounds, c)[u]
<1>8. FeedFits(rounds, format, c, u, f) /\ f.key = final
  BY <1>7, FeedsFit DEF Takes, Sides
<1> HIDE DEF f
<1>9. f.result \in {"winner", "loser"} /\ Taker(rounds, format, f) = <<c, u>>
  BY <1>8 DEF FeedFits
<1>10. Place(rounds, c) >= 3*rounds - 2
  <2>1. CASE f.result = "winner"
    <3>1. c = GrandFinalKey
      BY <1>1, <1>8, <1>9, <2>1 DEF Taker
    <3> QED
      BY <1>2, <3>1 DEF Place, GrandFinalKey
  <2>2. CASE f.result = "loser"
    <3> DEFINE q == 2*rounds - 2
               i == Crossed(final[3], LowerRoundSize(rounds, q))
    <3>1. f.key[1] = "MAIN" /\ f.key[2] = rounds /\ f.key[3] = final[3] /\ f.result # "winner"
      BY <1>1, <1>8, <2>2
    <3>2. Taker(rounds, format, f) = <<<<"LOWER", q, i>>, 2>>
      BY <3>1 DEF Taker
    <3> HIDE DEF q, i
    <3>3. c = <<"LOWER", q, i>>
      BY <1>9, <3>2
    <3>4. c[1] = "LOWER" /\ c[2] = 2*rounds - 2
      BY <3>3 DEF q
    <3> QED
      BY <1>2, <3>4 DEF Place
  <2> QED
    BY <1>9, <2>1, <2>2
<1>11. Place(rounds, c) \in Int
  BY KeysByPlace
<1> QED
  BY <1>2, <1>3, <1>7, <1>10, <1>11

\* Who is third is not in the last node of the main bracket.
LEMMA NotAFinalist ==
    ASSUME NEW rounds \in 1..MaxRounds, NEW format \in Formats, NEW seeds, NEW ms, NEW n,
           Played(rounds, format, seeds, ms, n), Favoured(rounds, format, seeds, n),
           NEW a \in 1..Len(seeds), a = 1, NEW b \in 1..Len(seeds), b = 2, NEW c \in 1..Len(seeds), c = 3,
           NEW s \in Sides
    PROVE  Side(n[MainFinal(rounds)], s) # seeds[c]
<1> SUFFICES ASSUME Side(n[MainFinal(rounds)], s) = seeds[c]
             PROVE  FALSE
  OBVIOUS
<1>1. n[MainFinal(rounds)].winner = seeds[a] /\ n[MainFinal(rounds)].loser = seeds[b]
  BY BestTwoMeet
<1>2. MainFinal(rounds) \in Keys(rounds, format)
  BY MainKeys
<1>3. seeds[c] # NoEntry /\ seeds[c] # seeds[a] /\ seeds[c] # seeds[b]
  BY DEF Played, Teams, Distinct
<1> DEFINE final == MainFinal(rounds)
<1> HIDE DEF final
<1>4. final \in Keys(rounds, format) /\ Side(n[final], s) # NoEntry
  BY <1>2, <1>3 DEF final
<1>5. Side(n[final], s) = n[final].winner \/ Side(n[final], s) = n[final].loser
  BY <1>4, PlayedNode
<1> QED
  BY <1>1, <1>3, <1>5 DEF final

\* Single elimination: the third seed loses its semifinal and wins the match for the third place.
LEMMA ThirdWinsBronze ==
    ASSUME NEW rounds \in 1..MaxRounds, rounds # 1, NEW format \in Formats, format # "DOUBLE_ELIMINATION",
           NEW seeds, NEW ms, NEW n, Played(rounds, format, seeds, ms, n), Favoured(rounds, format, seeds, n),
           NEW a \in 1..Len(seeds), a = 1, NEW b \in 1..Len(seeds), b = 2, NEW c \in 1..Len(seeds), c = 3
    PROVE  n[BronzeKey(rounds)].winner = seeds[c]
<1> DEFINE r == rounds - 1
           bronze == BronzeKey(rounds)
<1>1. r \in 1..rounds /\ r # rounds /\ r + 1 = rounds
  BY DEF MaxRounds
<1>2. 2^(rounds - r) = 2
  BY <1>1
<1>3. \E key \in MainRound(rounds, r), s \in Sides : Side(n[key], s) = seeds[c]
  <2> HIDE DEF r
  <2>1. c <= 2 * 2^(rounds - r)
    BY <1>2
  <2> QED
    BY <1>1, <2>1, BestReach
<1>4. PICK i \in 1..2, s \in Sides : Side(n[Semifinal(rounds, i)], s) = seeds[c]
  <2>1. \A key \in MainRound(rounds, r) : \E i \in 1..2 : key = Semifinal(rounds, i)
    BY <1>2 DEF MainRound, Semifinal
  <2> QED
    BY <1>3, <2>1
<1> DEFINE semi == Semifinal(rounds, i)
<1>5. semi \in Keys(rounds, format) /\ semi \in MainRound(rounds, r)
  BY Semifinals
<1> HIDE DEF semi, bronze, r
<1>6. seeds[c] # NoEntry /\ seeds[c] # seeds[a] /\ seeds[c] # seeds[b]
  BY DEF Played, Teams, Distinct
<1>7. n[semi].winner # seeds[c]
  <2> SUFFICES ASSUME n[semi].winner = seeds[c]
               PROVE  FALSE
    OBVIOUS
  <2>1. PICK f \in Keys(rounds, format), t \in 1..2 :
          f \in MainRound(rounds, r + 1) /\ FedBy(rounds, semi, "winner", f, t)
    BY <1>1, <1>5, MainFedOn
  <2>2. t \in Sides /\ Side(n[f], t) = n[semi]["winner"]
    BY <2>1, GoesOn DEF Played
  <2>3. f = MainFinal(rounds)
    BY <1>1, <2>1, MainKeys
  <2>4. Side(n[MainFinal(rounds)], t) # seeds[c]
    BY <2>2, NotAFinalist
  <2> QED
    BY <2>2, <2>3, <2>4
<1>8. n[semi].loser = seeds[c]
  <2>1. Side(n[semi], s) = seeds[c]
    BY <1>4 DEF semi
  <2> QED
    BY <1>5, <1>6, <1>7, <2>1, PlayedNode
<1>9. /\ bronze \in Keys(rounds, format)
      /\ \A u \in Sides : Side(n[bronze], u) = n[Semifinal(rounds, u)].loser
  BY BronzeSeries DEF bronze
<1>10. i \in Sides /\ Side(n[bronze], i) = seeds[c]
  BY <1>8, <1>9 DEF Sides, semi
<1>11. n[bronze].winner = seeds[c] \/ n[bronze].loser = seeds[c]
  BY <1>6, <1>9, <1>10, PlayedNode
<1>12. n[bronze].loser # seeds[c]
  <2> SUFFICES ASSUME n[bronze].loser = seeds[c]
               PROVE  FALSE
    OBVIOUS
  <2>1. PICK h \in 1..Len(seeds) : h < c /\ n[bronze].winner = seeds[h]
    BY <1>9, BeatenByBetter
  <2>2. h = a \/ h = b
    BY <2>1 DEF Played
  <2>3. n[MainFinal(rounds)].winner = seeds[a] /\ n[MainFinal(rounds)].loser = seeds[b]
    BY BestTwoMeet
  <2> DEFINE podium == Podium(rounds, n, format)
  <2>4. /\ podium[1] = n[MainFinal(rounds)].winner /\ podium[2] = n[MainFinal(rounds)].loser
        /\ podium[3] = n[bronze].winner
    BY DEF Podium, MainFinal, bronze
  <2>5. podium[3] # podium[1] /\ podium[3] # podium[2]
    BY PodiumPlaces
  <2> HIDE DEF podium
  <2> QED
    BY <2>1, <2>2, <2>3, <2>4, <2>5
<1> QED
  BY <1>11, <1>12 DEF bronze

\* The finalists of the grand final.
LEMMA GrandFinalSides ==
    ASSUME NEW rounds \in 1..MaxRounds, NEW format \in Formats, format = "DOUBLE_ELIMINATION",
           NEW slots, NEW ms, NEW n, IsBracket(rounds, format, slots, ms, n)
    PROVE  /\ GrandFinalKey \in Keys(rounds, format)
           /\ Side(n[GrandFinalKey], 1) = n[MainFinal(rounds)].winner
           /\ rounds = 1 => Side(n[GrandFinalKey], 2) = n[MainFinal(rounds)].loser
           /\ rounds # 1 => Side(n[GrandFinalKey], 2) = n[LowerFinal(rounds)].winner
<1> DEFINE key == GrandFinalKey
           champion == LowerChampion(rounds)
<1>1. key \in Keys(rounds, format) /\ key[1] = "GRAND_FINAL" /\ ~Opening(key)
  BY KeysByKind DEF GrandFinalKey, Opening
<1>2. Feeds(rounds, key)[1] = WinnerOf("MAIN", rounds, 1) /\ Feeds(rounds, key)[2] = champion
  BY <1>1 DEF Feeds
<1>3. rounds = 1 => champion = LoserOf("MAIN", 1, 1)
  BY DEF LowerChampion
<1>4. rounds # 1 => champion = WinnerOf("LOWER", 2*(rounds - 1), 1)
  BY DEF LowerChampion
<1> HIDE DEF key, champion
<1>5. 1 \in Sides /\ 2 \in Sides
  BY DEF Sides
<1>6. \A s \in Sides : Side(n[key], s) = n[Feeds(rounds, key)[s].key][Feeds(rounds, key)[s].result]
  BY <1>1, NodeSides
<1>7. Side(n[key], 1) = n[MainFinal(rounds)].winner
  <2>1. Feeds(rounds, key)[1].key = MainFinal(rounds) /\ Feeds(rounds, key)[1].result = "winner"
    BY <1>2, FeedParts DEF MainFinal
  <2> QED
    BY <1>5, <1>6, <2>1
<1>8. ASSUME rounds = 1
      PROVE  Side(n[key], 2) = n[MainFinal(rounds)].loser
  <2>1. champion.key = MainFinal(rounds) /\ champion.result = "loser"
    BY <1>3, <1>8, FeedParts DEF MainFinal
  <2> QED
    BY <1>2, <1>5, <1>6, <2>1
<1>9. ASSUME rounds # 1
      PROVE  Side(n[key], 2) = n[LowerFinal(rounds)].winner
  <2>1. champion.key = LowerFinal(rounds) /\ champion.result = "winner"
    BY <1>4, <1>9, FeedParts DEF LowerFinal
  <2> QED
    BY <1>2, <1>5, <1>6, <2>1
<1> QED
  BY <1>1, <1>7, <1>8, <1>9 DEF key

\* The loser of the main bracket is in the lower final.
LEMMA LowerFinalSide ==
    ASSUME NEW rounds \in 1..MaxRounds, rounds # 1, NEW format \in Formats, format = "DOUBLE_ELIMINATION",
           NEW slots, NEW ms, NEW n, IsBracket(rounds, format, slots, ms, n)
    PROVE  /\ LowerFinal(rounds) \in Keys(rounds, format)
           /\ Side(n[LowerFinal(rounds)], 2) = n[MainFinal(rounds)].loser
<1> DEFINE q == 2*(rounds - 1)
           size == LowerRoundSize(rounds, q)
           drop == <<"MAIN", q \div 2 + 1, Crossed(1, size)>>
<1>1. q \in 1..2*(rounds - 1) /\ q \div 2 + 1 = rounds
  BY DEF MaxRounds
<1>2. size = 1 /\ q % 2 # 1
  BY <1>1, LowerSizes
<1>3. Crossed(1, size) = 1
  BY <1>2 DEF Crossed
<1>4. drop = MainFinal(rounds)
  BY <1>1, <1>3 DEF MainFinal
<1>5. LowerFinal(rounds) = <<"LOWER", q, 1>>
  BY DEF LowerFinal
<1> HIDE DEF q
<1>6. ASSUME NEW i \in 1..LowerRoundSize(rounds, q)
      PROVE  /\ <<"LOWER", q, i>> \in Keys(rounds, format)
             /\ Side(n[<<"LOWER", q, i>>], 2) =
                  n[<<"MAIN", q \div 2 + 1, Crossed(i, LowerRoundSize(rounds, q))>>].loser
  <2>1. q % 2 # 1
    BY <1>2
  <2>2. LET k == <<"LOWER", q, i>>
            from == <<"MAIN", q \div 2 + 1, Crossed(i, LowerRoundSize(rounds, q))>>
        IN  /\ k \in Keys(rounds, format) /\ Side(n[k], 1) = n[<<"LOWER", q - 1, i>>].winner
            /\ Side(n[k], 2) = n[from].loser
            /\ q \div 2 + 1 \in 2..rounds /\ from \in MainRound(rounds, q \div 2 + 1)
    BY <1>1, <2>1, DropInSides, SMTT(60)
  <2> QED
    BY <2>2
<1>7. 1 \in 1..LowerRoundSize(rounds, q)
  BY <1>2
<1>8. <<"LOWER", q, 1>> \in Keys(rounds, format) /\ Side(n[<<"LOWER", q, 1>>], 2) = n[drop].loser
  BY <1>6, <1>7
<1> HIDE DEF drop
<1> QED
  BY <1>4, <1>5, <1>8

\* Double elimination: the best two meet again in the grand final.
LEMMA BestTwoMeetAgain ==
    ASSUME NEW rounds \in 1..MaxRounds, NEW format \in Formats, format = "DOUBLE_ELIMINATION",
           NEW seeds, NEW ms, NEW n, Played(rounds, format, seeds, ms, n), Favoured(rounds, format, seeds, n),
           NEW a \in 1..Len(seeds), a = 1, NEW b \in 1..Len(seeds), b = 2
    PROVE  n[GrandFinalKey].winner = seeds[a] /\ n[GrandFinalKey].loser = seeds[b]
<1> DEFINE slots == Slots(rounds, seeds)
           main == MainFinal(rounds)
           lower == LowerFinal(rounds)
           grand == GrandFinalKey
<1>1. IsBracket(rounds, format, slots, ms, n)
  BY DEF Played
<1>2. n[main].winner = seeds[a] /\ n[main].loser = seeds[b]
  BY BestTwoMeet
<1>3. 1 \in Sides /\ 2 \in Sides
  BY DEF Sides
<1> HIDE DEF slots
<1>4. /\ grand \in Keys(rounds, format) /\ Side(n[grand], 1) = n[main].winner
      /\ rounds = 1 => Side(n[grand], 2) = n[main].loser
      /\ rounds # 1 => Side(n[grand], 2) = n[lower].winner
  BY <1>1, GrandFinalSides
<1>5. seeds[a] # NoEntry /\ seeds[b] # NoEntry /\ seeds[b] # seeds[a]
  BY DEF Played, Teams, Distinct
<1> HIDE DEF main, grand
<1>6. Side(n[grand], 2) = seeds[b]
  <2>1. CASE rounds = 1
    BY <1>2, <1>4, <2>1
  <2>2. CASE rounds # 1
    <3>1. lower \in Keys(rounds, format) /\ Side(n[lower], 2) = seeds[b]
      <4>1. lower \in Keys(rounds, format) /\ Side(n[lower], 2) = n[MainFinal(rounds)].loser
        BY <1>1, <2>2, LowerFinalSide
      <4> QED
        BY <1>2, <4>1 DEF main
    <3> HIDE DEF lower
    <3>2. n[lower].winner = seeds[b] \/ n[lower].loser = seeds[b]
      <4>1. Side(n[lower], 2) # NoEntry
        BY <1>5, <3>1
      <4> QED
        BY <1>3, <3>1, <4>1, PlayedNode
    <3>3. n[lower].loser # seeds[b]
      <4> SUFFICES ASSUME n[lower].loser = seeds[b]
                   PROVE  FALSE
        OBVIOUS
      <4>1. PICK h \in 1..Len(seeds) : h < b /\ n[lower].winner = seeds[h]
        BY <3>1, BeatenByBetter
      <4>2. h = a
        BY <4>1 DEF Played
      <4>3. Side(n[grand], 2) = seeds[a] /\ Side(n[grand], 1) = seeds[a]
        BY <1>2, <1>4, <2>2, <4>1, <4>2
      <4>4. Side(n[grand], 1) # NoEntry
        BY <1>5, <4>3
      <4>5. Side(n[grand], 1) # Side(n[grand], 2)
        BY <1>4, <4>4, TwoTeams
      <4> QED
        BY <4>3, <4>5
    <3> QED
      BY <1>4, <2>2, <3>2, <3>3
  <2> QED
    BY <2>1, <2>2
<1>7. Side(n[grand], 1) = seeds[a]
  BY <1>2, <1>4
<1>8. n[grand].winner = seeds[a] /\ n[grand].loser = seeds[b]
  BY <1>3, <1>4, <1>6, <1>7, BestOfTwo
<1> QED
  BY <1>8 DEF grand

\* Double elimination: the third seed loses the lower final.
LEMMA ThirdLosesLowerFinal ==
    ASSUME NEW rounds \in 1..MaxRounds, rounds # 1, NEW format \in Formats, format = "DOUBLE_ELIMINATION",
           NEW seeds, NEW ms, NEW n, Played(rounds, format, seeds, ms, n), Favoured(rounds, format, seeds, n),
           NEW a \in 1..Len(seeds), a = 1, NEW b \in 1..Len(seeds), b = 2, NEW c \in 1..Len(seeds), c = 3
    PROVE  n[LowerFinal(rounds)].loser = seeds[c]
<1>1. seeds[c] # NoEntry /\ seeds[c] # seeds[a] /\ seeds[c] # seeds[b]
  BY DEF Played, Teams, Distinct
<1>2. seeds[c] \in Teams(seeds) /\ seeds[a] # NoEntry /\ seeds[b] # NoEntry
  BY DEF Teams, Played
<1>3. n[GrandFinalKey].winner = seeds[a] /\ n[GrandFinalKey].loser = seeds[b]
  BY BestTwoMeetAgain
<1>4. PICK x \in {k \in DOMAIN ms : k[1] # "MAIN"} : n[x].loser = seeds[c]
  BY <1>1, <1>2, <1>3, AllButOneLose
<1>5. x \in Keys(rounds, format) /\ x[1] # "MAIN" /\ x # GrandFinalKey
  BY <1>1, <1>3, <1>4 DEF Played
<1>6. PICK h \in 1..Len(seeds) : h < c /\ n[x].winner = seeds[h]
  BY <1>4, <1>5, BeatenByBetter
<1> DEFINE e == seeds[h]
<1>7. h = a \/ h = b
  BY <1>6 DEF Played
<1>8. e # NoEntry
  BY <1>2, <1>7
<1>9. \E t \in Sides : Side(n[x], t) = e
  BY <1>5, <1>6, <1>8, PlayedNode
<1>10. \E s \in Sides : Side(n[MainFinal(rounds)], s) = e
  <2>1. n[MainFinal(rounds)].winner = seeds[a] /\ n[MainFinal(rounds)].loser = seeds[b]
    BY BestTwoMeet
  <2>2. MainFinal(rounds) \in Keys(rounds, format)
    BY MainKeys
  <2> DEFINE main == MainFinal(rounds)
  <2>3. n[main].winner = e \/ n[main].loser = e
    BY <1>7, <2>1
  <2>4. main \in Keys(rounds, format)
    BY <2>2
  <2> HIDE DEF main, e
  <2>5. \E s \in Sides : Side(n[main], s) = e
    BY <1>8, <2>3, <2>4, PlayedNode
  <2> QED
    BY <2>5 DEF main
<1> HIDE DEF e
<1>11. Place(rounds, x) >= 3*rounds - 2
  BY <1>5, <1>8, <1>9, <1>10, FinalistsWait
<1>12. x = LowerFinal(rounds)
  <2>1. PICK q \in 1..2*(rounds - 1) : x \in LowerRound(rounds, q)
    <3>1. \/ \E r \in 1..rounds : x \in MainRound(rounds, r)
          \/ \E q \in 1..2*(rounds - 1) : x \in LowerRound(rounds, q)
          \/ x = GrandFinalKey
      BY <1>5, KeysByKind
    <3> QED
      BY <1>5, <3>1 DEF MainRound
  <2>2. PICK i \in 1..LowerRoundSize(rounds, q) : x = <<"LOWER", q, i>>
    BY <2>1 DEF LowerRound
  <2>3. Place(rounds, x) = rounds + q
    BY <2>2 DEF Place
  <2>4. q = 2*(rounds - 1)
    BY <1>11, <2>3 DEF MaxRounds
  <2>5. LowerRoundSize(rounds, q) = 1
    BY <2>4, LowerSizes
  <2>6. i = 1
    BY <2>5
  <2> QED
    BY <2>2, <2>4, <2>6 DEF LowerFinal
<1> QED
  BY <1>4, <1>12

\* When the better seed wins every series the podium is the three best seeds.
LEMMA FavouritesPodium ==
    ASSUME NEW rounds \in 1..MaxRounds, NEW format \in Formats, NEW seeds, NEW ms, NEW n,
           Played(rounds, format, seeds, ms, n), Favoured(rounds, format, seeds, n)
    PROVE  Podium(rounds, n, format) =
             <<seeds[1], seeds[2], IF Len(seeds) > 2 THEN seeds[3] ELSE NoEntry>>
<1>1. Len(seeds) \in Nat /\ Len(seeds) >= 2 /\ (rounds = 1 <=> ~(Len(seeds) > 2))
  <2>1. Len(seeds) \in Nat /\ 2^(rounds - 1) < Len(seeds) /\ Len(seeds) <= 2^rounds
    BY DEF Played
  <2>2. rounds = 1 \/ rounds = 2 \/ rounds > 2
    BY DEF MaxRounds
  <2> DEFINE m == Len(seeds)
  <2> HIDE DEF m
  <2>3. /\ rounds = 1 => m = 2
        /\ rounds = 2 => m = 3 \/ m = 4
        /\ rounds > 2 => m > 4
    BY <2>1, FewTeams DEF m
  <2>4. m \in Nat
    BY <2>1 DEF m
  <2>5. m >= 2 /\ (rounds = 1 <=> ~(m > 2))
    BY <2>2, <2>3, <2>4
  <2> QED
    BY <2>4, <2>5 DEF m
<1> DEFINE final == FinalKey(rounds, format)
           third == IF rounds = 1 THEN NoEntry
                    ELSE IF format = "DOUBLE_ELIMINATION" THEN n[LowerFinal(rounds)].loser
                    ELSE n[BronzeKey(rounds)].winner
<1>2. Podium(rounds, n, format) = <<n[final].winner, n[final].loser, third>>
  BY DEF Podium, FinalKey, LowerFinal
<1>3. PICK a \in 1..Len(seeds), b \in 1..Len(seeds) : a = 1 /\ b = 2
  BY <1>1
<1>4. n[final].winner = seeds[a] /\ n[final].loser = seeds[b]
  <2>1. CASE format = "DOUBLE_ELIMINATION"
    <3>1. final = GrandFinalKey
      BY <2>1 DEF FinalKey
    <3>2. n[GrandFinalKey].winner = seeds[a] /\ n[GrandFinalKey].loser = seeds[b]
      BY <1>3, <2>1, BestTwoMeetAgain
    <3> QED
      BY <3>1, <3>2
  <2>2. CASE format # "DOUBLE_ELIMINATION"
    <3>1. final = MainFinal(rounds)
      BY <2>2 DEF FinalKey, MainFinal
    <3>2. n[MainFinal(rounds)].winner = seeds[a] /\ n[MainFinal(rounds)].loser = seeds[b]
      BY <1>3, BestTwoMeet
    <3> QED
      BY <3>1, <3>2
  <2> QED
    BY <2>1, <2>2
<1>5. ASSUME rounds # 1
      PROVE  third = seeds[3]
  <2>1. PICK c \in 1..Len(seeds) : c = 3
    BY <1>1, <1>5
  <2>2. CASE format = "DOUBLE_ELIMINATION"
    <3>1. n[LowerFinal(rounds)].loser = seeds[c]
      BY <1>3, <1>5, <2>1, <2>2, ThirdLosesLowerFinal
    <3> QED
      BY <1>5, <2>1, <2>2, <3>1
  <2>3. CASE format # "DOUBLE_ELIMINATION"
    <3>1. n[BronzeKey(rounds)].winner = seeds[c]
      BY <1>3, <1>5, <2>1, <2>3, ThirdWinsBronze
    <3> QED
      BY <1>5, <2>1, <2>3, <3>1
  <2> QED
    BY <2>2, <2>3
<1>6. rounds = 1 => third = NoEntry
  OBVIOUS
<1> HIDE DEF final, third
<1> QED
  BY <1>1, <1>2, <1>3, <1>4, <1>5, <1>6

=============================================================================
