------------------------------- MODULE Bracket -------------------------------
(***************************************************************************)
(* The pure bracket builder of the tournament module                       *)
(* (apps/api/src/modules/tournaments/tournament-bracket.ts): seed          *)
(* placement, the topology of a single or double elimination bracket, the  *)
(* entries and results its nodes derive from the frozen seeds and the      *)
(* match rows, the nodes ready to be scheduled, completion and podium.     *)
(*                                                                         *)
(* A bracket of 2^rounds slots is addressed by node keys                   *)
(* <<kind, round, number>>.  "matches" is a function from the keys that    *)
(* have a match row to records with a status and a winner; "seeds" is the  *)
(* sequence of entries in seed order.                                      *)
(***************************************************************************)
EXTENDS Integers, Sequences, FiniteSets

CONSTANT NoEntry            \* null: no entry is known for a side

Formats == {"SINGLE_ELIMINATION", "DOUBLE_ELIMINATION"}

MaxRounds == 8              \* more than 256 slots are refused

\* The rounds of the smallest bracket with a slot for each of n teams.
Log2Ceil(n) == CHOOSE k \in 1..MaxRounds : 2^k >= n /\ 2^(k - 1) < n

\* F(v) with v evaluated once (TLC evaluates arguments and LETs by name).
With(v, F(_)) == CHOOSE y \in {F(x) : x \in {v}} : TRUE

\* f, and g where f is not defined.
Over(f, g) == [x \in DOMAIN f \cup DOMAIN g |-> IF x \in DOMAIN f THEN f[x] ELSE g[x]]

-----------------------------------------------------------------------------
\* SeedOrder[k] is seedOrder(2^k): every seed of the smaller bracket is
\* followed by the seed it would meet if the favourites keep winning.
SeedOrder[k \in Nat \ {0}] ==
    IF k = 1 THEN <<1, 2>>
    ELSE With(SeedOrder[k - 1], LAMBDA order :
           [i \in 1..2^k |-> IF i % 2 = 1 THEN order[(i + 1) \div 2]
                                          ELSE 2^k + 1 - order[i \div 2]])

\* The entry of every slot of the first round, NoEntry where the seed is missing.
Slots(rounds, seeds) ==
    With(SeedOrder[rounds], LAMBDA order :
      [i \in 1..2^rounds |-> IF order[i] <= Len(seeds) THEN seeds[order[i]] ELSE NoEntry])

-----------------------------------------------------------------------------
\* The topology: which earlier nodes feed a node, and with which result.
WinnerOf(kind, round, i) == [key |-> <<kind, round, i>>, result |-> "winner"]
LoserOf(kind, round, i) == [key |-> <<kind, round, i>>, result |-> "loser"]

\* Mutant: the drop-ins are not crossed.
Uncrossed(i, n) == i

\* The neighbour (index ^ 1) of slot i among n, itself when it is alone.
Crossed(i, n) == IF n = 1 THEN i ELSE IF i % 2 = 1 THEN i + 1 ELSE i - 1

LowerRoundSize(rounds, q) == 2^(rounds - 2 - (q - 1) \div 2)

\* Lower round 1 pairs the first losers; round 2u-2 drops the losers of upper
\* round u in, crossed between neighbours; round 2u-3 pairs the survivors.
LowerFeeds(rounds, q, i) ==
    IF q = 1 THEN <<LoserOf("MAIN", 1, 2*i - 1), LoserOf("MAIN", 1, 2*i)>>
    ELSE IF q % 2 = 1 THEN <<WinnerOf("LOWER", q - 1, 2*i - 1), WinnerOf("LOWER", q - 1, 2*i)>>
    ELSE <<WinnerOf("LOWER", q - 1, i),
           LoserOf("MAIN", q \div 2 + 1, Crossed(i, LowerRoundSize(rounds, q)))>>

\* Mutant: the loser of the lower final goes on.
LowerChampionBeaten(rounds) ==
    IF rounds = 1 THEN LoserOf("MAIN", 1, 1) ELSE LoserOf("LOWER", 2*(rounds - 1), 1)

\* The second finalist of the grand final: with two slots there is no lower
\* bracket and the finalists meet again.
LowerChampion(rounds) ==
    IF rounds = 1 THEN LoserOf("MAIN", 1, 1) ELSE WinnerOf("LOWER", 2*(rounds - 1), 1)

Feeds(rounds, key) ==
    CASE key[1] = "MAIN" -> <<WinnerOf("MAIN", key[2] - 1, 2*key[3] - 1), WinnerOf("MAIN", key[2] - 1, 2*key[3])>>
      [] key[1] = "LOWER" -> LowerFeeds(rounds, key[2], key[3])
      [] key[1] = "BRONZE" -> <<LoserOf("MAIN", rounds - 1, 1), LoserOf("MAIN", rounds - 1, 2)>>
      [] key[1] = "GRAND_FINAL" -> <<WinnerOf("MAIN", rounds, 1), LowerChampion(rounds)>>

MainRound(rounds, r) == {<<"MAIN", r, i>> : i \in 1..2^(rounds - r)}
LowerRound(rounds, q) == {<<"LOWER", q, i>> : i \in 1..LowerRoundSize(rounds, q)}
BronzeKey(rounds) == <<"BRONZE", rounds + 1, 1>>
GrandFinalKey == <<"GRAND_FINAL", 1, 1>>

\* The rounds in the order they are built: a node follows the nodes feeding it.
Layers(rounds, format) ==
    [r \in 1..rounds |-> MainRound(rounds, r)] \o
    (IF format = "DOUBLE_ELIMINATION"
     THEN [q \in 1..2*(rounds - 1) |-> LowerRound(rounds, q)] \o <<{GrandFinalKey}>>
     ELSE IF rounds >= 2 THEN <<{BronzeKey(rounds)}>> ELSE <<>>)

-----------------------------------------------------------------------------
\* A row decides a node when it is completed with one of the node's sides.
ValidResult(match, a, b) == match.status = "COMPLETED" /\ match.winner \in {a, b} \ {NoEntry}

\* Mutant: a missing side is a bye although its feed is still being played.
NodeEarlyBye(matches, key, a, b, feedsResolved) ==
    LET hasMatch == key \in DOMAIN matches
        valid == hasMatch /\ ValidResult(matches[key], a, b)
        bye == ~hasMatch /\ NoEntry \in {a, b} /\ {a, b} # {NoEntry}
    IN  [entryA |-> a, entryB |-> b, hasMatch |-> hasMatch, feedsResolved |-> feedsResolved,
         winner |-> IF valid THEN matches[key].winner
                    ELSE IF bye THEN IF a # NoEntry THEN a ELSE b
                    ELSE NoEntry,
         loser |-> IF ~valid THEN NoEntry ELSE IF matches[key].winner = a THEN b ELSE a,
         resolved |-> valid \/ bye]

\* Mutant: only a missing second side is a bye; an empty first side waits.
NodeHalfBye(matches, key, a, b, feedsResolved) ==
    LET hasMatch == key \in DOMAIN matches
        valid == hasMatch /\ ValidResult(matches[key], a, b)
        bye == ~hasMatch /\ feedsResolved /\ b = NoEntry
    IN  [entryA |-> a, entryB |-> b, hasMatch |-> hasMatch, feedsResolved |-> feedsResolved,
         winner |-> IF valid THEN matches[key].winner ELSE IF bye THEN a ELSE NoEntry,
         loser |-> IF ~valid THEN NoEntry ELSE IF matches[key].winner = a THEN b ELSE a,
         resolved |-> valid \/ bye]

\* One node: its sides and its result, which is its match row's or, when its
\* feeds are settled, a side is missing and no row exists, a bye.
Node(matches, key, a, b, feedsResolved) ==
    LET hasMatch == key \in DOMAIN matches
        valid == hasMatch /\ ValidResult(matches[key], a, b)
        bye == ~hasMatch /\ feedsResolved /\ NoEntry \in {a, b}
    IN  [entryA |-> a, entryB |-> b, hasMatch |-> hasMatch, feedsResolved |-> feedsResolved,
         winner |-> IF valid THEN matches[key].winner
                    ELSE IF bye THEN IF a # NoEntry THEN a ELSE b
                    ELSE NoEntry,
         loser |-> IF ~valid THEN NoEntry ELSE IF matches[key].winner = a THEN b ELSE a,
         resolved |-> valid \/ bye]

\* A node of a round whose feeding nodes are already built.
FedNode(matches, key, built, feedA, feedB) ==
    Node(matches, key, built[feedA.key][feedA.result], built[feedB.key][feedB.result],
         built[feedA.key].resolved /\ built[feedB.key].resolved)

BuildLayer(rounds, slots, matches, keys, built) ==
    [key \in DOMAIN built \cup keys |->
       IF key \in DOMAIN built THEN built[key]
       ELSE IF key[1] = "MAIN" /\ key[2] = 1
       THEN Node(matches, key, slots[2*key[3] - 1], slots[2*key[3]], TRUE)
       ELSE LET feeds == Feeds(rounds, key)
            IN  FedNode(matches, key, built, feeds[1], feeds[2])]

\* All the nodes, as a function from their keys.
Nodes(rounds, seeds, matches, format) ==
    LET layers == Layers(rounds, format)
        upTo[l \in 0..Len(layers)] ==
            IF l = 0 THEN <<>>
            ELSE With(upTo[l - 1], LAMBDA built :
                   BuildLayer(rounds, Slots(rounds, seeds), matches, layers[l], built))
    IN  upTo[Len(layers)]

-----------------------------------------------------------------------------
\* The nodes to schedule.  Double elimination: both feeds are settled.  Single
\* elimination: the whole previous MAIN round is settled.
PreviousRound(rounds, key) ==
    MainRound(rounds, IF key[1] = "BRONZE" THEN rounds - 1 ELSE key[2] - 1)
Ready(rounds, nodes, format) ==
    {key \in DOMAIN nodes :
       /\ ~nodes[key].hasMatch /\ NoEntry \notin {nodes[key].entryA, nodes[key].entryB}
       /\ IF format = "DOUBLE_ELIMINATION" THEN nodes[key].feedsResolved
          ELSE key[2] = 1 \/ \A k \in PreviousRound(rounds, key) : nodes[k].resolved}

\* Mutant: the third-place match is not waited for.
CompleteAtFinal(rounds, nodes, format) ==
    nodes[IF format = "DOUBLE_ELIMINATION" THEN GrandFinalKey ELSE <<"MAIN", rounds, 1>>].winner # NoEntry

Complete(rounds, nodes, format) ==
    LET final == nodes[IF format = "DOUBLE_ELIMINATION" THEN GrandFinalKey ELSE <<"MAIN", rounds, 1>>]
    IN  /\ final.resolved /\ final.winner # NoEntry
        /\ BronzeKey(rounds) \in DOMAIN nodes => nodes[BronzeKey(rounds)].resolved

Podium(rounds, nodes, format) ==
    LET final == nodes[IF format = "DOUBLE_ELIMINATION" THEN GrandFinalKey ELSE <<"MAIN", rounds, 1>>]
        third == IF rounds = 1 THEN NoEntry
                 ELSE IF format = "DOUBLE_ELIMINATION" THEN nodes[<<"LOWER", 2*(rounds - 1), 1>>].loser
                 ELSE nodes[BronzeKey(rounds)].winner
    IN  <<final.winner, final.loser, third>>

BuildBracket(rounds, seeds, matches, format) ==
    With(Nodes(rounds, seeds, matches, format), LAMBDA nodes :
      [nodes |-> nodes, ready |-> Ready(rounds, nodes, format),
       complete |-> Complete(rounds, nodes, format), podium |-> Podium(rounds, nodes, format)])
=============================================================================
