----------------------------- MODULE ActualMerkle -----------------------------
(* The trie two sides of a synchronisation compare to find the time from      *)
(* which they differ: one level per base-3 digit of the minute, a hash at     *)
(* every node, and only the last two branches of a node kept.  A hash is the  *)
(* set of the timestamps in it: no two sets hash alike.                       *)
EXTENDS Integers, Sequences

CONSTANTS
  PerMinute,   \* milliseconds to the minute
  Width,       \* digits a key is filled up to (16)
  MaxMinute    \* bound: the last minute there is

(* Assumed where the module is instantiated. *)
TrieNat ==
  PerMinute \in Nat \ {0} /\ Width \in Nat \ {0} /\ MaxMinute \in Nat

Power == LET power[n \in 0..Width] == IF n = 0 THEN 1 ELSE 3 * power[n - 1] IN power

(* Assumed likewise: a key has no more digits than keys are filled up to. *)
ShortEnough == Power[Width] > MaxMinute

(* Number.toString(3): no leading zeros. *)
Key == [minute \in 0..MaxMinute |->
  LET l == CHOOSE n \in 1..Width :
             Power[n] > minute /\ (n = 1 \/ Power[n - 1] <= minute)
  IN [i \in 1..l |-> (minute \div Power[l - i]) % 3]]

Front(k, n) == SubSeq(k, 1, n)

KeyOf(s) == Key[s.millis \div PerMinute]
Path(s) == LET key == KeyOf(s) IN {Front(key, n) : n \in 0..Len(key)}
OnPath(k, s) == LET key == KeyOf(s) IN Len(k) <= Len(key) /\ k = Front(key, Len(k))

EmptyTrie == [k \in {<<>>} |-> {}]

HashAt(t, k) == IF k \in DOMAIN t THEN t[k] ELSE {}
Xor(a, b) == (a \ b) \cup (b \ a)

(* insert, of each of a set: a timestamp goes into every node on its way,    *)
(* made if need be; hashes combine in any order.                             *)
InsertAll(t, S) ==
  [k \in DOMAIN t \cup UNION {Path(s) : s \in S} |->
     Xor(HashAt(t, k), {s \in S : OnPath(k, s)})]

Branches(t, k) == {d \in 0..2 : Append(k, d) \in DOMAIN t}

(* Of a node's branches the last two are kept: no two come after one that is. *)
Kept(t, k, d) == ~\E e, f \in Branches(t, k) : d < e /\ e < f

(* prune: a node stays if every step to it is among the last two.            *)
Prune(t) ==
  LET stays == {k \in DOMAIN t : \A n \in 1..Len(k) : Kept(t, Front(k, n - 1), k[n])}
  IN [k \in stays |-> t[k]]

Value(k) ==
  LET value[n \in 0..Len(k)] == IF n = 0 THEN 0 ELSE 3 * value[n - 1] + k[n]
  IN  value[Len(k)]

(* Mutant: filled up to the last minute of the branch. *)
KeyTimeLate(k) ==
  PerMinute * ((Value(k) + 1) * Power[Width - Len(k)] - 1)

(* keyToTimestamp: filled up with zeros. *)
KeyTime(k) == PerMinute * Value(k) * Power[Width - Len(k)]

(* The first branch either has, provided both have it and it differs; any    *)
(* before it are there on both sides and alike.                              *)
Leads(t, u, k, d) ==
  /\ d \in Branches(t, k) \cap Branches(u, k)
  /\ t[Append(k, d)] # u[Append(k, d)]
  /\ \A e \in 0..(d - 1) : e \in Branches(t, k) \cup Branches(u, k) =>
       /\ e \in Branches(t, k) \cap Branches(u, k)
       /\ t[Append(k, e)] = u[Append(k, e)]

Differs(t, u) == HashAt(t, <<>>) # HashAt(u, <<>>)

(* diff, where the hashes at the top differ: down as long as a branch leads. *)
Diff(t, u) ==
  KeyTime(CHOOSE k \in DOMAIN t \cap DOMAIN u :
            /\ \A n \in 1..Len(k) : Leads(t, u, Front(k, n - 1), k[n])
            /\ \A d \in 0..2 : ~Leads(t, u, k, d))

(* What a side's trie is, whatever order its timestamps came in.             *)
Trie(S) == Prune(InsertAll(EmptyTrie, S))
=============================================================================
