----------------------------- MODULE ActualTries -----------------------------
(* Two sides take in timestamps in any order, pruning after every batch, and  *)
(* exchange what they have from the time their tries say they differ from.    *)
EXTENDS ActualMerkle

CONSTANT Stamps  \* the timestamps there are, records with the field millis

Sides == {"client", "server"}

(* Assumed where the module is instantiated. *)
StampsInTime == \A s \in Stamps : s.millis \in Nat /\ s.millis \div PerMinute <= MaxMinute
Assumed == TrieNat /\ ShortEnough /\ StampsInTime

(* The minutes of these years: those whose keys are just as long as keys are *)
(* filled up to.                                                             *)
FullWidth == \A s \in Stamps : Power[Width - 1] <= s.millis \div PerMinute

VARIABLES
  held,        \* the timestamps each side has
  trie         \* and the trie it keeps of them

vars == <<held, trie>>

Init ==
  /\ held = [o \in Sides |-> {}]
  /\ trie = [o \in Sides |-> EmptyTrie]

(* A batch: what a side has already is passed over, then the trie is pruned. *)
TrieWith(o, S) == Prune(InsertAll(trie[o], S \ held[o]))

Add(o) ==
  \E r, s \in Stamps \ held[o] :
    /\ held' = [held EXCEPT ![o] = @ \cup {r, s}]
    /\ trie' = [trie EXCEPT ![o] = TrieWith(o, {r, s})]

From(S, time) == {s \in S : s.millis >= time}

(* One pass: both sides get what the other has from then on.                 *)
Exchange ==
  /\ Differs(trie["client"], trie["server"])
  /\ LET since == Diff(trie["client"], trie["server"])
         both == From(held["client"] \cup held["server"], since)
     IN /\ held' = [o \in Sides |-> held[o] \cup both]
        /\ trie' = [o \in Sides |-> TrieWith(o, both)]

Next == (\E o \in Sides : Add(o)) \/ Exchange

Spec == Init /\ [][Next]_vars

-----------------------------------------------------------------------------
TypeOK ==
  /\ held \in [Sides -> SUBSET Stamps]
  /\ \A o \in Sides : \A k \in DOMAIN trie[o] :
       Len(k) \in 0..Width /\ trie[o][k] \subseteq held[o]

(* Pruning loses nothing that depends on the order of arrival: the trie is   *)
(* that of the timestamps a side has.                                        *)
TrieOfHeld == \A o \in Sides : trie[o] = Trie(held[o])

(* The tries tell one side from the other exactly when they are different,   *)
(* and the time they give comes no later than something one of them lacks    *)
(* (merkle.ts:100): every pass moves something.                              *)
EveryPassMoves ==
  LET t == trie["client"]
      u == trie["server"]
      apart == Xor(held["client"], held["server"])
  IN /\ Differs(t, u) <=> apart # {}
     /\ Differs(t, u) => From(apart, Diff(t, u)) # {}

(* A pass that leaves a difference leaves one from an earlier time: the same  *)
(* time twice is a sign of corruption (sync/index.ts:752).                    *)
EachPassEarlier ==
  [][Exchange /\ Differs(trie'["client"], trie'["server"]) =>
       Diff(trie'["client"], trie'["server"]) < Diff(trie["client"], trie["server"])]_vars
=============================================================================
