----------------------------- MODULE OrderedMap ------------------------------
(***************************************************************************)
(* What a Map or Set promises a program that iterates it while changing    *)
(* it: the entries are a list in insertion order with one entry per key;   *)
(* an iterator has passed a number of them, yields every entry it has not  *)
(* passed exactly once, never one it has, and once done stays done.        *)
(* Removing an entry an iterator has passed moves the iterator back by     *)
(* one, so the entries after it are still to come; a key that is removed   *)
(* and added again is a new entry at the end.                              *)
(*                                                                         *)
(* A removal may renumber the entries, and an iterator follows only so     *)
(* many renumberings between two of its own steps (Patience).  Beyond that *)
(* it is lost: it goes on after the entry of the key it yielded last, and, *)
(* when that key is gone, anywhere.                                        *)
(***************************************************************************)
EXTENDS Integers, Sequences, SequencesExt

CONSTANTS
  Keys, Values, Iterators, IsSet, Nothing,
  Patience   \* renumberings an iterator follows between two of its steps

VARIABLES
  list,     \* the entries <<key, value>>, oldest first
  stage,    \* of each iterator: "none", "running" or "done"
  age,      \* renumberings since the last step of a running iterator
  passed,   \* how many entries it has passed, 0 when it is lost
  last      \* the entry it yielded last

vars == <<list, stage, age, passed, last>>

Init ==
  /\ list = <<>>
  /\ stage = [i \in Iterators |-> "none"]
  /\ age = [i \in Iterators |-> 0]
  /\ passed = [i \in Iterators |-> 0]
  /\ last = [i \in Iterators |-> Nothing]

Positions(k) == LET l == list IN {p \in DOMAIN l : l[p][1] = k}

Lost(i) == stage[i] = "running" /\ age[i] > Patience

Add(k, v) ==
  /\ Positions(k) = {}
  /\ list' = Append(list, <<k, v>>)
  /\ UNCHANGED <<stage, age, passed, last>>

Update(k, v) ==
  /\ ~ IsSet
  /\ \E p \in Positions(k) : list' = [list EXCEPT ![p] = <<k, v>>]
  /\ UNCHANGED <<stage, age, passed, last>>

Delete(k) ==
  /\ \E p \in Positions(k), renumberings \in {0, 1} :
       /\ list' = RemoveAt(list, p)
       /\ age' = [i \in Iterators |-> IF stage[i] = "running" THEN age[i] + renumberings ELSE 0]
       /\ passed' = [i \in Iterators |-> IF age'[i] > Patience THEN 0
                                         ELSE IF passed[i] >= p THEN passed[i] - 1
                                         ELSE passed[i]]
  /\ UNCHANGED <<stage, last>>

Clear ==
  /\ list' = <<>>
  /\ passed' = [i \in Iterators |-> 0]
  /\ UNCHANGED <<stage, age, last>>

Start(i) ==
  /\ stage[i] = "none"
  /\ stage' = [stage EXCEPT ![i] = "running"]
  /\ UNCHANGED <<list, age, passed, last>>

\* How many entries iterator i may hold to be behind it when it takes a step.
Places(i) ==
  CASE ~ Lost(i) -> {passed[i]}
    [] Lost(i) /\ last[i] = Nothing -> {0}
    [] Lost(i) /\ last[i] # Nothing ->
         IF Positions(last[i][1]) # {} THEN Positions(last[i][1]) ELSE 0 .. Len(list)

Yield(i) ==
  /\ stage[i] = "running"
  /\ \E n \in Places(i) :
       /\ n < Len(list)
       /\ last' = [last EXCEPT ![i] = list[n + 1]]
       /\ passed' = [passed EXCEPT ![i] = n + 1]
  /\ age' = [age EXCEPT ![i] = 0]
  /\ UNCHANGED <<list, stage>>

Finish(i) ==
  /\ stage[i] = "running"
  /\ Len(list) \in Places(i)
  /\ stage' = [stage EXCEPT ![i] = "done"]
  /\ age' = [age EXCEPT ![i] = 0]
  /\ passed' = [passed EXCEPT ![i] = 0]
  /\ last' = [last EXCEPT ![i] = Nothing]
  /\ UNCHANGED list

Next ==
  \/ \E k \in Keys, v \in Values : Add(k, v) \/ Update(k, v)
  \/ \E k \in Keys : Delete(k)
  \/ Clear
  \/ \E i \in Iterators : Start(i) \/ Yield(i) \/ Finish(i)

Spec == Init /\ [][Next]_vars
=============================================================================
